---------------------------- MODULE FatFs_proofs ----------------------------
(***************************************************************************)
(* Proofs of the invariants of module FatFs: what one call leaves of its   *)
(* file and of all the others, on the volume and on each disk that a crash *)
(* may find, call by call, and that a volume mounted after a crash begins  *)
(* anew.                                                                   *)
(***************************************************************************)
EXTENDS FatFile_proofs

\* The entry i may become e, while cut and moving are what they are to be.
Suits(v, cut, moving, ch, K, i, e) ==
    /\ i \in 1 .. Slots /\ e \in Entries(AllNames) /\ i \notin K.slots
    /\ \A j \in 1 .. Slots : j # i /\ v.dir[j].name = e.name => e.name \in {End, Dde}
    /\ ~moving => /\ e.name \notin {End, Dde} \cup cut => e.sclust \in {0, First(ch[e.name])}
                  /\ \A j \in Used(v.dir) : j # i /\ v.dir[j].name \notin cut
                                                => v.dir[j].sclust \in {0, First(ch[v.dir[j].name])}

LEMMA EntryRight ==
    ASSUME NEW v \in Vols, NEW ch, NEW K, NEW cut0, NEW moving0, Right(Seen(v), cut0, moving0, ch, K),
           NEW cut, NEW moving, NEW i, NEW e, Suits(v, cut, moving, ch, K, i, e)
    PROVE  Right([Seen(v) EXCEPT !.dir = [v.dir EXCEPT ![i] = e]], cut, moving, ch, K)
<1> DEFINE d == Seen(v)
           dir == [v.dir EXCEPT ![i] = e]
           d2 == [d EXCEPT !.dir = dir]
<1>1. d.fat = v.fat /\ d.dir = v.dir /\ d = [fat |-> d.fat, dir |-> d.dir, data |-> d.data]
  BY DEF Seen
<1> HIDE DEF d
<1>2. d2.fat = d.fat /\ d2.dir = dir /\ d2.data = d.data
  BY <1>1
<1>3. /\ Layout(d.fat, ch) /\ (K.whole => Covered(d.fat, ch)) /\ Unique(v.dir) /\ Kept(d, K)
  BY <1>1 DEF Right, d
<1>4. i \in 1 .. Slots /\ v.dir \in Dirs(AllNames) /\ DOMAIN v.dir = 1 .. Slots
  BY DEF Suits, Vols, Volumes, Dirs
<1>5. dir[i] = e /\ DOMAIN dir = 1 .. Slots /\ \A j \in 1 .. Slots : j # i => dir[j] = v.dir[j]
  BY <1>4 DEF Dirs
<1> HIDE DEF dir, d2
<1>6. \A j \in Used(dir) : /\ j = i => e.name \notin {End, Dde}
                           /\ j # i => j \in Used(v.dir) /\ dir[j] = v.dir[j]
                           /\ j \in 1 .. Slots
  BY <1>4, <1>5 DEF Used
<1>7. Unique(dir)
  <2> SUFFICES ASSUME NEW a \in Used(dir), NEW b \in Used(dir), dir[a].name = dir[b].name PROVE a = b
    BY DEF Unique
  <2>1. CASE a # i /\ b # i
    BY <1>3, <1>6, <2>1 DEF Unique
  <2>2. CASE a = i
    <3>1. b # i => v.dir[b].name = e.name /\ e.name \notin {End, Dde} /\ b \in 1 .. Slots
      BY <1>5, <1>6, <2>2
    <3> QED BY <2>2, <3>1 DEF Suits
  <2>3. CASE b = i
    <3>1. a # i => v.dir[a].name = e.name /\ e.name \notin {End, Dde} /\ a \in 1 .. Slots
      BY <1>5, <1>6, <2>3
    <3> QED BY <2>3, <3>1 DEF Suits
  <2> QED BY <2>1, <2>2, <2>3
<1>8. ~moving => Heads(dir, ch, cut)
  <2> SUFFICES ASSUME ~moving, NEW j \in Used(dir), dir[j].name \notin cut
               PROVE  dir[j].sclust \in {0, First(ch[dir[j].name])}
    BY DEF Heads
  <2>1. CASE j = i
    <3>1. e.name \notin {End, Dde} \cup cut
      BY <1>5, <1>6, <2>1
    <3> QED BY <1>5, <2>1, <3>1 DEF Suits
  <2>2. CASE j # i
    <3>1. j \in Used(v.dir) /\ dir[j] = v.dir[j]
      BY <1>6, <2>2
    <3> QED BY <2>2, <3>1 DEF Suits
  <2> QED BY <2>1, <2>2
<1>9. Kept(d2, K)
  <2>1. \A j \in K.slots : j # i
    BY DEF Suits
  <2>2. \A j \in K.slots : dir[j] = v.dir[j]
    <3> SUFFICES ASSUME NEW j \in K.slots PROVE dir[j] = v.dir[j]
      OBVIOUS
    <3>1. j # i
      BY <2>1
    <3> QED BY <1>4, <3>1 DEF dir, Dirs
  <2> QED BY <1>1, <1>2, <1>3, <2>2 DEF Kept
<1>10. Right(d2, cut, moving, ch, K)
  BY <1>2, <1>3, <1>7, <1>8, <1>9 DEF Right
<1> QED BY <1>10 DEF d, d2, dir

LEMMA EntryGood ==
    ASSUME NEW v, NEW ch, NEW K, Good(v, ch, K), NEW i, NEW e, Suits(v, v.cut, v.moving, ch, K, i, e)
    PROVE  LET w == put_entry(v, i, e)
           IN  /\ Good(w, ch, K) /\ w.wflag /\ w.dir = [v.dir EXCEPT ![i] = e] /\ w.fat = v.fat
               /\ w.disk.data = v.disk.data /\ w.cut = v.cut /\ w.moving = v.moving /\ w.free = v.free
<1> DEFINE w == put_entry(v, i, e)
<1>1. v \in Vols /\ Right(Seen(v), v.cut, v.moving, ch, K) /\ i \in 1 .. Slots /\ e \in Entries(AllNames)
  BY DEF Good, Suits
<1>2. Right([Seen(v) EXCEPT !.dir = [v.dir EXCEPT ![i] = e]], v.cut, v.moving, ch, K)
  BY <1>1, EntryRight
<1>3. Good(w, ch, K) /\ w.wflag /\ Alike([v EXCEPT !.dir = [v.dir EXCEPT ![i] = e]], w)
  BY <1>1, <1>2, PutEntryGood
<1> HIDE DEF w
<1> DEFINE a == [v EXCEPT !.dir = [v.dir EXCEPT ![i] = e]]
<1>4. a.dir = [v.dir EXCEPT ![i] = e] /\ a.fat = v.fat /\ a.disk = v.disk /\ a.cut = v.cut /\ a.moving = v.moving
      /\ a.free = v.free
  BY <1>1 DEF Vols, Volumes
<1> HIDE DEF a
<1>5. /\ w.dir = a.dir /\ w.fat = a.fat /\ w.disk.data = a.disk.data /\ w.cut = a.cut /\ w.moving = a.moving
      /\ w.free = a.free
  BY <1>3 DEF Alike, a
<1> QED BY <1>3, <1>4, <1>5 DEF w

\* What follows from names being used once.
LEMMA OnlySlot ==
    ASSUME NEW dir \in Dirs(AllNames), Unique(dir), NEW f \in Names, NEW i \in 1 .. Slots, dir[i].name = f
    PROVE  i \in Used(dir) /\ \A j \in 1 .. Slots : j # i => dir[j].name # f
<1>1. f \notin {End, Dde} /\ DOMAIN dir = 1 .. Slots
  BY NameFacts DEF Dirs
<1>2. \A j \in 1 .. Slots : dir[j].name = f => j \in Used(dir)
  BY <1>1 DEF Used
<1> QED BY <1>2 DEF Unique

-----------------------------------------------------------------------------
\* t is s after f_sync of the file f, whose entry was written.
Synced(s, ch, K, f, t) ==
    /\ Works(t, ch, K, f) /\ ~t.p.dirty /\ ~t.p.written
    /\ t.p.wr = s.p.wr /\ t.p.slot = s.p.slot /\ t.p.fsize = s.p.fsize /\ t.p.fptr = s.p.fptr
    /\ t.p.clust = s.p.clust /\ t.p.dsect = s.p.dsect /\ t.p.sclust = s.p.sclust
    /\ t.v.dir = [s.v.dir EXCEPT ![s.p.slot] = Entry(f, s.p.sclust, s.p.fsize)]
    /\ t.v.cut = s.v.cut \ {f} /\ t.v.moving = s.v.moving /\ t.v.disk = Seen(t.v)
    /\ \A c \in Contents : Holding(s, ch[f], c) => Holding(t, ch[f], c)

LEMMA SyncWorks ==
    ASSUME NEW s, NEW ch, NEW K, NEW f \in Names, Works(s, ch, K, f), s.p.written,
           s.p.slot \notin K.slots, s.v.dir[s.p.slot].name = f
    PROVE  Synced(s, ch, K, f, SyncFile(s))
<1> DEFINE i == s.p.slot
           t == WriteBuffer(s)
           w == move_window(t.v, DirSector(t.p.slot))
           e == [w.dir[t.p.slot] EXCEPT !.sclust = t.p.sclust, !.size = t.p.fsize]
           u == put_entry(w, t.p.slot, e)
           x == [u EXCEPT !.cut = @ \ {e.name}]
           z == SyncFile(s)
           p == [t.p EXCEPT !.written = FALSE]
<1>0. z = On(sync(x), p)
  BY DEF SyncFile
<1>1. /\ Works(t, ch, K, f) /\ Still(s.v, t.v) /\ t.v.fat = s.v.fat
      /\ Buffered(s.p, t.p) /\ Flushed(s, t)
  BY WriteBufferWorks
<1>2. \A c \in Contents : Holding(s, ch[f], c) => Holding(t, ch[f], c)
  BY HoldingWriteBuffer
<1> HIDE DEF t
<1>3. /\ s.p \in FilRec /\ t.p \in FilRec /\ Good(t.v, ch, K) /\ FreeRight(t.v) /\ t.p.sclust = First(ch[f])
      /\ s.p.sclust = First(ch[f]) /\ Aside(K, ch, f) /\ ch[Loose] = Nil
  BY <1>1, WorksFacts
<1>4. i \in 1 .. Slots /\ t.p.slot = i /\ t.p.sclust = s.p.sclust /\ t.p.fsize = s.p.fsize /\ s.p.fsize \in Nat
      /\ s.p.sclust \in {0} \cup Cluster
  BY <1>1, <1>3, FilFacts DEF Buffered
<1>5. Good(w, ch, K) /\ Alike(t.v, w)
  <2>1. DirSector(t.p.slot) \in Sectors
    BY <1>4 DEF Sectors
  <2> QED BY <1>3, <2>1, MoveGood
<1> HIDE DEF w
<1>6. w.dir = s.v.dir /\ w.cut = s.v.cut /\ w.moving = s.v.moving /\ w.fat = s.v.fat /\ w.free = t.v.free
      /\ w.disk.data = t.v.disk.data
  BY <1>1, <1>5 DEF Alike, Still
<1>7. w.dir \in Dirs(AllNames) /\ Unique(w.dir) /\ (~w.moving => Heads(w.dir, ch, w.cut)) /\ w \in Vols
      /\ Right(Seen(w), w.cut, w.moving, ch, K)
  BY <1>5, GoodFacts
<1>8. e = Entry(f, s.p.sclust, s.p.fsize) /\ e.name = f /\ e.sclust = s.p.sclust
  <2>1. w.dir[i] \in Entries(AllNames) /\ w.dir[i].name = f
    BY <1>4, <1>6, <1>7 DEF Dirs
  <2> DEFINE b == w.dir[i]
  <2>2. e = [b EXCEPT !.sclust = s.p.sclust, !.size = s.p.fsize]
    BY <1>4
  <2> HIDE DEF e, b
  <2>3. b = [name |-> b.name, sclust |-> b.sclust, size |-> b.size] /\ b.name = f
    BY <2>1 DEF Entries, b
  <2>4. e = [name |-> b.name, sclust |-> s.p.sclust, size |-> s.p.fsize]
    BY <2>2, <2>3
  <2> QED BY <2>3, <2>4 DEF Entry
<1> HIDE DEF e
<1>9. e \in Entries(AllNames)
  BY <1>4, <1>8 DEF Entries, Entry, AllNames
<1>10. \A j \in 1 .. Slots : j # i => w.dir[j].name # f
  BY <1>4, <1>6, <1>7, OnlySlot
<1>11. Suits(w, w.cut, w.moving, ch, K, i, e) /\ Suits(w, w.cut \ {f}, w.moving, ch, K, i, e)
  <2>1. \A j \in Used(w.dir) : j # i => w.dir[j].name # f
    BY <1>7, <1>10, UsedFacts
  <2>2. ~w.moving => \A j \in Used(w.dir) : j # i /\ w.dir[j].name \notin w.cut \ {f}
                                => w.dir[j].sclust \in {0, First(ch[w.dir[j].name])}
    BY <1>7, <2>1 DEF Heads
  <2>3. e.sclust \in {0, First(ch[e.name])}
    BY <1>3, <1>8
  <2>4. i \in 1 .. Slots /\ e \in Entries(AllNames) /\ i \notin K.slots
    BY <1>4, <1>9
  <2>5. \A j \in 1 .. Slots : j # i /\ w.dir[j].name = e.name => e.name \in {End, Dde}
    BY <1>8, <1>10
  <2>6. ~w.moving => \A j \in Used(w.dir) : j # i /\ w.dir[j].name \notin w.cut
                                => w.dir[j].sclust \in {0, First(ch[w.dir[j].name])}
    BY <1>7 DEF Heads
  <2> QED BY <2>2, <2>3, <2>4, <2>5, <2>6 DEF Suits
<1>12. /\ Good(u, ch, K) /\ u.wflag /\ u.dir = [w.dir EXCEPT ![i] = e] /\ u.fat = w.fat
       /\ u.disk.data = w.disk.data /\ u.cut = w.cut /\ u.moving = w.moving /\ u.free = w.free
  BY <1>4, <1>5, <1>11, EntryGood
<1> HIDE DEF u
<1>13. u \in Vols /\ Coherent(u) /\ \A m \in u.images : Fine(m, K)
  BY <1>12 DEF Good
<1>14. /\ x \in Vols /\ x.cut = u.cut \ {f} /\ x.dir = u.dir /\ x.fat = u.fat /\ x.disk = u.disk
       /\ x.wflag = u.wflag /\ x.win = u.win /\ x.moving = u.moving /\ x.images = u.images /\ x.free = u.free
  BY <1>8, <1>13 DEF Vols, Volumes
<1> HIDE DEF x
<1>15. Coherent(x)
  BY <1>13, <1>14 DEF Coherent
<1>16. Seen(x) = [Seen(w) EXCEPT !.dir = [w.dir EXCEPT ![i] = e]]
  BY <1>12, <1>14 DEF Seen
<1>17. Right([Seen(w) EXCEPT !.dir = [w.dir EXCEPT ![i] = e]], w.cut \ {f}, w.moving, ch, K)
  BY <1>7, <1>11, EntryRight
<1>18. Right(Seen(x), x.cut, x.moving, ch, K)
  BY <1>12, <1>14, <1>16, <1>17
<1>19. Good(sync(x), ch, K) /\ Alike(x, sync(x)) /\ sync(x).disk = Seen(x)
  <2>1. x.wflag /\ \A m \in x.images : Fine(m, K)
    BY <1>12, <1>13, <1>14
  <2> QED BY <1>14, <1>15, <1>18, <2>1, SyncGood
<1> DEFINE y == sync(x)
<1> HIDE DEF y
<1>20. /\ y.dir = [s.v.dir EXCEPT ![i] = e] /\ y.fat = s.v.fat /\ y.disk.data = t.v.disk.data
       /\ y.cut = s.v.cut \ {f} /\ y.moving = s.v.moving /\ y.free = t.v.free /\ y.disk = Seen(y)
  BY <1>6, <1>12, <1>14, <1>19 DEF y, Alike, Seen
<1>21. /\ p \in FilRec /\ p.sclust = s.p.sclust /\ ~p.dirty /\ ~p.written /\ p.wr = s.p.wr /\ p.slot = s.p.slot
       /\ p.fsize = s.p.fsize /\ p.fptr = s.p.fptr /\ p.clust = s.p.clust /\ p.dsect = t.p.dsect
       /\ p.buf = t.p.buf /\ p.dirty = t.p.dirty /\ p.dsect = s.p.dsect
  BY <1>1, <1>3 DEF FilRec, Buffered, Flushed
<1> HIDE DEF p, z
<1>22. z.v = y /\ z.p = p /\ z = On(z.v, z.p)
  BY <1>0 DEF On, y
<1>23. Works(z, ch, K, f)
  <2>1. FreeRight(y)
    BY <1>1, <1>3, <1>20 DEF FreeRight
  <2> QED BY <1>3, <1>19, <1>21, <1>22, <2>1 DEF Works, y
<1>24. \A c \in Contents : Holding(s, ch[f], c) => Holding(z, ch[f], c)
  <2>1. z.p.dirty = t.p.dirty /\ z.p.dsect = t.p.dsect /\ z.p.buf = t.p.buf /\ z.v.disk.data = t.v.disk.data
    BY <1>20, <1>21, <1>22
  <2> QED BY <1>2, <2>1, HoldingSame
<1>25. Synced(s, ch, K, f, z)
  BY <1>8, <1>20, <1>21, <1>22, <1>23, <1>24 DEF Synced
<1> QED BY <1>25 DEF z
-----------------------------------------------------------------------------
\* An index found by SelectInSeq: the first of T, if any.
Found(T, k) == IF T = {} THEN k = 0 ELSE k \in T /\ \A j \in T : k <= j

LEMMA SlotFound ==
    ASSUME NEW v, v.dir \in Dirs(AllNames), NEW f
    PROVE  Found({i \in 1 .. Slots : v.dir[i].name = f}, Slot(v, f))
<1> DEFINE T == {i \in 1 .. Slots : v.dir[i].name = f}
<1>1. Slots \in Nat /\ Len(v.dir) = Slots
  <2>1. Slots \in Nat
    BY VolumeAssumption
  <2> QED BY <2>1, ListOf DEF Dirs
<1>2. Slot(v, f) = IF T # {} THEN Min(T) ELSE 0
  <2>1. Slot(v, f) = LET I == {i \in 1 .. Len(v.dir) : v.dir[i].name = f}
                     IN  IF I # {} THEN Min(I) ELSE 0
    BY Zenon DEF Slot, SelectInSeq
  <2> QED BY <1>1, <2>1
<1>3. T \in SUBSET Nat
  BY <1>1
<1> HIDE DEF T
<1>4. T # {} => Min(T) \in T /\ \A j \in T : Min(T) <= j
  BY <1>3, MinIsLeast
<1> QED BY <1>2, <1>4 DEF Found, T

\* The slot of a name that is used once.
LEMMA SlotIs ==
    ASSUME NEW v, v.dir \in Dirs(AllNames), Unique(v.dir), NEW f \in Names
    PROVE  /\ \A i \in 1 .. Slots : v.dir[i].name = f => Slot(v, f) = i
           /\ Slot(v, f) # 0 => Slot(v, f) \in 1 .. Slots /\ v.dir[Slot(v, f)].name = f
           /\ Slot(v, f) = 0 => \A i \in 1 .. Slots : v.dir[i].name # f
<1> DEFINE T == {i \in 1 .. Slots : v.dir[i].name = f}
           k == Slot(v, f)
<1>1. Found(T, k)
  BY SlotFound
<1> HIDE DEF k
<1>2. (T = {} => k = 0) /\ (T # {} => k \in T)
  BY <1>1 DEF Found
<1>3. ASSUME NEW i \in 1 .. Slots, v.dir[i].name = f PROVE k = i
  <2>1. k \in T
    BY <1>2, <1>3
  <2> QED BY <1>3, <2>1, OnlySlot
<1>4. \A i \in T : i # 0
  <2>1. Slots \in Nat
    BY VolumeAssumption
  <2> QED BY <2>1
<1> QED BY <1>2, <1>3, <1>4 DEF k

-----------------------------------------------------------------------------
\* The last sector that was asked for is in the window.
LEMMA VisitedLast ==
    ASSUME NEW v, NEW ch, NEW K, Good(v, ch, K), NEW xs \in Seq(Sectors), Len(xs) > 0
    PROVE  Visited(v, xs).win = xs[Len(xs)]
<1> DEFINE V == {w \in Vols : Good(w, ch, K)}
<1>1. v \in V
  BY DEF Good
<1>2. ASSUME NEW w \in V, NEW x \in Sectors PROVE move_window(w, x) \in V
  <2>1. Good(move_window(w, x), ch, K)
    BY MoveGood
  <2> QED BY <2>1 DEF Good
<1>0. Len(xs) \in Nat /\ xs[Len(xs)] \in Sectors /\ Len(xs) \in 1 .. Len(xs)
  BY ListFacts
<1>3. \A w \in V : Good(w, ch, K)
  OBVIOUS
<1> HIDE DEF V
<1>4. PICK it : (\A j \in 0 .. Len(xs) : it[j] \in V) /\ VisitedSo(it, v, xs)
  BY <1>1, <1>2, VisitedRuns
<1> DEFINE n == Len(xs)
<1>5. Visited(v, xs) = it[n] /\ it[n] = move_window(it[n-1], xs[n])
  BY <1>0, <1>4 DEF VisitedSo
<1>6. Good(it[n-1], ch, K)
  <2>1. n-1 \in 0 .. n
    BY <1>0
  <2> QED BY <1>3, <1>4, <2>1
<1> HIDE DEF n
<1> QED BY <1>0, <1>5, <1>6, MoveGood DEF n

\* The sectors of the first n entries.
LEMMA DirSectors ==
    ASSUME NEW n \in 0 .. Slots
    PROVE  /\ [i \in 1 .. n |-> DirSector(i)] \in Seq(Sectors)
           /\ Len([i \in 1 .. n |-> DirSector(i)]) = n
<1>1. n \in Nat /\ \A i \in 1 .. n : i \in 1 .. Slots
  BY VolumeAssumption
<1>2. [i \in 1 .. n |-> DirSector(i)] \in [1 .. n -> Sectors]
  BY <1>1 DEF Sectors
<1> QED BY <1>1, <1>2, ListOf

LEMMA FindQuiet ==
    ASSUME NEW v, NEW ch, NEW K, Good(v, ch, K), NEW f
    PROVE  Quiet(v, dir_find(v, f))
<1> DEFINE T == {i \in 1 .. Slots : v.dir[i].name \in {f, End}}
           stop == SelectInSeq(v.dir, LAMBDA e : e.name \in {f, End})
           n == IF stop = 0 THEN Slots ELSE stop
<1>0. v.dir \in Dirs(AllNames) /\ Slots \in Nat
  BY GoodFacts, VolumeAssumption
<1>1. Len(v.dir) = Slots
  BY <1>0, ListOf DEF Dirs
<1>2. stop = IF T # {} THEN Min(T) ELSE 0
  <2>1. stop = LET I == {i \in 1 .. Len(v.dir) : v.dir[i].name \in {f, End}}
                     IN  IF I # {} THEN Min(I) ELSE 0
    BY Zenon DEF SelectInSeq
  <2> QED BY <1>1, <2>1
<1>3. T \in SUBSET Nat
  BY <1>0
<1>4. dir_find(v, f) = Visited(v, [i \in 1 .. n |-> DirSector(i)])
  BY Zenon DEF dir_find
<1> HIDE DEF stop
<1>5. n \in 0 .. Slots
  <2> HIDE DEF T
  <2>1. T # {} => Min(T) \in T
    BY <1>3, MinIsLeast
  <2>2. T # {} => stop \in 1 .. Slots
    BY <1>2, <2>1 DEF T
  <2> QED BY <1>0, <1>2, <2>2
<1> HIDE DEF n
<1>6. [i \in 1 .. n |-> DirSector(i)] \in Seq(Sectors)
  BY <1>5, DirSectors
<1> QED BY <1>4, <1>6, VisitedQuiet

-----------------------------------------------------------------------------
Blanks(dir) == {i \in 1 .. Slots : dir[i].name \in {End, Dde}}

\* There is an entry for every file.
LEMMA BlankExists ==
    ASSUME NEW dir \in Dirs(AllNames), Unique(dir), NEW f \in Names, \A i \in 1 .. Slots : dir[i].name # f
    PROVE  Blanks(dir) # {}
<1> SUFFICES ASSUME Blanks(dir) = {} PROVE FALSE
  OBVIOUS
<1> DEFINE T == Names \ {f}
           F == [i \in 1 .. Slots |-> dir[i].name]
<1>1. Slots \in Nat /\ Slots > 0 /\ IsFiniteSet(Names) /\ Cardinality(Names) <= Slots
  BY VolumeAssumption, FilesAssumption
<1>2. IsFiniteSet(T) /\ Cardinality(T) = Cardinality(Names) - 1
  BY <1>1, FS_RemoveElement
<1>3. IsFiniteSet(1 .. Slots) /\ Cardinality(1 .. Slots) = Slots
  <2>1. 1 \in Int /\ Slots \in Int
    BY <1>1
  <2>2. IsFiniteSet(1 .. Slots) /\ Cardinality(1 .. Slots) = IF 1 > Slots THEN 0 ELSE Slots-1+1
    BY <2>1, FS_Interval
  <2> QED BY <1>1, <2>2
<1>4. Cardinality(Names) \in Nat
  BY <1>1, FS_CardinalityType
<1>5. \A i \in 1 .. Slots : dir[i].name \in T
  BY DEF Blanks, Dirs, Entries, AllNames
<1>6. F \in [1 .. Slots -> T]
  BY <1>5
<1> HIDE DEF T, F
<1>7. Cardinality(T) < Cardinality(1 .. Slots)
  BY <1>1, <1>2, <1>3, <1>4
<1>8. PICK a \in 1 .. Slots, b \in 1 .. Slots : a # b /\ F[a] = F[b]
  <2> DEFINE S == 1 .. Slots
  <2>1. IsFiniteSet(S) /\ IsFiniteSet(T) /\ Cardinality(T) < Cardinality(S) /\ F \in [S -> T]
    BY <1>2, <1>3, <1>6, <1>7
  <2> HIDE DEF S
  <2>2. \E a, b \in S : a # b /\ F[a] = F[b]
    BY <2>1, FS_PigeonHole
  <2> QED BY <2>2 DEF S
<1>9. dir[a].name = dir[b].name /\ dir[a].name \in Names
  BY <1>5, <1>8 DEF F, T
<1> QED BY <1>8, <1>9, OnlySlot

\* dir_register makes an entry of a blank one.
Registered(v, w, f, i) ==
    /\ i \in Blanks(v.dir) /\ w.win = DirSector(i) /\ w.wflag
    /\ w.dir = [v.dir EXCEPT ![i] = Entry(f, 0, 0)] /\ w.fat = v.fat
    /\ w.disk.data = v.disk.data /\ w.cut = v.cut /\ w.moving = v.moving /\ w.free = v.free

LEMMA RegisterGood ==
    ASSUME NEW v, NEW ch, NEW K, Good(v, ch, K), NEW f \in Names, \A i \in 1 .. Slots : v.dir[i].name # f,
           K.slots \cap Blanks(v.dir) = {}
    PROVE  Good(dir_register(v, f), ch, K) /\ \E i : Registered(v, dir_register(v, f), f, i)
<1> DEFINE T == Blanks(v.dir)
           i == SelectInSeq(v.dir, LAMBDA e : e.name \in {End, Dde})
           xs == [j \in 1 .. i |-> DirSector(j)]
           w == Visited(v, xs)
           e == Entry(f, 0, 0)
           u == dir_register(v, f)
<1>0. v.dir \in Dirs(AllNames) /\ Slots \in Nat /\ Unique(v.dir)
  BY GoodFacts, VolumeAssumption
<1>1. Len(v.dir) = Slots
  BY <1>0, ListOf DEF Dirs
<1>2. i = IF T # {} THEN Min(T) ELSE 0
  <2>1. i = LET I == {j \in 1 .. Len(v.dir) : v.dir[j].name \in {End, Dde}}
            IN  IF I # {} THEN Min(I) ELSE 0
    BY Zenon DEF SelectInSeq
  <2> QED BY <1>1, <2>1 DEF Blanks
<1>3. u = [w EXCEPT !.dir[i] = e, !.wflag = TRUE]
  BY Zenon DEF dir_register
<1> HIDE DEF i, u
<1>4. i \in T /\ i \in 1 .. Slots /\ i > 0
  <2>1. T # {}
    BY <1>0, BlankExists
  <2>2. T \in SUBSET Nat
    BY <1>0 DEF Blanks
  <2> HIDE DEF T
  <2>3. i \in T
    BY <1>2, <2>1, <2>2, MinIsLeast
  <2> QED BY <1>0, <2>3 DEF T, Blanks
<1>5. xs \in Seq(Sectors) /\ Len(xs) = i /\ xs[i] = DirSector(i)
  BY <1>0, <1>4, DirSectors
<1> HIDE DEF xs
<1>6. Good(w, ch, K) /\ Alike(v, w) /\ w.win = DirSector(i)
  <2>1. Len(xs) > 0
    BY <1>4, <1>5
  <2> QED BY <1>5, <2>1, VisitedGood, VisitedLast
<1> HIDE DEF w
<1>7. u = put_entry(w, i, e)
  <2>1. move_window(w, DirSector(i)) = w
    BY <1>6 DEF move_window
  <2> QED BY <1>3, <2>1 DEF put_entry
<1>8. e.name = f /\ e.sclust = 0 /\ e \in Entries(AllNames)
  BY DEF Entry, Entries, AllNames
<1> HIDE DEF e
<1>9. Suits(w, w.cut, w.moving, ch, K, i, e)
  <2>1. w.dir = v.dir
    BY <1>6 DEF Alike
  <2>2. ~w.moving => Heads(w.dir, ch, w.cut)
    BY <1>6, GoodFacts
  <2>3. i \notin K.slots
    BY <1>4
  <2>4. e.sclust \in {0, First(ch[e.name])}
    BY <1>8
  <2>5. ~w.moving => \A j \in Used(w.dir) : j # i /\ w.dir[j].name \notin w.cut
                                => w.dir[j].sclust \in {0, First(ch[w.dir[j].name])}
    BY <2>2 DEF Heads
  <2>6. \A j \in 1 .. Slots : j # i /\ w.dir[j].name = e.name => e.name \in {End, Dde}
    BY <1>8, <2>1
  <2> QED BY <1>4, <1>8, <2>3, <2>4, <2>5, <2>6 DEF Suits
<1>10. /\ Good(u, ch, K) /\ u.wflag /\ u.dir = [w.dir EXCEPT ![i] = e] /\ u.fat = w.fat
       /\ u.disk.data = w.disk.data /\ u.cut = w.cut /\ u.moving = w.moving /\ u.free = w.free
  BY <1>6, <1>7, <1>9, EntryGood
<1>11. u.win = DirSector(i)
  <2>1. w \in Vols
    BY <1>6, GoodFacts
  <2> QED BY <1>3, <1>6, <2>1 DEF Vols, Volumes
<1>12. Registered(v, u, f, i)
  BY <1>4, <1>6, <1>10, <1>11 DEF Registered, Alike, e
<1> QED BY <1>10, <1>12 DEF u
-----------------------------------------------------------------------------
\* What is right stays right when a file counts as cut, or as being renamed.
LEMMA FineMore ==
    ASSUME NEW v \in Vols, NEW w \in Vols, NEW ch, NEW K, Good(v, ch, K),
           w.fat = v.fat, w.dir = v.dir, w.disk = v.disk, w.win = v.win, w.wflag = v.wflag, w.images = v.images,
           v.cut \subseteq w.cut, v.moving => w.moving
    PROVE  Good(w, ch, K)
<1>1. \A d, c : Right(d, v.cut, v.moving, c, K) => Right(d, w.cut, w.moving, c, K)
  BY DEF Right, Heads
<1>2. Coherent(w) /\ Seen(w) = Seen(v)
  BY DEF Good, Coherent, Seen
<1>3. Right(Seen(w), w.cut, w.moving, ch, K)
  BY <1>1, <1>2 DEF Good
<1>4. Fine(Moment(w, w.disk), K)
  <2>1. PICK c : Right(v.disk, v.cut, v.moving, c, K)
    BY DEF Good, Fine, Moment
  <2>2. Right(w.disk, w.cut, w.moving, c, K)
    BY <1>1, <2>1
  <2> QED BY <2>2 DEF Fine, Moment
<1> QED BY <1>2, <1>3, <1>4 DEF Good

CutBy(v, w, f) == w = [v EXCEPT !.cut = @ \cup {f}]

LEMMA CutGood ==
    ASSUME NEW v, NEW ch, NEW K, Good(v, ch, K), NEW f \in Names, NEW w, CutBy(v, w, f)
    PROVE  /\ Good(w, ch, K) /\ w.dir = v.dir /\ w.disk.data = v.disk.data /\ w.fat = v.fat /\ w.free = v.free
           /\ w.cut = v.cut \cup {f} /\ w.moving = v.moving
<1>1. v \in Vols
  BY DEF Good
<1>2. /\ w \in Vols /\ w.cut = v.cut \cup {f} /\ w.dir = v.dir /\ w.fat = v.fat /\ w.disk = v.disk
      /\ w.wflag = v.wflag /\ w.win = v.win /\ w.moving = v.moving /\ w.images = v.images /\ w.free = v.free
  BY <1>1 DEF Vols, Volumes, AllNames, CutBy
<1>3. Good(w, ch, K)
  BY <1>1, <1>2, FineMore
<1> QED BY <1>2, <1>3

\* The chain of a file to whose clusters no entry leads is freed.
LEMMA ReleaseGood ==
    ASSUME NEW v, NEW ch, NEW K, Good(v, ch, K), FreeRight(v), NEW f \in Names, Aside(K, ch, f),
           ch[Loose] = Nil, NEW c, c = First(ch[f]),
           \A i \in Used(v.dir) : v.dir[i].name = f /\ f \notin v.cut => v.dir[i].sclust = 0
    PROVE  LET w == remove_chain(v, c)
           IN  /\ Good(w, With(ch, f, Nil, Nil), K) /\ FreeRight(w) /\ Beside(v, w)
               /\ Aside(K, With(ch, f, Nil, Nil), f)
<1> DEFINE g == ch[f]
           w == remove_chain(v, c)
           c1 == With(ch, f, Nil, g)
<1>1. /\ ch \in [Holders -> Seq(Cluster)] /\ Path(v.fat, g) /\ g \in Seq(Cluster)
      /\ v.fat \in Fats
  BY GoodFacts, NameFacts
<1>2. Nil \in Seq(Cluster) /\ Members(Nil) = {} /\ First(Nil) = 0 /\ Path(v.fat, Nil)
  BY NilIs
<1>3. Own(ch, f) = Members(g)
  BY <1>2 DEF Own
<1> HIDE DEF g
<1>4. Relays(v, ch, f, Nil, g, v.fat)
  BY <1>1, <1>2, <1>3 DEF Relays
<1>5. Good(v, c1, K) /\ Aside(K, c1, f)
  BY <1>4, RelabelGood
<1>6. c1[f] = Nil /\ c1[Loose] = g
  BY <1>1, <1>2, WithIs
<1>7. With(c1, f, Nil, Nil) = With(ch, f, Nil, Nil)
  BY <1>1, <1>2, WithWith
<1> HIDE DEF c1
<1>8. c = First(c1[Loose])
  BY <1>6 DEF g
<1>9. /\ Good(w, With(c1, f, c1[f], Nil), K) /\ FreeRight(w) /\ Beside(v, w)
      /\ Aside(K, With(c1, f, c1[f], Nil), f)
  BY <1>5, <1>8, RemoveGood
<1> QED BY <1>6, <1>7, <1>9

\* An entry of f is emptied.
LEMMA EmptyEntryGood ==
    ASSUME NEW v, NEW ch, NEW K, Good(v, ch, K), NEW f \in Names, NEW i \in 1 .. Slots \ K.slots,
           v.dir[i].name = f
    PROVE  LET w == put_entry(v, i, Entry(f, 0, 0))
           IN  /\ Good(w, ch, K) /\ w.wflag /\ w.dir = [v.dir EXCEPT ![i] = Entry(f, 0, 0)] /\ w.fat = v.fat
               /\ w.disk.data = v.disk.data /\ w.cut = v.cut /\ w.moving = v.moving /\ w.free = v.free
<1> DEFINE e == Entry(f, 0, 0)
<1>0. v.dir \in Dirs(AllNames) /\ Unique(v.dir) /\ (~v.moving => Heads(v.dir, ch, v.cut))
  BY GoodFacts
<1>1. e.name = f /\ e.sclust = 0 /\ e \in Entries(AllNames)
  BY DEF Entry, Entries, AllNames
<1> HIDE DEF e
<1>2. \A j \in 1 .. Slots : j # i => v.dir[j].name # f
  BY <1>0, OnlySlot
<1>3. Suits(v, v.cut, v.moving, ch, K, i, e)
  BY <1>0, <1>1, <1>2 DEF Suits, Heads
<1> QED BY <1>3, EntryGood DEF e

\* An entry is deleted.
LEMMA DirRemoveGood ==
    ASSUME NEW v, NEW ch, NEW K, Good(v, ch, K), NEW i \in 1 .. Slots \ K.slots
    PROVE  LET w == dir_remove(v, i)
           IN  /\ Good(w, ch, K) /\ w.wflag /\ w.dir = [v.dir EXCEPT ![i] = [v.dir[i] EXCEPT !.name = Dde]]
               /\ w.fat = v.fat
               /\ w.disk.data = v.disk.data /\ w.cut = v.cut /\ w.moving = v.moving /\ w.free = v.free
<1> DEFINE u == move_window(v, DirSector(i))
           e == [u.dir[i] EXCEPT !.name = Dde]
           w == dir_remove(v, i)
<1>1. w = put_entry(u, i, e)
  BY DEF dir_remove
<1>2. DirSector(i) \in Sectors
  BY DEF Sectors
<1>3. Good(u, ch, K) /\ Alike(v, u)
  BY <1>2, MoveGood
<1> HIDE DEF u
<1>4. u.dir = v.dir /\ u.fat = v.fat /\ u.disk.data = v.disk.data /\ u.cut = v.cut /\ u.moving = v.moving /\ u.free = v.free
  BY <1>3 DEF Alike
<1>5. u.dir \in Dirs(AllNames) /\ (~u.moving => Heads(u.dir, ch, u.cut))
  BY <1>3, GoodFacts
<1>6. e.name = Dde /\ e \in Entries(AllNames)
  <2>1. u.dir[i] \in Entries(AllNames)
    BY <1>5 DEF Dirs
  <2> QED BY <2>1 DEF Entries, AllNames
<1>7. e = [v.dir[i] EXCEPT !.name = Dde]
  BY <1>4
<1> HIDE DEF e, w
<1>8. Suits(u, u.cut, u.moving, ch, K, i, e)
  <2>1. ~u.moving => \A j \in Used(u.dir) : j # i /\ u.dir[j].name \notin u.cut
                                => u.dir[j].sclust \in {0, First(ch[u.dir[j].name])}
    BY <1>5 DEF Heads
  <2> QED BY <1>6, <2>1 DEF Suits
<1>9. LET z == put_entry(u, i, e)
      IN  /\ Good(z, ch, K) /\ z.wflag /\ z.dir = [u.dir EXCEPT ![i] = e] /\ z.fat = u.fat
          /\ z.disk.data = u.disk.data /\ z.cut = u.cut /\ z.moving = u.moving /\ z.free = u.free
  <2>1. Good(u, ch, K)
    BY <1>3
  <2> QED BY <1>8, <2>1, EntryGood
<1>10. /\ Good(w, ch, K) /\ w.wflag /\ w.dir = [u.dir EXCEPT ![i] = e] /\ w.fat = u.fat
       /\ w.disk.data = u.disk.data /\ w.cut = u.cut /\ w.moving = u.moving /\ w.free = u.free
  BY <1>1, <1>9
<1> QED BY <1>4, <1>7, <1>10 DEF w

-----------------------------------------------------------------------------
\* A call may change the entry i of f.
Entitled(v, ch, K, f, i) ==
    /\ Good(v, ch, K) /\ FreeRight(v) /\ Aside(K, ch, f) /\ ch[Loose] = Nil
    /\ i \in 1 .. Slots \ K.slots /\ v.dir[i].name = f /\ v.dir[i].sclust = First(ch[f])

\* w is v with the entry e and without the clusters of f.
Bare(v, w, ch, K, f, i, e) ==
    /\ Good(w, With(ch, f, Nil, Nil), K) /\ FreeRight(w)
    /\ w.dir = [v.dir EXCEPT ![i] = e]
    /\ w.disk.data = v.disk.data /\ w.cut = v.cut /\ w.moving = v.moving

\* f_open overwrites a file.
Overwrites(w, f, i) ==
    LET cl == w.dir[i].sclust
        emptied == put_entry(w, i, Entry(f, 0, 0))
        freed == [remove_chain(emptied, cl) EXCEPT !.last = cl - 1]
    IN  IF cl = 0 THEN emptied ELSE move_window(freed, DirSector(i))

LEMMA OverwritesBare ==
    ASSUME NEW v, NEW ch, NEW K, NEW f \in Names, NEW i, Entitled(v, ch, K, f, i)
    PROVE  Bare(v, Overwrites(v, f, i), ch, K, f, i, Entry(f, 0, 0))
<1> DEFINE cl == v.dir[i].sclust
           e == Entry(f, 0, 0)
           m == put_entry(v, i, e)
           r == remove_chain(m, cl)
           freed == [r EXCEPT !.last = cl - 1]
           x == DirSector(i)
           u == Overwrites(v, f, i)
<1>0. /\ Good(v, ch, K) /\ FreeRight(v) /\ Aside(K, ch, f) /\ ch[Loose] = Nil
      /\ i \in 1 .. Slots \ K.slots /\ v.dir[i].name = f /\ cl = First(ch[f])
  BY DEF Entitled
<1>1. u = IF cl = 0 THEN m ELSE move_window(freed, x)
  BY DEF Overwrites
<1>2. /\ Good(m, ch, K) /\ m.dir = [v.dir EXCEPT ![i] = e] /\ m.fat = v.fat
      /\ m.disk.data = v.disk.data /\ m.cut = v.cut /\ m.moving = v.moving /\ m.free = v.free
  BY <1>0, EmptyEntryGood
<1>3. /\ ch \in [Holders -> Seq(Cluster)] /\ ch[f] \in Seq(Cluster) /\ v.dir \in Dirs(AllNames) /\ v.dir[i] \in Entries(AllNames)
      /\ m.dir \in Dirs(AllNames) /\ Unique(m.dir)
  <2>1. /\ ch \in [Holders -> Seq(Cluster)] /\ v.dir \in Dirs(AllNames) /\ m.dir \in Dirs(AllNames) /\ Unique(m.dir)
    BY <1>0, <1>2, GoodFacts
  <2> QED BY <1>0, <2>1, NameFacts DEF Dirs
<1>4. cl \in {0} \cup Cluster
  BY <1>3 DEF Entries
<1>5. FreeRight(m)
  BY <1>0, <1>2 DEF FreeRight
<1>6. m.dir[i].name = f /\ m.dir[i].sclust = 0
  <2>1. e.name = f /\ e.sclust = 0
    BY DEF Entry
  <2> HIDE DEF e, m
  <2>2. DOMAIN v.dir = 1 .. Slots
    BY <1>3 DEF Dirs
  <2>3. m.dir[i] = e
    BY <1>0, <1>2, <2>2
  <2> QED BY <2>1, <2>3
<1> HIDE DEF m, u, cl, e
<1>7. CASE cl = 0
  <2>1. Len(ch[f]) = 0
    BY <1>0, <1>3, <1>7, FirstIs
  <2>2. ch[f] = Nil
    BY <1>3, <2>1, NilIs
  <2>3. With(ch, f, Nil, Nil) = ch
    BY <1>0, <1>3, <2>2, WithSame
  <2> QED BY <1>1, <1>2, <1>5, <1>7, <2>3 DEF Bare, u, e
<1>8. CASE cl # 0
  <2>1. \A j \in Used(m.dir) : m.dir[j].name = f /\ f \notin m.cut => m.dir[j].sclust = 0
    <3>1. \A j \in 1 .. Slots : j # i => m.dir[j].name # f
      BY <1>0, <1>3, <1>6, OnlySlot
    <3> QED BY <1>3, <1>6, <3>1, UsedFacts
  <2>2. Good(r, With(ch, f, Nil, Nil), K) /\ FreeRight(r) /\ Beside(m, r)
    <3>1. Good(m, ch, K) /\ FreeRight(m) /\ Aside(K, ch, f) /\ ch[Loose] = Nil /\ cl = First(ch[f])
      BY <1>0, <1>2, <1>5
    <3> QED BY <3>1, <2>1, ReleaseGood
  <2> HIDE DEF r
  <2>3. cl - 1 \in Int
    BY <1>4, NoCluster
  <2>4. Good(freed, With(ch, f, Nil, Nil), K)
    BY <2>2, <2>3, FieldsGood
  <2>5. r \in Vols
    BY <2>2, GoodFacts
  <2>6. /\ freed.dir = r.dir /\ freed.fat = r.fat /\ freed.disk = r.disk /\ freed.cut = r.cut
        /\ freed.moving = r.moving /\ freed.free = r.free
    BY <2>5 DEF Vols, Volumes
  <2>7. x \in Sectors
    BY <1>0 DEF Sectors
  <2> HIDE DEF freed, x
  <2>8. Good(move_window(freed, x), With(ch, f, Nil, Nil), K) /\ Alike(freed, move_window(freed, x))
    BY <2>4, <2>7, MoveGood
  <2>9. u = move_window(freed, x)
    BY <1>1, <1>8
  <2>10. FreeRight(u) /\ u.dir = m.dir /\ u.disk.data = m.disk.data /\ u.cut = m.cut /\ u.moving = m.moving
    BY <2>2, <2>6, <2>8, <2>9 DEF Alike, FreeRight, Beside
  <2> QED BY <1>2, <2>8, <2>9, <2>10 DEF Bare, u, e
<1> QED BY <1>7, <1>8

\* f_unlink removes a file.
LEMMA UnlinkedBare ==
    ASSUME NEW v, NEW ch, NEW K, NEW f \in Names, NEW i, Entitled(v, ch, K, f, i)
    PROVE  Bare(v, sync(Unlinked(v, i)), ch, K, f, i, [v.dir[i] EXCEPT !.name = Dde])
<1> DEFINE cl == v.dir[i].sclust
           e == [v.dir[i] EXCEPT !.name = Dde]
           m == dir_remove(v, i)
           r == remove_chain(m, cl)
           u == sync(r)
<1>0. /\ Good(v, ch, K) /\ FreeRight(v) /\ Aside(K, ch, f) /\ ch[Loose] = Nil
      /\ i \in 1 .. Slots \ K.slots /\ v.dir[i].name = f /\ cl = First(ch[f])
  BY DEF Entitled
<1>1. Unlinked(v, i) = r
  BY DEF Unlinked
<1>2. /\ Good(m, ch, K) /\ m.dir = [v.dir EXCEPT ![i] = e] /\ m.fat = v.fat
      /\ m.disk.data = v.disk.data /\ m.cut = v.cut /\ m.moving = v.moving /\ m.free = v.free
  BY <1>0, DirRemoveGood
<1>3. v.dir \in Dirs(AllNames) /\ Unique(v.dir) /\ m.dir \in Dirs(AllNames)
  BY <1>0, <1>2, GoodFacts
<1>4. FreeRight(m)
  BY <1>0, <1>2 DEF FreeRight
<1>5. \A j \in Used(m.dir) : m.dir[j].name # f
  <2>1. \A j \in 1 .. Slots : j # i => v.dir[j].name # f
    BY <1>0, <1>3, OnlySlot
  <2>2. m.dir[i].name = Dde
    <3>1. v.dir[i] \in Entries(AllNames)
      BY <1>0, <1>3 DEF Dirs
    <3>2. e.name = Dde
      BY <3>1 DEF Entries
    <3> QED BY <1>0, <1>2, <1>3, <3>2 DEF Dirs
  <2>3. \A j \in 1 .. Slots : j # i => m.dir[j] = v.dir[j]
    BY <1>2, <1>3 DEF Dirs
  <2>4. Dde # f
    BY NameFacts
  <2> QED BY <1>3, <2>1, <2>2, <2>3, <2>4, UsedFacts
<1> HIDE DEF m, cl, e
<1>6. Good(r, With(ch, f, Nil, Nil), K) /\ FreeRight(r) /\ Beside(m, r)
  <2>1. Good(m, ch, K) /\ FreeRight(m) /\ Aside(K, ch, f) /\ ch[Loose] = Nil /\ cl = First(ch[f])
    BY <1>0, <1>2, <1>4
  <2>2. \A j \in Used(m.dir) : m.dir[j].name = f /\ f \notin m.cut => m.dir[j].sclust = 0
    BY <1>5
  <2> QED BY <2>1, <2>2, ReleaseGood
<1> HIDE DEF r
<1>7. Good(u, With(ch, f, Nil, Nil), K) /\ Alike(r, u)
  <2>1. r \in Vols /\ Coherent(r) /\ Right(Seen(r), r.cut, r.moving, With(ch, f, Nil, Nil), K)
        /\ Fine(Moment(r, r.disk), K) /\ \A a \in r.images : Fine(a, K)
    BY <1>6 DEF Good
  <2> QED BY <2>1, SyncGood
<1> HIDE DEF u
<1>8. FreeRight(u) /\ u.dir = m.dir /\ u.disk.data = m.disk.data /\ u.cut = m.cut /\ u.moving = m.moving
  BY <1>6, <1>7 DEF Alike, FreeRight, Beside
<1>9. Bare(v, u, ch, K, f, i, e)
  BY <1>2, <1>7, <1>8 DEF Bare
<1> QED BY <1>1, <1>9 DEF u, e
-----------------------------------------------------------------------------
\* A file that was not changed since it was opened or synchronised.
Settled(fl, ct, f) == ct[f] # Absent /\ (fl[f] # Closed => ~fl[f].written)
Bystanders(fl, ct, F) == {g \in Names \ F : Settled(fl, ct, g)}

\* The chains of some files, and what a call must leave alone of the files C, and
\* of the bytes of the files S.
Chains(ch, C) == UNION {Members(ch[g]) : g \in C}
Alone(v, ch, C, S, whole) ==
    [disk |-> v.disk, slots |-> {i \in 1 .. Slots : v.dir[i].name \in C},
     clusters |-> Chains(ch, C), sects |-> Sects(Chains(ch, S)), whole |-> whole]

\* The file f is not there; is there and not open; or is open with the FIL p, when
\* it is to hold the bytes c, and has the chain g.
Gone(v, f, g) == g = Nil /\ f \notin v.cut /\ \A i \in 1 .. Slots : v.dir[i].name # f
HasEntry(v, f, g, c) == \E i \in 1 .. Slots : v.dir[i] = Entry(f, First(g), Len(c))
Fits(c, g) == c \in Contents /\ Len(c) <= bcs * Len(g)
Shut(v, f, g, c) == Fits(c, g) /\ f \notin v.cut /\ HasEntry(v, f, g, c)
Opened(v, f, g, c, p) ==
    /\ Fits(c, g) /\ p \in FilRec /\ v.dir[p.slot].name = f /\ p.sclust = First(g)
    /\ Placed(p, g) /\ Len(c) = p.fsize /\ p.fptr <= p.fsize
    /\ p.dirty => p.written /\ p.dsect \in DataSector
    /\ f \in v.cut => p.written
    /\ ~p.written => v.dir[p.slot] = Entry(f, First(g), Len(c))

FileOk(v, f, g, c, p) ==
    \/ c = Absent /\ p = Closed /\ Gone(v, f, g)
    \/ c # Absent /\ p = Closed /\ Shut(v, f, g, c)
    \/ c # Absent /\ p # Closed /\ Opened(v, f, g, c, p)

\* The disk has the entry of f and its chain as the program sees them.
OnDisk(v, f, g) == /\ \A i \in 1 .. Slots : v.dir[i].name = f => v.disk.dir[i] = v.dir[i]
                   /\ \A c \in Members(g) : v.disk.fat[c] = v.fat[c]

\* The disk d has of f what the disk of v has.
Unmoved(v, d, f, g) == /\ \A i \in 1 .. Slots : v.dir[i].name = f => d.dir[i] = v.disk.dir[i]
                       /\ \A c \in Members(g) : d.fat[c] = v.disk.fat[c]
                       /\ \A x \in Sects(Members(g)) : d.data[x] = v.disk.data[x]

\* The buffer of a file that is not open has nothing.
Idle == [dirty |-> FALSE, dsect |-> -1, buf |-> Bytes(Blank)]
Fil(p) == IF p = Closed THEN Idle ELSE p
Holds(v, g, c, p) == c # Absent => Holding(On(v, Fil(p)), g, c)

\* Between two calls; ch has the chains.
Typed(fl, ct) == fl \in [Names -> FilRec \cup {Closed}] /\ ct \in [Names -> Contents \cup {Absent}]
Resting(v, ch, whole) ==
    /\ Good(v, ch, Alone(v, ch, {}, {}, whole)) /\ FreeRight(v) /\ ch[Loose] = Nil /\ ~v.moving

Sound(v, fl, ct, subj, st, whole, ch) ==
    /\ Typed(fl, ct) /\ Resting(v, ch, whole) /\ whole \in BOOLEAN
    /\ \A f \in Names : FileOk(v, f, ch[f], ct[f], fl[f])
    /\ \A f \in Names : Settled(fl, ct, f) => OnDisk(v, f, ch[f])
    /\ ~st => \A f \in Names : Holds(v, ch[f], ct[f], fl[f])
    /\ ~st => \A f \in Bystanders(fl, ct, subj) : \A m \in v.images : Unmoved(v, m.disk, f, ch[f])

-----------------------------------------------------------------------------
\* What a call about the files F is to leave alone.
Care(v, fl, ct, st, whole, ch, F) ==
    Alone(v, ch, Bystanders(fl, ct, F), IF st THEN {} ELSE Names \ F, whole)

LEMMA AloneIs ==
    ASSUME NEW v, NEW ch, NEW C, NEW S, NEW whole
    PROVE  LET K == Alone(v, ch, C, S, whole)
           IN  /\ K.disk = v.disk /\ K.slots = {i \in 1 .. Slots : v.dir[i].name \in C}
               /\ K.clusters = Chains(ch, C) /\ K.sects = Sects(Chains(ch, S)) /\ K.whole = whole
  BY DEF Alone

LEMMA ChainsMember ==
    ASSUME NEW ch, NEW C, NEW g \in C, NEW c \in Members(ch[g])
    PROVE  c \in Chains(ch, C)
  BY DEF Chains

LEMMA SectsMember ==
    ASSUME NEW C, NEW D, C \subseteq D
    PROVE  Sects(C) \subseteq Sects(D)
  BY DEF Sects

\* A call begins.
LEMMA CallStarts ==
    ASSUME NEW v, NEW fl, NEW ct, NEW subj, NEW st, NEW whole, NEW ch,
           Sound(v, fl, ct, subj, st, whole, ch), NEW F \in SUBSET Names
    PROVE  LET K == Care(v, fl, ct, st, whole, ch, F)
               w == Called(v)
           IN  /\ Good(w, ch, K) /\ Beside(v, w) /\ FreeRight(w) /\ w.fat = v.fat /\ w.disk = v.disk
               /\ \A f \in F : Aside(K, ch, f)
<1> DEFINE C == Bystanders(fl, ct, F)
           S == IF st THEN {} ELSE Names \ F
           K == Alone(v, ch, C, S, whole)
           K0 == Alone(v, ch, {}, {}, whole)
           w == Called(v)
<1>1. Good(v, ch, K0) /\ FreeRight(v)
  BY DEF Sound, Resting
<1>2. v \in Vols /\ Coherent(v) /\ Right(Seen(v), v.cut, v.moving, ch, K0) /\ Fine(Moment(v, v.disk), K0)
  BY <1>1 DEF Good
<1>3. K0.whole = whole /\ K.whole = whole /\ K.disk = v.disk /\ K.clusters = Chains(ch, C)
      /\ K.sects = Sects(Chains(ch, S)) /\ K.slots = {i \in 1 .. Slots : v.dir[i].name \in C}
  BY AloneIs
<1>4. C \subseteq Names \ F /\ S \subseteq Names \ F /\ \A g \in C : OnDisk(v, g, ch[g])
  BY DEF Bystanders, Sound
<1>5. Kept(Seen(v), K)
  <2>1. \A i \in K.slots : v.dir[i] = v.disk.dir[i]
    BY <1>3, <1>4 DEF OnDisk
  <2>2. \A c \in K.clusters : v.fat[c] = v.disk.fat[c]
    <3> SUFFICES ASSUME NEW c \in Chains(ch, C) PROVE v.fat[c] = v.disk.fat[c]
      BY <1>3
    <3>1. PICK g \in C : c \in Members(ch[g])
      BY DEF Chains
    <3> QED BY <1>4, <3>1 DEF OnDisk
  <2> QED BY <1>3, <2>1, <2>2 DEF Kept, Seen
<1>6. Kept(v.disk, K)
  BY <1>3 DEF Kept
<1> HIDE DEF K, K0, C, S
<1>7. Right(Seen(v), v.cut, v.moving, ch, K)
  BY <1>2, <1>3, <1>5 DEF Right
<1>8. Fine(Moment(v, v.disk), K)
  <2>1. PICK c : Right(v.disk, v.cut, v.moving, c, K0)
    BY <1>2 DEF Fine, Moment
  <2>2. Right(v.disk, v.cut, v.moving, c, K)
    BY <1>3, <1>6, <2>1 DEF Right
  <2> QED BY <2>2 DEF Fine, Moment
<1>9. /\ w \in Vols /\ w.images = {Moment(v, v.disk)} /\ w.disk = v.disk /\ w.fat = v.fat /\ w.dir = v.dir
      /\ w.win = v.win /\ w.wflag = v.wflag /\ w.cut = v.cut /\ w.moving = v.moving /\ w.free = v.free
  <2>1. Moment(v, v.disk) \in Moments(AllNames, DataAreas)
    BY <1>2 DEF Vols, Volumes, Moments, Moment
  <2> HIDE DEF w
  <2>2. w = [v EXCEPT !.images = {Moment(v, v.disk)}]
    BY DEF Called, w
  <2> QED BY <1>2, <2>1, <2>2 DEF Vols, Volumes
<1> HIDE DEF w
<1>10. Coherent(w) /\ Seen(w) = Seen(v) /\ Moment(w, w.disk) = Moment(v, v.disk)
  BY <1>2, <1>9 DEF Coherent, Seen, Moment
<1>11. Good(w, ch, K)
  BY <1>7, <1>8, <1>9, <1>10 DEF Good
<1>12. ASSUME NEW f \in F PROVE Aside(K, ch, f)
  <2>1. \A D : D \subseteq Names \ F => Chains(ch, D) \subseteq Others(ch, f)
    BY NameFacts DEF Chains, Others
  <2>2. K.clusters \subseteq Others(ch, f)
    BY <1>3, <1>4, <2>1
  <2>3. K.sects \subseteq Sects(Others(ch, f))
    <3>1. Chains(ch, S) \subseteq Others(ch, f)
      BY <1>4, <2>1
    <3> QED BY <1>3, <3>1, SectsMember
  <2> QED BY <2>2, <2>3 DEF Aside
<1>13. Beside(v, w) /\ FreeRight(w)
  BY <1>1, <1>9 DEF Beside, FreeRight
<1> QED BY <1>9, <1>11, <1>12, <1>13 DEF Care, K, C, S, w
-----------------------------------------------------------------------------
LEMMA GoodLess ==
    ASSUME NEW v, NEW ch, NEW K, Good(v, ch, K), NEW c2
    PROVE  Good(v, ch, Alone(v, c2, {}, {}, K.whole))
<1> DEFINE K2 == Alone(v, c2, {}, {}, K.whole)
<1>1. K2.slots = {} /\ K2.clusters = {} /\ K2.sects = {} /\ K2.whole = K.whole
  BY AloneIs DEF Chains, Sects
<1> HIDE DEF K2
<1>2. \A d, cut, moving, c : Right(d, cut, moving, c, K) => Right(d, cut, moving, c, K2)
  BY <1>1 DEF Right, Kept
<1>3. \A m : Fine(m, K) => Fine(m, K2)
  BY <1>2 DEF Fine
<1> QED BY <1>2, <1>3 DEF Good, K2

\* Nothing of the file g was touched.
Untouched(v, w, ch, ch2, g) ==
    /\ ch2[g] = ch[g] /\ (g \in w.cut <=> g \in v.cut)
    /\ \A i \in 1 .. Slots : v.dir[i].name = g \/ w.dir[i].name = g => w.dir[i] = v.dir[i]

LEMMA FileOkSame ==
    ASSUME NEW v, NEW w, NEW ch, NEW ch2, NEW g \in Names, Untouched(v, w, ch, ch2, g), NEW c, NEW p,
           FileOk(v, g, ch[g], c, p)
    PROVE  FileOk(w, g, ch2[g], c, p)
<1> USE DEF Untouched
<1>1. Gone(v, g, ch[g]) => Gone(w, g, ch2[g])
  BY DEF Gone
<1>2. Shut(v, g, ch[g], c) => Shut(w, g, ch2[g], c)
  <2> SUFFICES ASSUME Shut(v, g, ch[g], c) PROVE Shut(w, g, ch2[g], c)
    OBVIOUS
  <2>1. PICK i \in 1 .. Slots : v.dir[i] = Entry(g, First(ch[g]), Len(c))
    BY DEF Shut, HasEntry
  <2>2. v.dir[i].name = g
    BY <2>1 DEF Entry
  <2>3. HasEntry(w, g, ch2[g], c)
    BY <2>1, <2>2 DEF HasEntry
  <2> QED BY <2>3 DEF Shut
<1>3. Opened(v, g, ch[g], c, p) => Opened(w, g, ch2[g], c, p)
  <2> SUFFICES ASSUME Opened(v, g, ch[g], c, p) PROVE Opened(w, g, ch2[g], c, p)
    OBVIOUS
  <2>1. p.slot \in 1 .. Slots
    BY DEF Opened, FilRec
  <2>2. w.dir[p.slot] = v.dir[p.slot]
    BY <2>1 DEF Opened
  <2> QED BY <2>2 DEF Opened
<1> QED BY <1>1, <1>2, <1>3 DEF FileOk

LEMMA HoldingData ==
    ASSUME NEW s, NEW u, NEW t, NEW c, Holding(s, t, c), u.p = s.p,
           \A x \in Sects(Members(t)) : u.v.disk.data[x] = s.v.disk.data[x]
    PROVE  Holding(u, t, c)
<1>1. \A x, X, r : InSector(t, x, X, r) => X \in Sects(Members(t))
  BY DEF InSector, At, Sects, Members
<1> QED BY <1>1 DEF Holding, Has

LEMMA HoldsData ==
    ASSUME NEW v, NEW w, NEW g, NEW c, NEW p, Holds(v, g, c, p),
           \A x \in Sects(Members(g)) : w.disk.data[x] = v.disk.data[x]
    PROVE  Holds(w, g, c, p)
<1> SUFFICES ASSUME c # Absent PROVE Holding(On(w, Fil(p)), g, c)
  BY DEF Holds
<1>1. Holding(On(v, Fil(p)), g, c)
  BY DEF Holds
<1>2. On(w, Fil(p)).p = On(v, Fil(p)).p /\ On(w, Fil(p)).v = w /\ On(v, Fil(p)).v = v
  BY DEF On
<1> QED BY <1>1, <1>2, HoldingData

-----------------------------------------------------------------------------
\* A call ends: it was about the files G, and may have touched those of F.
Touches(v, w, ch, ch2, F) == \A g \in Names \ F : Untouched(v, w, ch, ch2, g)
Leaving(fl, fl2, ct, ct2, G) == \A g \in Names \ G : fl2[g] = fl[g] /\ ct2[g] = ct[g]
Ended(w, fl, fl2, ct, ct2, ch2, st2, F, G) ==
    /\ Typed(fl2, ct2) /\ FreeRight(w) /\ ch2[Loose] = Nil /\ ~w.moving
    /\ \A f \in G : FileOk(w, f, ch2[f], ct2[f], fl2[f])
    /\ \A f \in G : Settled(fl2, ct2, f) => IF f \in F THEN OnDisk(w, f, ch2[f]) ELSE Settled(fl, ct, f)
    /\ ~st2 => \A f \in G : Holds(w, ch2[f], ct2[f], fl2[f])

LEMMA CallEnds ==
    ASSUME NEW v, NEW fl, NEW ct, NEW subj, NEW st, NEW whole, NEW ch,
           Sound(v, fl, ct, subj, st, whole, ch),
           NEW F, NEW G \in SUBSET Names, F \subseteq G, NEW w, NEW ch2, NEW fl2, NEW ct2, NEW st2, st => st2,
           Good(w, ch2, Care(v, fl, ct, st, whole, ch, F)),
           Touches(v, w, ch, ch2, F), Leaving(fl, fl2, ct, ct2, G),
           Ended(w, fl, fl2, ct, ct2, ch2, st2, F, G)
    PROVE  Sound(w, fl2, ct2, G, st2, whole, ch2)
<1> DEFINE C == Bystanders(fl, ct, F)
           S == IF st THEN {} ELSE Names \ F
           K == Alone(v, ch, C, S, whole)
<1>1. /\ K.disk = v.disk /\ K.slots = {i \in 1 .. Slots : v.dir[i].name \in C}
      /\ K.clusters = Chains(ch, C) /\ K.sects = Sects(Chains(ch, S)) /\ K.whole = whole
  BY AloneIs
<1>2. Good(w, ch2, K)
  BY DEF Care
<1> HIDE DEF K
<1>3. Kept(Seen(w), K) /\ Kept(w.disk, K) /\ \A m \in w.images : Kept(m.disk, K)
  BY <1>2 DEF Good, Right, Fine, Moment
<1>4. Good(w, ch2, Alone(w, ch2, {}, {}, whole))
  <2>1. Good(w, ch2, Alone(w, ch2, {}, {}, K.whole))
    BY <1>2, GoodLess
  <2> QED BY <1>1, <2>1
<1>5. Resting(w, ch2, whole) /\ Typed(fl2, ct2) /\ whole \in BOOLEAN
  BY <1>4 DEF Ended, Sound, Resting
<1>6. ASSUME NEW f \in Names PROVE FileOk(w, f, ch2[f], ct2[f], fl2[f])
  <2>1. CASE f \in G
    BY <2>1 DEF Ended
  <2>2. CASE f \notin G
    <3>1. FileOk(v, f, ch[f], ct[f], fl[f]) /\ Untouched(v, w, ch, ch2, f) /\ fl2[f] = fl[f] /\ ct2[f] = ct[f]
      BY <2>2 DEF Sound, Touches, Leaving
    <3>2. FileOk(w, f, ch2[f], ct[f], fl[f])
      BY <3>1, FileOkSame
    <3> QED BY <3>1, <3>2
  <2> QED BY <2>1, <2>2

\* The disks of a file that was to be left alone.
<1>7. ASSUME NEW f \in C PROVE /\ \A i \in 1 .. Slots : w.dir[i].name = f => v.dir[i].name = f /\ i \in K.slots
                               /\ ch2[f] = ch[f] /\ \A c \in Members(ch[f]) : c \in K.clusters
                               /\ ~st => \A x \in Sects(Members(ch[f])) : x \in K.sects
  <2>1. f \in Names \ F
    BY DEF Bystanders
  <2>2. Untouched(v, w, ch, ch2, f)
    BY <2>1 DEF Touches
  <2>3. \A i \in 1 .. Slots : w.dir[i].name = f => v.dir[i].name = f
    BY <2>2 DEF Untouched
  <2>4. \A c \in Members(ch[f]) : c \in K.clusters
    BY <1>1, ChainsMember
  <2>5. ~st => \A x \in Sects(Members(ch[f])) : x \in K.sects
    <3> SUFFICES ASSUME ~st PROVE Sects(Members(ch[f])) \subseteq K.sects
      OBVIOUS
    <3>1. Members(ch[f]) \subseteq Chains(ch, S)
      BY <2>1, ChainsMember
    <3>2. Sects(Members(ch[f])) \subseteq Sects(Chains(ch, S))
      BY <3>1, SectsMember, Zenon
    <3> QED BY <1>1, <3>2
  <2> QED BY <1>1, <2>2, <2>3, <2>4, <2>5 DEF Untouched
<1>8. ASSUME NEW f \in Names, Settled(fl2, ct2, f) PROVE OnDisk(w, f, ch2[f])
  <2>1. CASE f \in F
    BY <1>8, <2>1 DEF Ended
  <2>2. CASE f \notin F
    <3>1. Settled(fl, ct, f)
      <4>1. CASE f \in G
        BY <1>8, <2>2, <4>1 DEF Ended
      <4>2. CASE f \notin G
        BY <1>8, <4>2 DEF Leaving, Settled
      <4> QED BY <4>1, <4>2
    <3>2. f \in C
      BY <2>2, <3>1 DEF Bystanders
    <3>3. /\ \A i \in 1 .. Slots : w.dir[i].name = f => w.disk.dir[i] = w.dir[i]
          /\ \A c \in Members(ch[f]) : w.disk.fat[c] = w.fat[c]
      BY <1>3, <1>7, <3>2 DEF Kept, Seen
    <3> QED BY <1>7, <3>2, <3>3 DEF OnDisk
  <2> QED BY <2>1, <2>2
<1>9. ASSUME ~st2, NEW f \in Names PROVE Holds(w, ch2[f], ct2[f], fl2[f])
  <2>1. CASE f \in G
    BY <1>9, <2>1 DEF Ended
  <2>2. CASE f \notin G
    <3>1. Holds(v, ch[f], ct[f], fl[f]) /\ ch2[f] = ch[f] /\ fl2[f] = fl[f] /\ ct2[f] = ct[f] /\ f \in Names \ F
      BY <1>9, <2>2 DEF Sound, Touches, Leaving, Untouched
    <3>2. \A x \in Sects(Members(ch[f])) : x \in K.sects
      <4>1. Members(ch[f]) \subseteq Chains(ch, S)
        BY <1>9, <3>1, ChainsMember
      <4>2. Sects(Members(ch[f])) \subseteq Sects(Chains(ch, S))
        BY <4>1, SectsMember, Zenon
      <4> QED BY <1>1, <4>2
    <3>3. \A x \in Sects(Members(ch[f])) : w.disk.data[x] = v.disk.data[x]
      BY <1>1, <1>3, <3>2 DEF Kept
    <3>4. Holds(w, ch[f], ct[f], fl[f])
      BY <3>1, <3>3, HoldsData
    <3> QED BY <3>1, <3>4
  <2> QED BY <2>1, <2>2
<1>10. ASSUME ~st2, NEW f \in Bystanders(fl2, ct2, G), NEW m \in w.images PROVE Unmoved(w, m.disk, f, ch2[f])
  <2>1. f \in Names \ G /\ Settled(fl2, ct2, f) /\ ~st
    BY <1>10 DEF Bystanders
  <2>2. Settled(fl, ct, f)
    BY <2>1 DEF Leaving, Settled
  <2>3. f \in C
    BY <2>1, <2>2 DEF Bystanders
  <2>4. /\ \A i \in 1 .. Slots : w.dir[i].name = f => m.disk.dir[i] = w.disk.dir[i]
        /\ \A c \in Members(ch[f]) : m.disk.fat[c] = w.disk.fat[c]
    BY <1>3, <1>7, <2>3 DEF Kept
  <2>5. \A x \in Sects(Members(ch[f])) : m.disk.data[x] = w.disk.data[x]
    BY <1>3, <1>7, <2>1, <2>3 DEF Kept
  <2> QED BY <1>7, <2>3, <2>4, <2>5 DEF Unmoved
<1> QED BY <1>5, <1>6, <1>8, <1>9, <1>10 DEF Sound
-----------------------------------------------------------------------------
LEMMA TypedFacts ==
    ASSUME NEW fl, NEW ct, Typed(fl, ct), NEW f \in Names
    PROVE  /\ fl[f] \in FilRec \cup {Closed} /\ ct[f] \in Contents \cup {Absent}
           /\ Closed \notin FilRec /\ Absent \notin Contents
<1>1. Closed \notin FilRec /\ Absent \notin Contents
  BY ClosedAssumption, FilesAssumption DEF Contents
<1> QED BY <1>1 DEF Typed

\* The file f is now open with the FIL p, or not (Closed), and is to hold c.
Changed(fl, fl2, f, p) == fl2[f] = p /\ \A g \in Names \ {f} : fl2[g] = fl[g]

LEMMA ChangedIs ==
    ASSUME NEW S, NEW fl \in [Names -> S], NEW f \in Names, NEW p \in S
    PROVE  [fl EXCEPT ![f] = p] \in [Names -> S] /\ Changed(fl, [fl EXCEPT ![f] = p], f, p)
  BY DEF Changed

LEMMA ChangedNot ==
    ASSUME NEW fl, NEW f
    PROVE  Changed(fl, fl, f, fl[f])
  BY DEF Changed

\* What is left of f.
FileEnds(w, f, g, c, p, st) ==
    /\ FileOk(w, f, g, c, p) /\ (~st => Holds(w, g, c, p))

FileStays(w, f, g, c, p) == c # Absent /\ (p # Closed => ~p.written) => OnDisk(w, f, g)

LEMMA OneEnds ==
    ASSUME NEW v, NEW fl, NEW ct, NEW subj, NEW st, NEW whole, NEW ch,
           Sound(v, fl, ct, subj, st, whole, ch), NEW f \in Names,
           NEW w, NEW ch2, NEW fl2, NEW ct2, NEW p, NEW c, NEW st2, st => st2,
           Good(w, ch2, Care(v, fl, ct, st, whole, ch, {f})), Touches(v, w, ch, ch2, {f}),
           FreeRight(w), ch2[Loose] = Nil, ~w.moving,
           Typed(fl2, ct2), Changed(fl, fl2, f, p), Changed(ct, ct2, f, c),
           FileEnds(w, f, ch2[f], c, p, st2), FileStays(w, f, ch2[f], c, p)
    PROVE  Sound(w, fl2, ct2, {f}, st2, whole, ch2)
<1> DEFINE F == {f}
<1>1. fl2[f] = p /\ ct2[f] = c
  BY DEF Changed
<1>2. Leaving(fl, fl2, ct, ct2, F)
  BY DEF Leaving, Changed
<1>3. \A g \in F : FileOk(w, g, ch2[g], ct2[g], fl2[g])
  BY <1>1 DEF FileEnds
<1>4. \A g \in F : Settled(fl2, ct2, g) => OnDisk(w, g, ch2[g])
  BY <1>1 DEF FileStays, Settled
<1>5. ~st2 => \A g \in F : Holds(w, ch2[g], ct2[g], fl2[g])
  BY <1>1 DEF FileEnds
<1>6. Ended(w, fl, fl2, ct, ct2, ch2, st2, F, F)
  BY <1>3, <1>4, <1>5 DEF Ended
<1>7. F \in SUBSET Names /\ F \subseteq F
  OBVIOUS
<1>8. Good(w, ch2, Care(v, fl, ct, st, whole, ch, F)) /\ Touches(v, w, ch, ch2, F)
  OBVIOUS
<1> HIDE DEF F
<1>9. Sound(w, fl2, ct2, F, st2, whole, ch2)
  BY <1>2, <1>6, <1>7, <1>8, CallEnds
<1> QED BY <1>9 DEF F

\* A call about f that reads only.
LEMMA QuietEnds ==
    ASSUME NEW v, NEW fl, NEW ct, NEW subj, NEW st, NEW whole, NEW ch,
           Sound(v, fl, ct, subj, st, whole, ch), NEW f \in Names,
           NEW w, NEW fl2, NEW ct2, NEW p, NEW c, c # Absent => Settled(fl, ct, f),
           Quiet(Called(v), w),
           Typed(fl2, ct2), Changed(fl, fl2, f, p), Changed(ct, ct2, f, c),
           FileEnds(w, f, ch[f], c, p, st)
    PROVE  Sound(w, fl2, ct2, {f}, st, whole, ch)
<1> DEFINE F == {}
           G == {f}
           K == Care(v, fl, ct, st, whole, ch, F)
<1>1. fl2[f] = p /\ ct2[f] = c
  BY DEF Changed
<1>2. Leaving(fl, fl2, ct, ct2, G)
  BY DEF Leaving, Changed
<1>3. \A g \in G : FileOk(w, g, ch[g], ct2[g], fl2[g])
  BY <1>1 DEF FileEnds
<1>4. \A g \in G : Settled(fl2, ct2, g) => IF g \in F THEN OnDisk(w, g, ch[g]) ELSE Settled(fl, ct, g)
  <2>1. Settled(fl2, ct2, f) => c # Absent
    BY <1>1 DEF Settled
  <2> QED BY <2>1
<1>5. ~st => \A g \in G : Holds(w, ch[g], ct2[g], fl2[g])
  BY <1>1 DEF FileEnds
<1>6. F \in SUBSET Names /\ G \in SUBSET Names /\ F \subseteq G
  OBVIOUS
<1>7. Good(Called(v), ch, K) /\ Beside(v, Called(v)) /\ FreeRight(Called(v)) /\ Called(v).fat = v.fat
  BY <1>6, CallStarts
<1> HIDE DEF F, G
<1>8. Good(w, ch, K) /\ Alike(Called(v), w)
  BY <1>7 DEF Quiet
<1>9. ch[Loose] = Nil /\ ~v.moving
  BY DEF Sound, Resting
<1>10. FreeRight(w) /\ ~w.moving /\ Touches(v, w, ch, ch, F)
  BY <1>7, <1>8, <1>9 DEF FreeRight, Beside, Alike, Touches, Untouched
<1>11. Ended(w, fl, fl2, ct, ct2, ch, st, F, G)
  BY <1>3, <1>4, <1>5, <1>9, <1>10 DEF Ended
<1> HIDE DEF K
<1>12. Sound(w, fl2, ct2, G, st, whole, ch)
  BY <1>2, <1>6, <1>8, <1>10, <1>11, CallEnds DEF K
<1> QED BY <1>12 DEF G

-----------------------------------------------------------------------------
\* A call about an open file begins.
LEMMA OpenFacts ==
    ASSUME NEW v, NEW fl, NEW ct, NEW subj, NEW st, NEW whole, NEW ch,
           Sound(v, fl, ct, subj, st, whole, ch), NEW f \in Names, fl[f] # Closed
    PROVE  /\ ct[f] # Absent /\ Opened(v, f, ch[f], ct[f], fl[f]) /\ fl[f] \in FilRec
           /\ ct[f] \in Contents /\ v.dir[fl[f].slot].name = f /\ fl[f].slot \in 1 .. Slots
<1>1. FileOk(v, f, ch[f], ct[f], fl[f])
  BY DEF Sound
<1>2. ct[f] # Absent /\ Opened(v, f, ch[f], ct[f], fl[f])
  BY <1>1 DEF FileOk
<1>3. fl[f] \in FilRec /\ v.dir[fl[f].slot].name = f /\ ct[f] \in Contents
  BY <1>2 DEF Opened, Fits
<1>4. fl[f].slot \in 1 .. Slots
  BY <1>3 DEF FilRec
<1> QED BY <1>2, <1>3, <1>4

LEMMA CareSlots ==
    ASSUME NEW v, NEW fl, NEW ct, NEW st, NEW whole, NEW ch, NEW F, NEW i \in 1 .. Slots,
           v.dir[i].name \in F \cup {End, Dde}
    PROVE  i \notin Care(v, fl, ct, st, whole, ch, F).slots
<1>1. \A S : Alone(v, ch, Bystanders(fl, ct, F), S, whole).slots = {j \in 1 .. Slots : v.dir[j].name \in Bystanders(fl, ct, F)}
  BY AloneIs
<1>2. v.dir[i].name \notin Bystanders(fl, ct, F)
  BY NameFacts DEF Bystanders
<1> QED BY <1>1, <1>2 DEF Care

LEMMA OpenStarts ==
    ASSUME NEW v, NEW fl, NEW ct, NEW subj, NEW st, NEW whole, NEW ch,
           Sound(v, fl, ct, subj, st, whole, ch), NEW f \in Names, fl[f] # Closed
    PROVE  LET K == Care(v, fl, ct, st, whole, ch, {f})
               s == On(Called(v), fl[f])
           IN  /\ Works(s, ch, K, f) /\ Placed(s.p, ch[f]) /\ s.p = fl[f] /\ s.v = Called(v)
               /\ s.p.slot \notin K.slots
               /\ ~st => Holding(s, ch[f], ct[f])
<1> DEFINE K == Care(v, fl, ct, st, whole, ch, {f})
           s == On(Called(v), fl[f])
<1>1. Opened(v, f, ch[f], ct[f], fl[f]) /\ fl[f] \in FilRec /\ v.dir[fl[f].slot].name = f /\ fl[f].slot \in 1 .. Slots
      /\ ct[f] # Absent
  BY OpenFacts
<1>2. s.v = Called(v) /\ s.p = fl[f] /\ s = On(s.v, s.p)
  BY DEF On
<1>3. {f} \in SUBSET Names
  OBVIOUS
<1>4. /\ Good(Called(v), ch, K) /\ FreeRight(Called(v)) /\ Aside(K, ch, f)
      /\ Called(v).disk = v.disk
  BY <1>3, CallStarts
<1>5. K.sects = IF st THEN {} ELSE Sects(Chains(ch, Names \ {f}))
  <2>1. K = Alone(v, ch, Bystanders(fl, ct, {f}), IF st THEN {} ELSE Names \ {f}, whole)
    BY DEF Care
  <2>2. K.sects = Sects(Chains(ch, IF st THEN {} ELSE Names \ {f}))
    BY <2>1, AloneIs
  <2>3. Sects(Chains(ch, {})) = {}
    BY DEF Sects, Chains
  <2> HIDE DEF K
  <2>4. CASE st
    BY <2>2, <2>3, <2>4
  <2>5. CASE ~st
    BY <2>2, <2>5
  <2> QED BY <2>4, <2>5
<1>6. ~st => Holding(s, ch[f], ct[f])
  <2> SUFFICES ASSUME ~st PROVE Holding(s, ch[f], ct[f])
    OBVIOUS
  <2>1. Holds(v, ch[f], ct[f], fl[f])
    BY DEF Sound
  <2>2. Holding(On(v, fl[f]), ch[f], ct[f])
    BY <1>1, <2>1 DEF Holds, Fil
  <2>3. On(v, fl[f]).p = fl[f] /\ On(v, fl[f]).v = v
    BY DEF On
  <2> HIDE DEF s
  <2> QED BY <1>2, <1>4, <2>2, <2>3, HoldingData
<1> HIDE DEF s, K
<1>7. ch[Loose] = Nil /\ fl[f].sclust = First(ch[f]) /\ Placed(fl[f], ch[f])
      /\ (fl[f].dirty => fl[f].dsect \in DataSector)
  BY <1>1 DEF Sound, Resting, Opened
<1>8. fl[f].dirty => fl[f].dsect \notin K.sects
  <2>1. CASE st
    BY <1>5, <2>1
  <2>2. CASE ~st
    <3> SUFFICES ASSUME fl[f].dirty PROVE fl[f].dsect \notin K.sects
      OBVIOUS
    <3>1. fl[f].dsect \in Sects(Members(ch[f]))
      BY <1>2, <1>6, <2>2 DEF Holding
    <3>2. PICK c \in Members(ch[f]), k \in 0 .. CSize-1 : fl[f].dsect = clust2sect(c) + k
      BY <3>1 DEF Sects
    <3>3. Layout(Called(v).fat, ch)
      BY <1>4, GoodFacts
    <3>4. clust2sect(c) + k \notin K.sects
      BY <1>4, <3>3, SectorAside
    <3> QED BY <3>2, <3>4
  <2> QED BY <2>1, <2>2
<1>9. Works(s, ch, K, f)
  BY <1>1, <1>2, <1>4, <1>7, <1>8 DEF Works
<1>10. fl[f].slot \notin K.slots
  BY <1>1, CareSlots DEF K
<1> QED BY <1>2, <1>6, <1>7, <1>9, <1>10 DEF s, K
-----------------------------------------------------------------------------
\* What a call about the open file f leaves of the others.
Ends(v, w, ch, ch2, f) ==
    /\ Touches(v, w, ch, ch2, {f}) /\ FreeRight(w) /\ ch2[Loose] = Nil /\ ~w.moving
    /\ w.dir = v.dir /\ w.cut = v.cut

LEMMA OpenEnds ==
    ASSUME NEW v, NEW fl, NEW ct, NEW subj, NEW st, NEW whole, NEW ch,
           Sound(v, fl, ct, subj, st, whole, ch), NEW f \in Names,
           NEW w, NEW t \in Seq(Cluster), Still(Called(v), w), FreeRight(w)
    PROVE  Ends(v, w, ch, With(ch, f, t, Nil), f) /\ With(ch, f, t, Nil)[f] = t
<1> DEFINE c1 == With(ch, f, t, Nil)
           F == {}
<1>1. Good(v, ch, Alone(v, ch, {}, {}, whole)) /\ ~v.moving
  BY DEF Sound, Resting
<1>2. ch \in [Holders -> Seq(Cluster)]
  BY <1>1, GoodFacts
<1>3. Nil \in Seq(Cluster)
  BY NilIs
<1>4. c1[f] = t /\ c1[Loose] = Nil /\ \A g \in Holders : g # f /\ g # Loose => c1[g] = ch[g]
  BY <1>2, <1>3, WithIs
<1>5. F \in SUBSET Names
  OBVIOUS
<1>6. Beside(v, Called(v))
  BY <1>5, CallStarts
<1> HIDE DEF c1
<1>7. w.dir = v.dir /\ w.cut = v.cut /\ w.moving = v.moving
  BY <1>6 DEF Beside, Still
<1>8. \A g \in Names \ {f} : c1[g] = ch[g]
  BY <1>4, NameFacts
<1>9. Touches(v, w, ch, c1, {f})
  BY <1>7, <1>8 DEF Touches, Untouched
<1> QED BY <1>1, <1>4, <1>7, <1>9 DEF Ends, c1

\* The end of a file goes as far as its pointer, p2.
Stretched(p, p2) ==
    /\ p2 \in FilRec /\ p2.fsize = Reach(p) /\ p2.written = (p.written \/ p.fptr > p.fsize)
    /\ p2.wr = p.wr /\ p2.dirty = p.dirty /\ p2.slot = p.slot /\ p2.sclust = p.sclust /\ p2.fptr = p.fptr
    /\ p2.clust = p.clust /\ p2.dsect = p.dsect /\ p2.buf = p.buf

LEMMA StretchedIs ==
    ASSUME NEW p \in FilRec
    PROVE  Stretched(p, [p EXCEPT !.fsize = Max({@, p.fptr}), !.written = @ \/ p.fptr > p.fsize])
<1> DEFINE n == Max({p.fsize, p.fptr})
           b == (p.written \/ p.fptr > p.fsize)
<1>1. n = Reach(p) /\ n \in Nat
  BY FilFacts, MaxTwo DEF Reach
<1>2. b \in BOOLEAN
  OBVIOUS
<1> HIDE DEF n, b
<1>3. Stretched(p, [p EXCEPT !.fsize = n, !.written = b]) <=> b = (p.written \/ p.fptr > p.fsize)
  BY <1>1, <1>2 DEF Stretched, FilRec
<1> QED BY <1>3 DEF n, b

LEMMA HoldingFil ==
    ASSUME NEW s, NEW u, NEW t, NEW c, Holding(s, t, c), u.v.disk.data = s.v.disk.data,
           u.p.dirty = s.p.dirty, u.p.dsect = s.p.dsect, u.p.buf = s.p.buf
    PROVE  Holding(u, t, c)
  BY DEF Holding, Has

LEMMA HoldsOpen ==
    ASSUME NEW s, NEW t, NEW c, Holding(s, t, c), NEW p \in FilRec,
           p.dirty = s.p.dirty, p.dsect = s.p.dsect, p.buf = s.p.buf
    PROVE  Holds(s.v, t, c, p)
<1>1. Fil(p) = p
  BY ClosedAssumption DEF Fil
<1>2. On(s.v, p).v = s.v /\ On(s.v, p).p = p
  BY DEF On
<1>3. Holding(On(s.v, p), t, c)
  BY <1>2, HoldingFil
<1> QED BY <1>1, <1>3 DEF Holds

LEMMA PlacedAs ==
    ASSUME NEW p, NEW p2, NEW g, Placed(p, g), p2.fptr = p.fptr, p2.clust = p.clust, p2.dsect = p.dsect
    PROVE  Placed(p2, g)
  BY DEF Placed, CurrentSector, SectorOfCluster

\* A call came to another place of the open file f, and c are now its bytes.
LEMMA CameSound ==
    ASSUME NEW v, NEW fl, NEW ct, NEW subj, NEW st, NEW whole, NEW ch,
           Sound(v, fl, ct, subj, st, whole, ch), NEW f \in Names, fl[f] # Closed,
           NEW u, NEW t, Came(On(Called(v), fl[f]), ch, Care(v, fl, ct, st, whole, ch, {f}), f, u, t),
           NEW p, Stretched(u.p, p), NEW c \in Contents, Len(c) = p.fsize, Len(c) <= bcs * Len(t),
           ~st => Holding(u, t, c),
           NEW fl2, NEW ct2, Typed(fl2, ct2), Changed(fl, fl2, f, p), Changed(ct, ct2, f, c)
    PROVE  Sound(u.v, fl2, ct2, {f}, st, whole, With(ch, f, t, Nil))
<1> DEFINE K == Care(v, fl, ct, st, whole, ch, {f})
           s == On(Called(v), fl[f])
           c1 == With(ch, f, t, Nil)
           q == fl[f]
<1>1. /\ Works(s, ch, K, f) /\ s.p = q /\ s.v = Called(v)
  BY OpenStarts
<1>2. /\ Opened(v, f, ch[f], ct[f], q) /\ q \in FilRec /\ ct[f] # Absent /\ v.dir[q.slot].name = f
  BY OpenFacts
<1> HIDE DEF s, K
<1>3. Came(s, ch, K, f, u, t)
  BY DEF s, K
<1>4. /\ Works(u, c1, K, f) /\ Placed(u.p, t) /\ Still(s.v, u.v) /\ t \in Seq(Cluster) /\ Extends(ch[f], t)
      /\ u.p.wr = q.wr /\ u.p.written = q.written /\ u.p.slot = q.slot /\ u.p.fsize = q.fsize
      /\ t # ch[f] => bcs * Len(ch[f]) < u.p.fptr
      /\ ~q.dirty => ~u.p.dirty /\ (t = ch[f] => Quiet(s.v, u.v))
  BY <1>1, <1>3 DEF Came
<1>5. Good(u.v, c1, K) /\ FreeRight(u.v) /\ u.p \in FilRec /\ u.p.sclust = First(c1[f])
      /\ (u.p.dirty => u.p.dsect \in DataSector)
  BY <1>4 DEF Works
<1>6. Ends(v, u.v, ch, c1, f) /\ c1[f] = t
  BY <1>1, <1>4, <1>5, OpenEnds
<1>7. c # Absent /\ p \in FilRec /\ p # Closed
  BY TypedFacts DEF Stretched
<1> HIDE DEF c1
<1>8. Placed(p, t)
  BY <1>4, PlacedAs DEF Stretched
<1>9. /\ u.p.fptr \in Nat /\ u.p.fsize \in Nat /\ Reach(u.p) = IF u.p.fsize < u.p.fptr THEN u.p.fptr ELSE u.p.fsize
      /\ Len(ct[f]) = q.fsize /\ Len(ct[f]) <= bcs * Len(ch[f]) /\ p.fptr = u.p.fptr
      /\ p.fsize = Reach(u.p) /\ p.written = (u.p.written \/ u.p.fptr > u.p.fsize)
  BY <1>2, <1>5, FilFacts DEF Opened, Fits, Stretched, Reach
<1>10. p.fptr <= p.fsize
  BY <1>9
<1>11. ASSUME ~p.written PROVE t = ch[f] /\ ~q.dirty /\ ~q.written /\ p.fsize = q.fsize
  <2>1. ~(u.p.fptr > u.p.fsize) /\ ~q.written
    BY <1>4, <1>9, <1>11
  <2>2. p.fsize = q.fsize
    BY <1>4, <1>9, <2>1
  <2>3. bcs * Len(ch[f]) \in Nat
    BY <1>1, WorksFacts, Sizes1, Mul
  <2>4. ~(bcs * Len(ch[f]) < u.p.fptr)
    <3> DEFINE b == bcs * Len(ch[f])
    <3>1. b \in Nat /\ Len(ct[f]) <= b /\ Len(ct[f]) = q.fsize /\ u.p.fsize = q.fsize /\ u.p.fptr \in Nat /\ u.p.fsize \in Nat
      BY <1>4, <1>9, <2>3
    <3> HIDE DEF b
    <3>2. ~(b < u.p.fptr)
      BY <2>1, <3>1
    <3> QED BY <3>2 DEF b
  <2> QED BY <1>2, <1>4, <2>1, <2>2, <2>4 DEF Opened
<1>12. Opened(u.v, f, t, c, p)
  <2>1. u.v.dir = v.dir /\ u.v.cut = v.cut
    BY <1>6 DEF Ends
  <2>2. p.dirty => p.written
    <3>1. ASSUME p.dirty, ~p.written PROVE FALSE
      BY <1>4, <1>11, <3>1 DEF Stretched
    <3> QED BY <3>1
  <2>3. f \in u.v.cut => p.written
    <3>1. f \in v.cut => q.written
      BY <1>2 DEF Opened
    <3> QED BY <1>4, <1>9, <2>1, <3>1
  <2>4. ~p.written => u.v.dir[p.slot] = Entry(f, First(t), Len(c))
    <3> SUFFICES ASSUME ~p.written PROVE u.v.dir[p.slot] = Entry(f, First(t), Len(c))
      OBVIOUS
    <3>1. v.dir[q.slot] = Entry(f, First(ch[f]), Len(ct[f]))
      BY <1>2, <1>11 DEF Opened
    <3>2. Len(c) = Len(ct[f]) /\ t = ch[f] /\ p.slot = q.slot
      BY <1>4, <1>9, <1>11 DEF Stretched
    <3> QED BY <2>1, <3>1, <3>2
  <2>5. p.slot = q.slot /\ p.sclust = First(t) /\ (p.dirty => p.dsect \in DataSector)
    BY <1>4, <1>5, <1>6 DEF Stretched
  <2> QED BY <1>2, <1>7, <1>8, <1>10, <2>1, <2>2, <2>3, <2>4, <2>5 DEF Opened, Fits
<1>13. FileEnds(u.v, f, t, c, p, st)
  <2>1. ~st => Holds(u.v, t, c, p)
    BY <1>7, HoldsOpen DEF Stretched
  <2> QED BY <1>7, <1>12, <2>1 DEF FileEnds, FileOk
<1>14. CASE p.written
  <2>1. FileStays(u.v, f, t, c, p)
    BY <1>7, <1>14 DEF FileStays
  <2>2. /\ Good(u.v, c1, Care(v, fl, ct, st, whole, ch, {f})) /\ Touches(v, u.v, ch, c1, {f})
        /\ FreeRight(u.v) /\ c1[Loose] = Nil /\ ~u.v.moving
    BY <1>5, <1>6 DEF Ends, K
  <2>3. FileEnds(u.v, f, c1[f], c, p, st) /\ FileStays(u.v, f, c1[f], c, p)
    BY <1>6, <1>13, <2>1
  <2>4. Sound(u.v, fl2, ct2, {f}, st, whole, c1)
    BY <2>2, <2>3, OneEnds
  <2> QED BY <2>4 DEF c1
<1>15. CASE ~p.written
  <2>1. t = ch[f] /\ ~q.dirty /\ ~q.written
    BY <1>11, <1>15
  <2>2. c1 = ch
    BY <1>1, <2>1, WorksFacts DEF c1
  <2>3. Quiet(Called(v), u.v)
    BY <1>1, <1>4, <2>1
  <2>4. Settled(fl, ct, f)
    BY <1>2, <2>1 DEF Settled
  <2>5. FileEnds(u.v, f, ch[f], c, p, st)
    BY <1>13, <2>1
  <2>6. Sound(u.v, fl2, ct2, {f}, st, whole, ch)
    BY <2>3, <2>4, <2>5, QuietEnds
  <2> QED BY <2>2, <2>6 DEF c1
<1> QED BY <1>14, <1>15
-----------------------------------------------------------------------------
Turned(fl, fl2, f, p) == fl2 = [fl EXCEPT ![f] = p]

LEMMA TurnedIs ==
    ASSUME NEW fl, NEW ct, Typed(fl, ct), NEW f \in Names
    PROVE  /\ \A fl2 : \A p \in FilRec \cup {Closed} : Turned(fl, fl2, f, p) =>
                    Changed(fl, fl2, f, p) /\ \A ct2 : Typed(fl, ct2) => Typed(fl2, ct2)
           /\ \A ct2 : \A c \in Contents \cup {Absent} : Turned(ct, ct2, f, c) =>
                    Changed(ct, ct2, f, c) /\ Typed(fl, ct2)
<1>1. fl \in [Names -> FilRec \cup {Closed}] /\ ct \in [Names -> Contents \cup {Absent}]
  BY DEF Typed
<1>2. ASSUME NEW fl2, NEW p \in FilRec \cup {Closed}, Turned(fl, fl2, f, p)
      PROVE  Changed(fl, fl2, f, p) /\ \A ct2 : Typed(fl, ct2) => Typed(fl2, ct2)
  <2> DEFINE S == FilRec \cup {Closed}
  <2>1. fl \in [Names -> S] /\ p \in S /\ fl2 = [fl EXCEPT ![f] = p]
    BY <1>1, <1>2 DEF Turned
  <2> HIDE DEF S
  <2>2. fl2 \in [Names -> S] /\ Changed(fl, fl2, f, p)
    BY <2>1, ChangedIs
  <2> QED BY <2>2 DEF Typed, S
<1>3. ASSUME NEW ct2, NEW c \in Contents \cup {Absent}, Turned(ct, ct2, f, c)
      PROVE  Changed(ct, ct2, f, c) /\ Typed(fl, ct2)
  <2> DEFINE S == Contents \cup {Absent}
  <2>1. ct \in [Names -> S] /\ c \in S /\ ct2 = [ct EXCEPT ![f] = c]
    BY <1>1, <1>3 DEF Turned
  <2> HIDE DEF S
  <2>2. ct2 \in [Names -> S] /\ Changed(ct, ct2, f, c)
    BY <2>1, ChangedIs
  <2> QED BY <1>1, <2>2 DEF Typed, S
<1> QED BY <1>2, <1>3

LEMMA SliceIs ==
    ASSUME NEW c \in Contents, NEW a \in Nat, NEW m \in Nat, a + m <= Len(c)
    PROVE  LET w == SubSeq(c, a+1, a+m)
           IN  Len(w) = m /\ DOMAIN w = 1 .. m /\ \A j \in 1 .. m : w[j] = c[a + j]
<1> DEFINE w == SubSeq(c, a+1, a+m)
<1>1. c \in Seq(Data \cup {Blank}) /\ Len(c) \in Nat
  BY ContentsFacts DEF Contents
<1>2. a+1 \in 1 .. Len(c)+1 /\ a+m \in a+1-1 .. Len(c)
  BY <1>1
<1>3. w \in Seq(Data \cup {Blank}) /\ Len(w) = a+m - (a+1) + 1 /\ \A j \in 1 .. (a+m) - (a+1) + 1 : w[j] = c[a+1 + j - 1]
  BY <1>1, <1>2, SubSeqProperties
<1> HIDE DEF w
<1>4. Len(w) = m /\ DOMAIN w = 1 .. Len(w)
  BY <1>3
<1>5. \A j \in 1 .. m : w[j] = c[a + j]
  <2> SUFFICES ASSUME NEW j \in 1 .. m PROVE w[j] = c[a + j]
    OBVIOUS
  <2>1. a+1 + j - 1 = a + j /\ j \in 1 .. (a+m) - (a+1) + 1
    OBVIOUS
  <2> QED BY <1>3, <2>1
<1> QED BY <1>4, <1>5 DEF w

\* f_read makes fl2 of the open files, and gets what r has got.
Reads(v, fl, f, most, r, fl2) ==
    r = ReadBytes(On(Called(v), fl[f]), most) /\ Turned(fl, fl2, f, r.s.p)

ReadLeaves(r, fl2, ct, f, st, whole, wanted) ==
    /\ \E c2 : Sound(r.s.v, fl2, ct, {f}, st, whole, c2)
    /\ ~st => Agrees(r.got, wanted)

\* f_read.
LEMMA ReadSound ==
    ASSUME NEW v, NEW fl, NEW ct, NEW subj, NEW st, NEW whole, NEW ch,
           Sound(v, fl, ct, subj, st, whole, ch), NEW f \in Names, fl[f] # Closed, NEW n \in Nat,
           NEW most, most = Min({n, fl[f].fsize - fl[f].fptr}),
           NEW r, NEW fl2, Reads(v, fl, f, most, r, fl2)
    PROVE  ReadLeaves(r, fl2, ct, f, st, whole, SubSeq(ct[f], fl[f].fptr+1, fl[f].fptr+most))
<1> r = ReadBytes(On(Called(v), fl[f]), most) /\ Turned(fl, fl2, f, r.s.p)
  BY DEF Reads
<1> DEFINE K == Care(v, fl, ct, st, whole, ch, {f})
           s == On(Called(v), fl[f])
           q == fl[f]
           u == r.s
           g == ch[f]
           c == ct[f]
<1>1. /\ Works(s, ch, K, f) /\ Placed(s.p, g) /\ s.p = q /\ s.v = Called(v) /\ (~st => Holding(s, g, c))
  BY OpenStarts
<1>2. /\ Opened(v, f, g, c, q) /\ q \in FilRec /\ c # Absent /\ c \in Contents
  BY OpenFacts
<1>3. q.fptr \in Nat /\ q.fsize \in Nat /\ Len(c) = q.fsize /\ q.fptr <= q.fsize /\ Len(c) <= bcs * Len(g)
  BY <1>2, FilFacts DEF Opened, Fits
<1>4. most \in Nat /\ q.fptr + most <= q.fsize
  <2>1. q.fsize - q.fptr \in Nat
    BY <1>3
  <2>2. most = IF n <= q.fsize - q.fptr THEN n ELSE q.fsize - q.fptr
    BY <2>1, MinTwo
  <2> HIDE DEF q
  <2> QED BY <1>3, <2>1, <2>2
<1>5. bcs * Len(g) \in Nat
  BY <1>1, WorksFacts, Sizes1, Mul
<1> HIDE DEF s, K, q, c, g
<1>6. q.fptr + most <= bcs * Len(g)
  <2> DEFINE b == bcs * Len(g)
  <2>1. b \in Nat /\ Len(c) <= b
    BY <1>3, <1>5
  <2> HIDE DEF b
  <2>2. q.fptr + most <= b
    BY <1>3, <1>4, <2>1
  <2> QED BY <2>2 DEF b
<1>7. Took2(s, ch, K, f, u, r.got) /\ Len(r.got) = most
  <2>1. s.p.fptr + most <= bcs * Len(ch[f]) /\ Placed(s.p, ch[f])
    BY <1>1, <1>6 DEF g
  <2>2. /\ Took2(s, ch, K, f, ReadBytes(s, most).s, ReadBytes(s, most).got)
        /\ Len(ReadBytes(s, most).got) = most
    BY <1>1, <1>4, <2>1, ReadBytesTook
  <2> QED BY <2>2 DEF s, q
<1>8. Came(s, ch, K, f, u, g) /\ Took(s, g, u, r.got)
  BY <1>7 DEF Took2, g
<1>9. /\ u.p \in FilRec /\ u.p.fsize = q.fsize /\ u.p.written = q.written /\ u.p.fptr = q.fptr + most
      /\ (~st => Holding(u, g, c))
  <2>1. Works(u, With(ch, f, g, Nil), K, f) /\ u.p.fsize = q.fsize /\ u.p.written = q.written
    BY <1>1, <1>8 DEF Came
  <2>2. u.p.fptr = q.fptr + most
    BY <1>1, <1>7, <1>8 DEF Took
  <2>3. ~st => Holding(u, g, c)
    BY <1>1, <1>2, <1>3, <1>8 DEF Came, g
  <2> QED BY <2>1, <2>2, <2>3 DEF Works
<1>10. Stretched(u.p, u.p)
  <2>1. ~(u.p.fsize < u.p.fptr) /\ ~(u.p.fptr > u.p.fsize)
    BY <1>3, <1>4, <1>9
  <2>2. u.p.written \in BOOLEAN
    BY <1>9 DEF FilRec
  <2> QED BY <1>9, <2>1, <2>2 DEF Stretched, Reach
<1>11. Typed(fl, ct)
  BY DEF Sound
<1>12. Typed(fl2, ct) /\ Changed(fl, fl2, f, u.p) /\ Changed(ct, ct, f, c)
  <2>1. Turned(fl, fl2, f, u.p) /\ u.p \in FilRec \cup {Closed}
    BY <1>9
  <2>2. Changed(ct, ct, f, c)
    BY ChangedNot DEF c
  <2>3. Changed(fl, fl2, f, u.p) /\ Typed(fl2, ct)
    BY <1>11, <2>1, TurnedIs
  <2> QED BY <2>2, <2>3
<1> HIDE DEF u
<1>13. \E c2 : Sound(u.v, fl2, ct, {f}, st, whole, c2)
  <2>1. Came(On(Called(v), fl[f]), ch, Care(v, fl, ct, st, whole, ch, {f}), f, u, g)
    BY <1>8 DEF s, K
  <2>2. Len(c) = u.p.fsize
    BY <1>3, <1>9
  <2>3. Sound(u.v, fl2, ct, {f}, st, whole, With(ch, f, g, Nil))
    BY <1>2, <1>3, <1>9, <1>10, <1>12, <2>1, <2>2, CameSound
  <2> QED BY <2>3
<1>14. ASSUME ~st PROVE Agrees(r.got, SubSeq(c, q.fptr+1, q.fptr+most))
  <2> DEFINE w == SubSeq(c, q.fptr+1, q.fptr+most)
             got == r.got
  <2>1. Len(w) = most /\ DOMAIN w = 1 .. most /\ \A j \in 1 .. most : w[j] = c[q.fptr + j]
    <3>1. c \in Seq(Data \cup {Blank})
      BY <1>2 DEF Contents
    <3>2. q.fptr + 1 \in Nat /\ q.fptr + most \in Nat /\ Len(c) \in Nat /\ q.fptr + most <= Len(c)
      BY <1>3, <1>4
    <3>3. c \in Contents /\ q.fptr \in Nat /\ most \in Nat
      BY <1>2, <1>3, <1>4
    <3> DEFINE a == q.fptr
    <3>4. a \in Nat /\ a + most <= Len(c)
      BY <3>2, <3>3
    <3> HIDE DEF a
    <3>5. LET z == SubSeq(c, a+1, a+most)
          IN  Len(z) = most /\ DOMAIN z = 1 .. most /\ \A j \in 1 .. most : z[j] = c[a + j]
      BY <3>3, <3>4, SliceIs, Zenon
    <3> QED BY <3>5 DEF a
  <2> HIDE DEF w
  <2>2. \A j \in 1 .. most : c[q.fptr + j] # Blank => got[j] = c[q.fptr + j]
    <3>1. Holding(s, g, c) /\ s.p.fptr = q.fptr /\ q.fptr + most <= Len(c)
      BY <1>1, <1>3, <1>4, <1>14
    <3>2. Len(c) <= bcs * Len(g) /\ s.p.fptr + Len(r.got) <= Len(c)
      BY <1>3, <1>7, <3>1
    <3>3. \A j \in 1 .. Len(r.got) : c[s.p.fptr + j] # Blank => r.got[j] = c[s.p.fptr + j]
      <4>1. Took(s, g, u, r.got)
        BY <1>8
      <4> QED BY <1>2, <3>1, <3>2, <4>1 DEF Took
    <3> QED BY <1>7, <3>1, <3>3
  <2>3. Len(got) = most
    BY <1>7
  <2> HIDE DEF got
  <2>4. Agrees(got, w)
    BY <2>1, <2>2, <2>3 DEF Agrees
  <2> QED BY <2>4 DEF got, w
<1> QED BY <1>13, <1>14 DEF ReadLeaves, u, q, c
-----------------------------------------------------------------------------
\* s with p's fields changed.
LEMMA FieldsOf ==
    ASSUME NEW s, s = On(s.v, s.p), NEW a, NEW b
    PROVE  LET u == [s EXCEPT !.p.fsize = a, !.p.written = b]
           IN  u.v = s.v /\ u.p = [s.p EXCEPT !.fsize = a, !.written = b]
  BY DEF On

\* The bytes sought beyond the end may be anything.
LEMMA HoldingBlank ==
    ASSUME NEW s, NEW t, NEW c \in Contents, Holding(s, t, c), NEW e \in Nat, Len(c) <= e
    PROVE  Holding(s, t, Overwrite(c, Len(c), e, Blank))
<1> DEFINE o == Overwrite(c, Len(c), e, Blank)
<1>1. Len(c) \in Nat
  BY ContentsFacts
<1>2. Over(c, Len(c), e, Blank, o)
  BY <1>1, OverwriteIs
<1> HIDE DEF o
<1>3. \A x \in 0 .. Len(o)-1 : o[x+1] # Blank => x \in 0 .. Len(c)-1 /\ o[x+1] = c[x+1]
  <2>1. Len(o) = e
    BY <1>1, <1>2 DEF Over
  <2>2. \A x \in 0 .. e-1 : o[x+1] = IF Len(c) <= x /\ x < e THEN Blank ELSE c[x+1]
    BY <1>2, <2>1 DEF Over
  <2> SUFFICES ASSUME NEW x \in 0 .. e-1, o[x+1] # Blank PROVE x \in 0 .. Len(c)-1 /\ o[x+1] = c[x+1]
    BY <2>1
  <2>3. ~(Len(c) <= x)
    BY <2>2
  <2> QED BY <1>1, <2>2, <2>3
<1>4. Holding(s, t, o)
  BY <1>3 DEF Holding
<1> QED BY <1>4 DEF o

\* What f_lseek makes of the end of the file.
Stretches(u, w) == w = [u EXCEPT !.p.fsize = Max({@, u.p.fptr}), !.p.written = @ \/ u.p.fptr > u.p.fsize]
Lengthens(ct, ct2, f, p) ==
    ct2 = [ct EXCEPT ![f] = Overwrite(@, Len(@), Max({p.fptr, p.fsize}), Blank)]

\* f_lseek.
LEMMA SeekSound ==
    ASSUME NEW v, NEW fl, NEW ct, NEW subj, NEW st, NEW whole, NEW ch,
           Sound(v, fl, ct, subj, st, whole, ch), NEW f \in Names, fl[f] # Closed,
           NEW ofs \in Nat, fl[f].wr \/ ofs <= fl[f].fsize,
           NEW u, u = Seek(On(Called(v), fl[f]), ofs),
           NEW w, Stretches(u, w), NEW fl2, Turned(fl, fl2, f, w.p), NEW ct2, Lengthens(ct, ct2, f, u.p)
    PROVE  \E c2 : Sound(w.v, fl2, ct2, {f}, st, whole, c2)
<1> DEFINE K == Care(v, fl, ct, st, whole, ch, {f})
           s == On(Called(v), fl[f])
           q == fl[f]
           g == ch[f]
           c == ct[f]
           e == Max({u.p.fptr, u.p.fsize})
           o == Overwrite(c, Len(c), e, Blank)
<1>1. /\ Works(s, ch, K, f) /\ Placed(s.p, g) /\ s.p = q /\ s.v = Called(v) /\ (~st => Holding(s, g, c))
  BY OpenStarts
<1>2. /\ Opened(v, f, g, c, q) /\ q \in FilRec /\ c # Absent /\ c \in Contents
  BY OpenFacts
<1>3. q.fptr \in Nat /\ q.fsize \in Nat /\ Len(c) = q.fsize /\ q.fptr <= q.fsize /\ Len(c) <= bcs * Len(g)
      /\ Len(c) \in Nat
  BY <1>2, FilFacts, ContentsFacts DEF Opened, Fits
<1>4. bcs * Len(g) \in Nat /\ g \in Seq(Cluster)
  BY <1>1, WorksFacts, Sizes1, Mul
<1> HIDE DEF s, K, q, c, g
<1>5. s.p.wr \/ ofs <= bcs * Len(ch[f])
  <2>1. CASE q.wr
    BY <1>1, <2>1
  <2>2. CASE ofs <= q.fsize
    <3> DEFINE b == bcs * Len(g)
    <3>1. b \in Nat /\ Len(c) <= b
      BY <1>3, <1>4
    <3> HIDE DEF b
    <3>2. ofs <= b
      BY <1>3, <2>2, <3>1
    <3> QED BY <3>2 DEF b, g
  <2> QED BY <2>1, <2>2 DEF q
<1>6. PICK t : Came(s, ch, K, f, u, t)
  <2>1. Placed(s.p, ch[f]) /\ Works(s, ch, K, f)
    BY <1>1 DEF g
  <2>2. \E t : Came(s, ch, K, f, Seek(s, ofs), t)
    BY <1>5, <2>1, SeekComes
  <2> QED BY <2>2 DEF s
<1>7. /\ Works(u, With(ch, f, t, Nil), K, f) /\ u.p \in FilRec /\ Placed(u.p, t) /\ u.p.fsize = q.fsize
      /\ t \in Seq(Cluster) /\ Extends(g, t) /\ (~st => Holding(u, t, c)) /\ u = On(u.v, u.p)
  <2>1. Works(u, With(ch, f, t, Nil), K, f) /\ Placed(u.p, t) /\ u.p.fsize = q.fsize
        /\ t \in Seq(Cluster) /\ Extends(g, t)
    BY <1>1, <1>6 DEF Came, g
  <2>2. ~st => Holding(u, t, c)
    BY <1>1, <1>2, <1>3, <1>6 DEF Came, g
  <2> QED BY <2>1, <2>2 DEF Works
<1>8. u.p.fptr \in Nat /\ u.p.fsize \in Nat /\ e = Reach(u.p) /\ e \in Nat /\ u.p.fsize <= e
  <2>1. u.p.fptr \in Nat /\ u.p.fsize \in Nat /\ Reach(u.p) \in Nat /\ u.p.fsize <= Reach(u.p)
    BY <1>7, FilFacts
  <2>2. e = IF u.p.fptr <= u.p.fsize THEN u.p.fsize ELSE u.p.fptr
    BY <2>1, MaxTwo
  <2>3. e = Reach(u.p)
    BY <2>1, <2>2 DEF Reach
  <2> QED BY <2>1, <2>3
<1> HIDE DEF e
<1>9. Over(c, Len(c), e, Blank, o) /\ (~st => Holding(u, t, o))
  <2>1. Len(c) <= e
    BY <1>3, <1>7, <1>8
  <2> QED BY <1>2, <1>3, <1>7, <1>8, <2>1, OverwriteIs, HoldingBlank
<1> HIDE DEF o
<1>10. o \in Contents /\ Len(o) = e
  BY <1>3, <1>7, <1>8, <1>9 DEF Over
<1>11. e <= bcs * Len(t)
  <2>1. u.p.fptr <= bcs * Len(t)
    BY <1>7, PlacedIn DEF Extends
  <2>2. u.p.fsize <= bcs * Len(t)
    BY <1>3, <1>4, <1>7, LongEnough
  <2> QED BY <1>8, <2>1, <2>2 DEF Reach
<1> DEFINE p == [u.p EXCEPT !.fsize = Max({@, u.p.fptr}), !.written = @ \/ u.p.fptr > u.p.fsize]
<1>12. Stretched(u.p, p)
  BY <1>7, StretchedIs
<1>13. w.v = u.v /\ w.p = p
  <2> DEFINE a == Max({u.p.fsize, u.p.fptr})
             b == (u.p.written \/ u.p.fptr > u.p.fsize)
             y == [u EXCEPT !.p.fsize = a, !.p.written = b]
  <2>1. w = y
    BY <1>7 DEF On, Stretches
  <2>2. p = [u.p EXCEPT !.fsize = a, !.written = b]
    BY <1>7 DEF FilRec
  <2> HIDE DEF a, b, p
  <2>3. y.v = u.v /\ y.p = [u.p EXCEPT !.fsize = a, !.written = b]
    BY <1>7, FieldsOf
  <2> HIDE DEF y
  <2> QED BY <2>1, <2>2, <2>3
<1> HIDE DEF p
<1>14. Typed(fl, ct)
  BY DEF Sound
<1>15. Typed(fl2, ct2) /\ Changed(fl, fl2, f, p) /\ Changed(ct, ct2, f, o)
  <2>1. p \in FilRec \cup {Closed} /\ Turned(fl, fl2, f, p)
    BY <1>12, <1>13 DEF Stretched
  <2>2. Turned(ct, ct2, f, o)
    BY <1>14 DEF Typed, Turned, Lengthens, o, c, e
  <2>3. o \in Contents \cup {Absent}
    BY <1>10
  <2>4. Changed(ct, ct2, f, o) /\ Typed(fl, ct2)
    BY <1>14, <2>2, <2>3, TurnedIs
  <2>5. Changed(fl, fl2, f, p) /\ Typed(fl2, ct2)
    BY <1>14, <2>1, <2>4, TurnedIs
  <2> QED BY <2>4, <2>5
<1>16. Sound(u.v, fl2, ct2, {f}, st, whole, With(ch, f, t, Nil))
  <2>1. Came(On(Called(v), fl[f]), ch, Care(v, fl, ct, st, whole, ch, {f}), f, u, t)
    BY <1>6 DEF s, K
  <2>2. Len(o) = p.fsize /\ Len(o) <= bcs * Len(t)
    BY <1>8, <1>10, <1>11, <1>12 DEF Stretched
  <2> QED BY <1>9, <1>10, <1>12, <1>15, <2>1, <2>2, CameSound
<1> QED BY <1>13, <1>16
-----------------------------------------------------------------------------
LEMMA NotIn == Closed \notin FilRec /\ Absent \notin Contents
  BY ClosedAssumption, FilesAssumption DEF Contents

\* An open file that was changed, with the bytes c.
Dirtied(v, f, t, c, p) ==
    /\ p \in FilRec /\ p.written /\ v.dir[p.slot].name = f /\ p.sclust = First(t) /\ Placed(p, t)
    /\ Fits(c, t) /\ Len(c) = p.fsize /\ p.fptr <= p.fsize /\ (p.dirty => p.dsect \in DataSector)

LEMMA ChangedSound ==
    ASSUME NEW v, NEW fl, NEW ct, NEW subj, NEW st, NEW whole, NEW ch,
           Sound(v, fl, ct, subj, st, whole, ch), NEW f \in Names,
           NEW w, NEW ch2, NEW t, NEW c, NEW p, Dirtied(v, f, t, c, p), NEW st2, st => st2,
           Good(w, ch2, Care(v, fl, ct, st, whole, ch, {f})), Ends(v, w, ch, ch2, f), ch2[f] = t,
           ~st2 => Holds(w, t, c, p),
           NEW fl2, NEW ct2, Turned(fl, fl2, f, p), Turned(ct, ct2, f, c)
    PROVE  Sound(w, fl2, ct2, {f}, st2, whole, ch2)
<1>1. Typed(fl, ct)
  BY DEF Sound
<1>2. c \in Contents /\ c # Absent /\ p # Closed /\ p \in FilRec
  BY NotIn DEF Fits, Dirtied
<1>3. Changed(ct, ct2, f, c) /\ Typed(fl, ct2)
  <2>1. c \in Contents \cup {Absent}
    BY <1>2
  <2> QED BY <1>1, <2>1, TurnedIs
<1>4. Changed(fl, fl2, f, p) /\ Typed(fl2, ct2)
  <2>1. p \in FilRec \cup {Closed}
    BY <1>2
  <2> QED BY <1>1, <1>3, <2>1, TurnedIs
<1>5. Opened(w, f, t, c, p)
  <2>1. w.dir = v.dir
    BY DEF Ends
  <2> QED BY <2>1 DEF Opened, Dirtied
<1>6. FileEnds(w, f, ch2[f], c, p, st2)
  BY <1>2, <1>5 DEF FileEnds, FileOk
<1>7. FileStays(w, f, ch2[f], c, p)
  BY <1>2 DEF FileStays, Dirtied
<1>8. Touches(v, w, ch, ch2, {f}) /\ FreeRight(w) /\ ch2[Loose] = Nil /\ ~w.moving
  BY DEF Ends
<1> QED BY <1>3, <1>4, <1>6, <1>7, <1>8, OneEnds

-----------------------------------------------------------------------------
\* What f_write makes of the file.
Marks(u, w) == w = [u EXCEPT !.p.fsize = Max({@, u.p.fptr}), !.p.written = TRUE]
Overwrites2(ct, ct2, f, a, e, d) == ct2 = [ct EXCEPT ![f] = Overwrite(@, a, e, d)]
Marked(p, p2) ==
    /\ p2 \in FilRec /\ p2.fsize = Reach(p) /\ p2.written
    /\ p2.wr = p.wr /\ p2.dirty = p.dirty /\ p2.slot = p.slot /\ p2.sclust = p.sclust /\ p2.fptr = p.fptr
    /\ p2.clust = p.clust /\ p2.dsect = p.dsect /\ p2.buf = p.buf

LEMMA MarkedIs ==
    ASSUME NEW u, u = On(u.v, u.p), u.p \in FilRec, NEW w, Marks(u, w)
    PROVE  w.v = u.v /\ Marked(u.p, w.p)
<1> DEFINE n == Max({u.p.fsize, u.p.fptr})
           y == [u EXCEPT !.p.fsize = n, !.p.written = TRUE]
           p == [u.p EXCEPT !.fsize = n, !.written = TRUE]
<1>1. n = Reach(u.p) /\ n \in Nat
  BY FilFacts, MaxTwo DEF Reach
<1>2. w = y
  BY DEF On, Marks
<1> HIDE DEF n
<1>3. y.v = u.v /\ y.p = p
  BY FieldsOf
<1>4. Marked(u.p, p)
  BY <1>1 DEF Marked, FilRec
<1> HIDE DEF y
<1> QED BY <1>2, <1>3, <1>4

\* f_write.
LEMMA WriteSound ==
    ASSUME NEW v, NEW fl, NEW ct, NEW subj, NEW st, NEW whole, NEW ch,
           Sound(v, fl, ct, subj, st, whole, ch), NEW f \in Names, fl[f] # Closed,
           NEW n \in Nat, NEW d \in Data,
           NEW u, u = WriteBytes(On(Called(v), fl[f]), n, d),
           NEW w, Marks(u, w), NEW fl2, Turned(fl, fl2, f, w.p),
           NEW ct2, Overwrites2(ct, ct2, f, fl[f].fptr, u.p.fptr, d)
    PROVE  \E c2 : Sound(w.v, fl2, ct2, {f}, st, whole, c2)
<1> DEFINE K == Care(v, fl, ct, st, whole, ch, {f})
           s == On(Called(v), fl[f])
           q == fl[f]
           g == ch[f]
           c == ct[f]
           e == u.p.fptr
           o == Overwrite(c, q.fptr, e, d)
<1>1. /\ Works(s, ch, K, f) /\ Placed(s.p, g) /\ s.p = q /\ s.v = Called(v) /\ (~st => Holding(s, g, c))
  BY OpenStarts
<1>2. /\ Opened(v, f, g, c, q) /\ q \in FilRec /\ c # Absent /\ c \in Contents /\ v.dir[q.slot].name = f
  BY OpenFacts
<1>3. q.fptr \in Nat /\ q.fsize \in Nat /\ Len(c) = q.fsize /\ q.fptr <= q.fsize /\ Len(c) <= bcs * Len(g)
      /\ Len(c) \in Nat
  BY <1>2, FilFacts, ContentsFacts DEF Opened, Fits
<1>4. g \in Seq(Cluster)
  BY <1>1, WorksFacts
<1> HIDE DEF s, K, q, c, g
<1>5. PICK t : Written(s, ch, K, f, u, t, d)
  <2>1. Placed(s.p, ch[f]) /\ Works(s, ch, K, f)
    BY <1>1 DEF g
  <2>2. \E t : Written(s, ch, K, f, WriteBytes(s, n, d), t, d)
    BY <2>1, WrittenBytes
  <2> QED BY <2>2 DEF s
<1> DEFINE c1 == With(ch, f, t, Nil)
<1>6. /\ Works(u, c1, K, f) /\ Placed(u.p, t) /\ Still(s.v, u.v) /\ t \in Seq(Cluster) /\ Extends(g, t)
      /\ SameFile(q, u.p) /\ Rewritten(s, g, u, t, d)
  BY <1>1, <1>5 DEF Written, g
<1>7. /\ Good(u.v, c1, K) /\ FreeRight(u.v) /\ u.p \in FilRec /\ u.p.sclust = First(c1[f]) /\ u = On(u.v, u.p)
      /\ (u.p.dirty => u.p.dsect \in DataSector)
  BY <1>6 DEF Works
<1>8. Ends(v, u.v, ch, c1, f) /\ c1[f] = t
  BY <1>1, <1>6, <1>7, OpenEnds
<1> HIDE DEF c1
<1>9. /\ e \in Nat /\ u.p.fsize = q.fsize /\ u.p.slot = q.slot /\ q.fptr <= e
  BY <1>6, <1>7, FilFacts DEF SameFile
<1>10. w.v = u.v /\ Marked(u.p, w.p)
  BY <1>7, MarkedIs
<1>11. Over(c, q.fptr, e, d, o)
  BY <1>2, <1>3, <1>9, OverwriteIs
<1>12. ~st => Holding(u, t, o)
  <2> SUFFICES ASSUME ~st PROVE Holding(u, t, o)
    OBVIOUS
  <2>1. Holding(s, g, c)
    BY <1>1
  <2>2. Reach(s.p) = Len(c)
    BY <1>1, <1>3 DEF Reach
  <2>3. Holding(u, t, Overwrite(c, s.p.fptr, u.p.fptr, d))
    BY <1>2, <1>3, <1>6, <2>1, <2>2 DEF Rewritten
  <2> QED BY <1>1, <2>3
<1> HIDE DEF o
<1>13. o \in Contents /\ Len(o) = Reach(u.p)
  BY <1>3, <1>9, <1>11 DEF Over, Reach
<1>14. Reach(u.p) <= bcs * Len(t)
  <2>1. u.p.fptr <= bcs * Len(t)
    BY <1>6, <1>7, PlacedIn DEF Extends
  <2>2. u.p.fsize <= bcs * Len(t)
    BY <1>3, <1>4, <1>6, <1>9, LongEnough
  <2> QED BY <2>1, <2>2 DEF Reach
<1> DEFINE p == w.p
<1>15. Dirtied(v, f, t, o, p) /\ p \in FilRec
  <2>1. p \in FilRec /\ p.written /\ p.slot = q.slot /\ p.sclust = First(t) /\ p.fsize = Reach(u.p) /\ p.fptr = u.p.fptr
        /\ (p.dirty => p.dsect \in DataSector)
    BY <1>7, <1>8, <1>9, <1>10 DEF Marked
  <2>2. Placed(p, t)
    BY <1>6, <1>10, PlacedAs DEF Marked
  <2>3. u.p.fptr <= Reach(u.p)
    BY <1>7, FilFacts
  <2>4. Fits(o, t)
    BY <1>13, <1>14 DEF Fits
  <2> QED BY <1>2, <1>13, <2>1, <2>2, <2>3, <2>4 DEF Dirtied
<1>16. ~st => Holds(u.v, t, o, p)
  BY <1>10, <1>12, <1>15, HoldsOpen DEF Marked
<1>17. Turned(fl, fl2, f, p) /\ Turned(ct, ct2, f, o)
  <2>1. Typed(fl, ct)
    BY DEF Sound
  <2>2. Turned(ct, ct2, f, o)
    BY <2>1 DEF Typed, Turned, Overwrites2, o, c, q
  <2> QED BY <2>2
<1> HIDE DEF p
<1>18. Sound(u.v, fl2, ct2, {f}, st, whole, c1)
  <2>1. Good(u.v, c1, Care(v, fl, ct, st, whole, ch, {f}))
    BY <1>7 DEF K
  <2>2. st => st
    OBVIOUS
  <2>3. Ends(v, u.v, ch, c1, f) /\ c1[f] = t /\ Dirtied(v, f, t, o, p) /\ (~st => Holds(u.v, t, o, p))
    BY <1>8, <1>15, <1>16
  <2> QED BY <1>17, <2>1, <2>2, <2>3, ChangedSound, SMTT(90)
<1> QED BY <1>10, <1>18
-----------------------------------------------------------------------------
LEMMA HoldsShut ==
    ASSUME NEW s, NEW t \in Seq(Cluster), NEW c, Holding(s, t, c), ~s.p.dirty
    PROVE  Holds(s.v, t, c, Closed)
<1> DEFINE u == On(s.v, Idle)
<1>1. Fil(Closed) = Idle /\ u.v = s.v /\ u.p = Idle /\ ~Idle.dirty /\ Idle.dsect = -1
  BY DEF Fil, On, Idle
<1> HIDE DEF u
<1>2. ASSUME NEW x \in 0 .. Len(c)-1, NEW X, NEW r, c[x+1] # Blank, InSector(t, x, X, r)
      PROVE  Has(u, X, r, c[x+1])
  <2>1. PICK q, k : At(x, q, k, r) /\ q+1 \in 1 .. Len(t) /\ X = clust2sect(t[q+1]) + k
    BY <1>2 DEF InSector
  <2>2. t[q+1] \in Cluster /\ k \in 0 .. CSize-1
    BY <2>1, ListFacts DEF At
  <2>3. X \in DataSector
    BY <2>1, <2>2, SectorIn
  <2>4. X # -1
    BY <2>3 DEF DataSector
  <2>5. s.v.disk.data[X][r] = c[x+1]
    BY <1>2 DEF Holding, Has
  <2> QED BY <1>1, <2>4, <2>5 DEF Has
<1>3. Holding(u, t, c)
  BY <1>1, <1>2 DEF Holding
<1> QED BY <1>1, <1>3 DEF Holds, u

\* f is as it is to be on the disk, and open or not.
LEMMA SameEnds ==
    ASSUME NEW v, NEW f, NEW g, NEW c, NEW p, Opened(v, f, g, c, p), ~p.written, c # Absent
    PROVE  Shut(v, f, g, c) /\ FileOk(v, f, g, c, p) /\ FileOk(v, f, g, c, Closed)
<1>1. p \in FilRec /\ p # Closed
  BY NotIn DEF Opened
<1>2. HasEntry(v, f, g, c)
  <2>1. p.slot \in 1 .. Slots
    BY <1>1 DEF FilRec
  <2> QED BY <2>1 DEF HasEntry, Opened
<1>3. Shut(v, f, g, c)
  BY <1>2 DEF Shut, Opened
<1> QED BY <1>1, <1>3 DEF FileOk

\* A call may have read sectors only before it came to w.
LEMMA CalledBeside ==
    ASSUME NEW v, NEW fl, NEW ct, NEW subj, NEW st, NEW whole, NEW ch,
           Sound(v, fl, ct, subj, st, whole, ch), NEW w, Quiet(Called(v), w)
    PROVE  /\ Beside(v, w) /\ FreeRight(w) /\ w.fat = v.fat /\ \A g \in Names : Untouched(v, w, ch, ch, g)
           /\ w.moving = FALSE
<1> DEFINE F == {}
<1>1. F \in SUBSET Names
  OBVIOUS
<1>2. Beside(v, Called(v)) /\ Called(v).fat = v.fat /\ FreeRight(Called(v))
  BY <1>1, CallStarts
<1>3. Beside(v, w) /\ FreeRight(w) /\ w.fat = v.fat
  BY <1>2 DEF Quiet, Alike, Beside, FreeRight
<1>4. \A g \in Names : Untouched(v, w, ch, ch, g)
  BY <1>3 DEF Beside, Untouched
<1>5. v \in Vols /\ ~v.moving
  BY DEF Sound, Resting, Good
<1>6. v.moving = FALSE
  BY <1>5 DEF Vols, Volumes
<1> QED BY <1>3, <1>4, <1>6 DEF Beside

\* f_sync, and with p = Closed f_close.
LEMMA SyncSound ==
    ASSUME NEW v, NEW fl, NEW ct, NEW subj, NEW st, NEW whole, NEW ch,
           Sound(v, fl, ct, subj, st, whole, ch), NEW f \in Names, fl[f] # Closed,
           NEW u, u = SyncFile(On(Called(v), fl[f])), NEW p \in {u.p, Closed},
           NEW fl2, Turned(fl, fl2, f, p)
    PROVE  \E c2 : Sound(u.v, fl2, ct, {f}, st, whole, c2)
<1> DEFINE K == Care(v, fl, ct, st, whole, ch, {f})
           s == On(Called(v), fl[f])
           q == fl[f]
           g == ch[f]
           c == ct[f]
<1>1. /\ Works(s, ch, K, f) /\ Placed(s.p, g) /\ s.p = q /\ s.v = Called(v) /\ s.p.slot \notin K.slots
      /\ (~st => Holding(s, g, c))
  BY OpenStarts
<1>2. /\ Opened(v, f, g, c, q) /\ q \in FilRec /\ c # Absent /\ c \in Contents
      /\ v.dir[q.slot].name = f /\ q.slot \in 1 .. Slots
  BY OpenFacts
<1>3. g \in Seq(Cluster) /\ ch[Loose] = Nil /\ v \in Vols /\ v.dir \in Dirs(AllNames) /\ ~v.moving
  <2>1. Good(v, ch, Alone(v, ch, {}, {}, whole)) /\ ~v.moving
    BY DEF Sound, Resting
  <2> QED BY <1>1, <2>1, WorksFacts, GoodFacts
<1>4. Quiet(Called(v), Called(v))
  BY QuietSame
<1>5. Beside(v, Called(v)) /\ \A h \in Names : Untouched(v, Called(v), ch, ch, h)
  BY <1>4, CalledBeside
<1>6. u = SyncFile(s)
  OBVIOUS
<1>7. Typed(fl, ct)
  BY DEF Sound
<1> HIDE DEF s, K, q, c, g
<1>8. ASSUME u.p \in FilRec PROVE Typed(fl2, ct) /\ Changed(fl, fl2, f, p) /\ Changed(ct, ct, f, c)
  <2>1. p \in FilRec \cup {Closed}
    BY <1>8
  <2>2. Changed(ct, ct, f, c)
    BY ChangedNot DEF c
  <2>3. Changed(fl, fl2, f, p) /\ Typed(fl2, ct)
    BY <1>7, <2>1, TurnedIs
  <2> QED BY <2>2, <2>3
<1>9. CASE ~q.written
  <2>1. u = s
    BY <1>1, <1>6, <1>9 DEF SyncFile
  <2>2. FileOk(v, f, ch[f], c, p)
    <3>1. FileOk(v, f, g, c, q) /\ FileOk(v, f, g, c, Closed)
      BY <1>2, <1>9, SameEnds
    <3> QED BY <1>1, <2>1, <3>1 DEF g
  <2>3. FileOk(u.v, f, ch[f], c, p)
    BY <1>1, <1>5, <2>1, <2>2, FileOkSame
  <2>4. ~q.dirty
    BY <1>2, <1>9 DEF Opened
  <2>5. ~st => Holds(u.v, g, c, p)
    <3> SUFFICES ASSUME ~st PROVE Holds(u.v, g, c, p)
      OBVIOUS
    <3>1. Holds(s.v, g, c, Closed)
      BY <1>1, <1>3, <2>4, HoldsShut
    <3>2. Holds(s.v, g, c, q)
      BY <1>1, <1>2, HoldsOpen
    <3> QED BY <1>1, <2>1, <3>1, <3>2
  <2>6. FileEnds(u.v, f, ch[f], c, p, st)
    BY <2>3, <2>5 DEF FileEnds, g
  <2>7. Settled(fl, ct, f)
    BY <1>2, <1>9 DEF Settled, c, q
  <2>8. Quiet(Called(v), u.v)
    BY <1>1, <1>4, <2>1
  <2>9. Typed(fl2, ct) /\ Changed(fl, fl2, f, p) /\ Changed(ct, ct, f, c)
    BY <1>1, <1>2, <1>8, <2>1
  <2>10. Sound(u.v, fl2, ct, {f}, st, whole, ch)
    BY <2>6, <2>7, <2>8, <2>9, QuietEnds, SMTT(90)
  <2> QED BY <2>10
<1>10. CASE q.written
  <2>1. s.v.dir = v.dir /\ s.v.cut = v.cut
    BY <1>1, <1>5 DEF Beside
  <2>2. Synced(s, ch, K, f, u)
    BY <1>1, <1>2, <1>6, <1>10, <2>1, SyncWorks
  <2> DEFINE e == Entry(f, q.sclust, q.fsize)
  <2>3. /\ Works(u, ch, K, f) /\ ~u.p.dirty /\ ~u.p.written /\ u.p.slot = q.slot /\ u.p.fsize = q.fsize
        /\ u.p.fptr = q.fptr /\ u.p.clust = q.clust /\ u.p.dsect = q.dsect /\ u.p.sclust = q.sclust
        /\ u.v.dir = [v.dir EXCEPT ![q.slot] = e] /\ u.v.cut = v.cut \ {f} /\ u.v.moving = s.v.moving
        /\ u.v.disk = Seen(u.v) /\ (~st => Holding(u, g, c))
    BY <1>1, <1>2, <2>1, <2>2 DEF Synced, g
  <2>4. Good(u.v, ch, K) /\ FreeRight(u.v) /\ u.p \in FilRec
    BY <2>3 DEF Works
  <2>5. e.name = f /\ e = Entry(f, First(g), Len(c))
    BY <1>2 DEF Entry, Opened
  <2> HIDE DEF e
  <2>6. DOMAIN v.dir = 1 .. Slots
    BY <1>3 DEF Dirs
  <2>7. u.v.dir[q.slot] = e /\ \A i \in 1 .. Slots : i # q.slot => u.v.dir[i] = v.dir[i]
    BY <1>2, <2>3, <2>6
  <2>8. Touches(v, u.v, ch, ch, {f})
    <3> SUFFICES ASSUME NEW h \in Names \ {f} PROVE Untouched(v, u.v, ch, ch, h)
      BY DEF Touches
    <3>1. h \in u.v.cut <=> h \in v.cut
      BY <2>3
    <3>2. \A i \in 1 .. Slots : v.dir[i].name = h \/ u.v.dir[i].name = h => u.v.dir[i] = v.dir[i]
      BY <1>2, <2>5, <2>7
    <3> QED BY <3>1, <3>2 DEF Untouched
  <2>9. Opened(u.v, f, g, c, u.p)
    <3>1. Placed(u.p, g)
      BY <1>1, <2>3, PlacedAs
    <3>2. f \notin u.v.cut
      BY <2>3
    <3> QED BY <1>2, <2>3, <2>4, <2>5, <2>7, <3>1, <3>2 DEF Opened
  <2>10. FileOk(u.v, f, g, c, p)
    BY <1>2, <2>3, <2>9, SameEnds
  <2>11. ~st => Holds(u.v, g, c, p)
    <3> SUFFICES ASSUME ~st PROVE Holds(u.v, g, c, p)
      OBVIOUS
    <3>1. Holds(u.v, g, c, Closed)
      BY <1>3, <2>3, HoldsShut
    <3>2. Holds(u.v, g, c, u.p)
      BY <2>3, <2>4, HoldsOpen
    <3> QED BY <3>1, <3>2
  <2>12. FileEnds(u.v, f, ch[f], c, p, st)
    BY <2>10, <2>11 DEF FileEnds, g
  <2>13. OnDisk(u.v, f, g)
    <3>1. u.v.disk.dir = u.v.dir /\ u.v.disk.fat = u.v.fat
      BY <2>3 DEF Seen
    <3> QED BY <3>1 DEF OnDisk
  <2>14. FileStays(u.v, f, ch[f], c, p)
    BY <2>13 DEF FileStays, g
  <2>15. Typed(fl2, ct) /\ Changed(fl, fl2, f, p) /\ Changed(ct, ct, f, c)
    BY <1>8, <2>4
  <2>16. ~u.v.moving
    BY <1>1, <1>3, <1>5, <2>3 DEF Beside
  <2>17. Good(u.v, ch, Care(v, fl, ct, st, whole, ch, {f})) /\ (st => st)
    BY <2>4 DEF K
  <2>18. Sound(u.v, fl2, ct, {f}, st, whole, ch)
    BY <1>3, <2>4, <2>8, <2>12, <2>14, <2>15, <2>16, <2>17, OneEnds, SMTT(90)
  <2> QED BY <2>18
<1> QED BY <1>9, <1>10
-----------------------------------------------------------------------------
LEMMA EntryIs ==
    ASSUME NEW f, NEW n, NEW m
    PROVE  Entry(f, n, m).name = f /\ Entry(f, n, m).sclust = n /\ Entry(f, n, m).size = m
  BY DEF Entry

\* A call about a file f that is not open begins with looking for its entry.
LEMMA FindStarts ==
    ASSUME NEW v, NEW fl, NEW ct, NEW subj, NEW st, NEW whole, NEW ch,
           Sound(v, fl, ct, subj, st, whole, ch), NEW f
    PROVE  Quiet(Called(v), dir_find(Called(v), f))
<1> DEFINE F == {}
<1>1. F \in SUBSET Names
  OBVIOUS
<1>2. Good(Called(v), ch, Care(v, fl, ct, st, whole, ch, F))
  BY <1>1, CallStarts
<1> QED BY <1>2, FindQuiet

\* What looking for the entry of a file finds.
Finds(v, w, ch, ct, K, f, i) ==
    /\ ct[f] = Absent => i = 0 /\ Gone(v, f, ch[f])
    /\ ct[f] # Absent => /\ i \in 1 .. Slots /\ w.dir[i] = Entry(f, First(ch[f]), Len(ct[f]))
                         /\ Shut(v, f, ch[f], ct[f]) /\ Entitled(w, ch, K, f, i)

LEMMA EntryStarts ==
    ASSUME NEW v, NEW fl, NEW ct, NEW subj, NEW st, NEW whole, NEW ch,
           Sound(v, fl, ct, subj, st, whole, ch), NEW f \in Names, fl[f] = Closed,
           NEW w, Quiet(Called(v), w), NEW i, i = Slot(w, f)
    PROVE  Finds(v, w, ch, ct, Care(v, fl, ct, st, whole, ch, {f}), f, i)
<1> DEFINE K == Care(v, fl, ct, st, whole, ch, {f})
<1>1. {f} \in SUBSET Names
  OBVIOUS
<1>2. Good(Called(v), ch, K) /\ Aside(K, ch, f)
  BY <1>1, CallStarts
<1>3. Good(w, ch, K)
  BY <1>2 DEF Quiet
<1>4. w.dir = v.dir /\ FreeRight(w)
  BY CalledBeside DEF Beside
<1>5. w.dir \in Dirs(AllNames) /\ Unique(w.dir)
  BY <1>3, GoodFacts
<1>6. /\ \A j \in 1 .. Slots : w.dir[j].name = f => Slot(w, f) = j
      /\ Slot(w, f) # 0 => Slot(w, f) \in 1 .. Slots /\ w.dir[Slot(w, f)].name = f
  BY <1>5, SlotIs
<1>7. FileOk(v, f, ch[f], ct[f], fl[f]) /\ ch[Loose] = Nil
  BY DEF Sound, Resting
<1> HIDE DEF K
<1>8. CASE ct[f] = Absent
  <2>1. Gone(v, f, ch[f])
    BY <1>7, <1>8 DEF FileOk
  <2>2. \A j \in 1 .. Slots : w.dir[j].name # f
    BY <1>4, <2>1 DEF Gone
  <2> QED BY <1>6, <1>8, <2>1, <2>2 DEF Finds
<1>9. CASE ct[f] # Absent
  <2>1. Shut(v, f, ch[f], ct[f])
    BY <1>7, <1>9 DEF FileOk
  <2>2. PICK j \in 1 .. Slots : w.dir[j] = Entry(f, First(ch[f]), Len(ct[f]))
    BY <1>4, <2>1 DEF Shut, HasEntry
  <2>3. w.dir[j].name = f /\ w.dir[j].sclust = First(ch[f])
    BY <2>2, EntryIs
  <2>4. i = j
    BY <1>6, <2>3
  <2>5. i \notin K.slots
    BY <1>4, <2>3, <2>4, CareSlots DEF K
  <2>6. Entitled(w, ch, K, f, i)
    BY <1>2, <1>3, <1>4, <1>7, <2>3, <2>4, <2>5 DEF Entitled
  <2> QED BY <1>9, <2>1, <2>2, <2>4, <2>6 DEF K, Finds
<1> QED BY <1>8, <1>9

-----------------------------------------------------------------------------
\* Only the entry i, of f or of no file, was changed.
LEMMA EntryTouches ==
    ASSUME NEW v, NEW w, NEW ch, NEW ch2, NEW f \in Names, NEW i,
           \A j \in 1 .. Slots : j # i => w.dir[j] = v.dir[j],
           v.dir[i].name \in {f, End, Dde}, w.dir[i].name \in {f, End, Dde},
           w.cut = v.cut, \A g \in Names \ {f} : ch2[g] = ch[g]
    PROVE  Touches(v, w, ch, ch2, {f})
<1> SUFFICES ASSUME NEW g \in Names \ {f} PROVE Untouched(v, w, ch, ch2, g)
  BY DEF Touches
<1>1. g \notin {f, End, Dde}
  BY NameFacts
<1>2. \A j \in 1 .. Slots : v.dir[j].name = g \/ w.dir[j].name = g => w.dir[j] = v.dir[j]
  BY <1>1
<1> QED BY <1>2 DEF Untouched

LEMMA WithOthers ==
    ASSUME NEW ch, ch \in [Holders -> Seq(Cluster)], NEW f \in Names, NEW t \in Seq(Cluster)
    PROVE  /\ \A g \in Names \ {f} : With(ch, f, t, Nil)[g] = ch[g]
           /\ With(ch, f, t, Nil)[f] = t /\ With(ch, f, t, Nil)[Loose] = Nil
<1>1. Nil \in Seq(Cluster)
  BY NilIs
<1>2. /\ With(ch, f, t, Nil)[f] = t /\ With(ch, f, t, Nil)[Loose] = Nil
      /\ \A g \in Holders : g # f /\ g # Loose => With(ch, f, t, Nil)[g] = ch[g]
  BY <1>1, WithIs
<1>3. \A g \in Names \ {f} : g \in Holders /\ g # f /\ g # Loose
  BY NameFacts
<1> QED BY <1>2, <1>3

\* w is v, but for the entry i, which f has or is to have.
Readied(v, w, f, i) ==
    /\ \A j \in 1 .. Slots : j # i => w.dir[j] = v.dir[j]
    /\ v.dir[i].name \in {f, End, Dde} /\ w.cut = v.cut /\ w.moving = FALSE

Bared(v, w, u, ch, c2, K, f, i, e) ==
    /\ Good(u, c2, K) /\ Touches(v, u, ch, c2, {f}) /\ FreeRight(u) /\ c2[Loose] = Nil /\ ~u.moving
    /\ c2[f] = Nil /\ u.dir[i] = e /\ u.dir \in Dirs(AllNames) /\ u.cut = v.cut
    /\ \A j \in 1 .. Slots : j # i => u.dir[j] = w.dir[j] /\ w.dir[j].name # f

\* What is left when the file f has no clusters.
LEMMA BareEnds ==
    ASSUME NEW v, NEW w, NEW ch, NEW K, NEW f \in Names, NEW i, Entitled(w, ch, K, f, i),
           Readied(v, w, f, i),
           NEW u, NEW e, e.name \in {f, End, Dde}, Bare(w, u, ch, K, f, i, e), NEW c2, c2 = With(ch, f, Nil, Nil)
    PROVE  Bared(v, w, u, ch, c2, K, f, i, e)
<1>1. Good(w, ch, K) /\ i \in 1 .. Slots /\ w.dir[i].name = f
  BY DEF Entitled
<1>2. ch \in [Holders -> Seq(Cluster)] /\ w.dir \in Dirs(AllNames) /\ Unique(w.dir)
  BY <1>1, GoodFacts
<1>3. c2[f] = Nil /\ c2[Loose] = Nil /\ \A g \in Names \ {f} : c2[g] = ch[g]
  <2>1. Nil \in Seq(Cluster)
    BY NilIs
  <2> QED BY <1>2, <2>1, WithOthers
<1>4. /\ Good(u, c2, K) /\ FreeRight(u) /\ u.dir = [w.dir EXCEPT ![i] = e] /\ u.cut = w.cut /\ u.moving = w.moving
  BY DEF Bare
<1>5. u.dir[i] = e /\ (\A j \in 1 .. Slots : j # i => u.dir[j] = w.dir[j])
  <2>1. DOMAIN w.dir = 1 .. Slots
    BY <1>2 DEF Dirs
  <2> QED BY <1>1, <1>4, <2>1
<1>6. \A j \in 1 .. Slots : j # i => w.dir[j].name # f
  BY <1>1, <1>2, OnlySlot
<1>7. (\A j \in 1 .. Slots : j # i => u.dir[j] = v.dir[j]) /\ v.dir[i].name \in {f, End, Dde}
  BY <1>5 DEF Readied
<1>8. u.cut = v.cut /\ u.moving = FALSE /\ u.dir[i].name \in {f, End, Dde}
  BY <1>4, <1>5 DEF Readied
<1>9. Touches(v, u, ch, c2, {f})
  BY <1>3, <1>7, <1>8, EntryTouches
<1>10. u.dir \in Dirs(AllNames)
  BY <1>4, GoodFacts
<1> QED BY <1>3, <1>4, <1>5, <1>6, <1>8, <1>9, <1>10 DEF Bared

\* f_unlink.
LEMMA UnlinkSound ==
    ASSUME NEW v, NEW fl, NEW ct, NEW subj, NEW st, NEW whole, NEW ch,
           Sound(v, fl, ct, subj, st, whole, ch), NEW f \in Names, fl[f] = Closed, ct[f] # Absent,
           NEW w, w = dir_find(Called(v), f), NEW u, u = sync(Unlinked(w, Slot(w, f))),
           NEW ct2, Turned(ct, ct2, f, Absent)
    PROVE  \E c2 : Sound(u, fl, ct2, {f}, st, whole, c2)
<1> DEFINE K == Care(v, fl, ct, st, whole, ch, {f})
           i == Slot(w, f)
           e == [w.dir[i] EXCEPT !.name = Dde]
           c2 == With(ch, f, Nil, Nil)
<1>1. Quiet(Called(v), w)
  BY FindStarts
<1>2. i \in 1 .. Slots /\ Shut(v, f, ch[f], ct[f]) /\ Entitled(w, ch, K, f, i)
  <2>1. Finds(v, w, ch, ct, K, f, i)
    BY <1>1, EntryStarts
  <2> QED BY <2>1 DEF Finds
<1>3. w.dir = v.dir /\ w.cut = v.cut /\ w.moving = FALSE
  BY <1>1, CalledBeside DEF Beside
<1> HIDE DEF i, K
<1>4. Bare(w, u, ch, K, f, i, e)
  <2>1. Bare(w, sync(Unlinked(w, i)), ch, K, f, i, [w.dir[i] EXCEPT !.name = Dde])
    BY <1>2, UnlinkedBare
  <2> QED BY <2>1 DEF i
<1>5. w.dir[i].name = f /\ e.name = Dde
  <2>1. w.dir[i].name = f /\ Good(w, ch, K)
    BY <1>2 DEF Entitled
  <2>2. w.dir \in Dirs(AllNames)
    BY <2>1, GoodFacts
  <2> QED BY <1>2, <2>1, <2>2 DEF Dirs, Entries
<1> HIDE DEF e, c2
<1>6. /\ Good(u, c2, K) /\ Touches(v, u, ch, c2, {f}) /\ FreeRight(u) /\ c2[Loose] = Nil /\ ~u.moving
      /\ c2[f] = Nil /\ u.dir[i] = e /\ u.cut = v.cut
      /\ \A j \in 1 .. Slots : j # i => u.dir[j] = w.dir[j] /\ w.dir[j].name # f
  <2>1. Readied(v, w, f, i) /\ e.name \in {f, End, Dde}
    BY <1>3, <1>5 DEF Readied
  <2>2. c2 = With(ch, f, Nil, Nil)
    BY DEF c2
  <2>3. Bared(v, w, u, ch, c2, K, f, i, e)
    BY <1>2, <1>4, <2>1, <2>2, BareEnds
  <2> QED BY <2>3 DEF Bared
<1>7. Gone(u, f, c2[f])
  <2>1. \A j \in 1 .. Slots : u.dir[j].name # f
    BY <1>5, <1>6, NameFacts
  <2>2. f \notin u.cut
    BY <1>2, <1>6 DEF Shut
  <2> QED BY <1>6, <2>1, <2>2 DEF Gone
<1>8. FileEnds(u, f, c2[f], Absent, Closed, st) /\ FileStays(u, f, c2[f], Absent, Closed)
  BY <1>7 DEF FileEnds, FileOk, Holds, FileStays
<1>9. Typed(fl, ct)
  BY DEF Sound
<1>10. Typed(fl, ct2) /\ Changed(ct, ct2, f, Absent) /\ Changed(fl, fl, f, Closed)
  <2>1. Absent \in Contents \cup {Absent}
    OBVIOUS
  <2>2. Changed(fl, fl, f, Closed)
    BY ChangedNot
  <2> QED BY <1>9, <2>1, <2>2, TurnedIs
<1>11. Good(u, c2, Care(v, fl, ct, st, whole, ch, {f})) /\ (st => st)
  BY <1>6 DEF K
<1>12. Sound(u, fl, ct2, {f}, st, whole, c2)
  BY <1>6, <1>8, <1>10, <1>11, OneEnds, SMTT(90)
<1> QED BY <1>12
-----------------------------------------------------------------------------
\* The FIL of a file that was opened, with the entry i.
FilOf(u, i, wr, b) ==
    [wr |-> wr, written |-> b, dirty |-> FALSE,
     slot |-> i, sclust |-> u.dir[i].sclust, fsize |-> u.dir[i].size,
     fptr |-> 0, clust |-> 0, dsect |-> -1, buf |-> Bytes(Blank)]

Fresh(p, u, i, b) ==
    /\ p \in FilRec /\ p.written = b /\ p.dirty = FALSE /\ p.slot = i /\ p.sclust = u.dir[i].sclust
    /\ p.fsize = u.dir[i].size /\ p.fptr = 0 /\ p.dsect = -1 /\ p.buf = Bytes(Blank)

LEMMA FreshIs ==
    ASSUME NEW u, u.dir \in Dirs(AllNames), NEW i \in 1 .. Slots, NEW wr \in BOOLEAN, NEW b \in BOOLEAN
    PROVE  Fresh(FilOf(u, i, wr, b), u, i, b)
<1>1. u.dir[i].sclust \in {0} \cup Cluster /\ u.dir[i].size \in Nat
  BY DEF Dirs, Entries
<1>2. Bytes(Blank) \in Buffers
  BY DEF Bytes, Buffers
<1> QED BY <1>1, <1>2 DEF Fresh, FilOf, FilRec

LEMMA PlacedFresh ==
    ASSUME NEW p, p.fptr = 0, NEW g
    PROVE  Placed(p, g)
<1>1. 0 % SS = 0
  BY Sizes1
<1> QED BY <1>1 DEF Placed

\* f_open without a file of that name.
LEMMA OpenNone ==
    ASSUME NEW v, NEW fl, NEW ct, NEW subj, NEW st, NEW whole, NEW ch,
           Sound(v, fl, ct, subj, st, whole, ch), NEW f \in Names, fl[f] = Closed,
           NEW w, w = dir_find(Called(v), f), Slot(w, f) = 0
    PROVE  Sound(w, fl, ct, {f}, st, whole, ch)
<1>1. Quiet(Called(v), w)
  BY FindStarts
<1>2. ct[f] = Absent /\ Gone(v, f, ch[f])
  <2>1. Finds(v, w, ch, ct, Care(v, fl, ct, st, whole, ch, {f}), f, Slot(w, f))
    BY <1>1, EntryStarts
  <2> QED BY <2>1 DEF Finds
<1>3. Untouched(v, w, ch, ch, f)
  BY <1>1, CalledBeside
<1>4. FileOk(v, f, ch[f], Absent, Closed)
  BY <1>2 DEF FileOk
<1>5. FileOk(w, f, ch[f], Absent, Closed)
  BY <1>3, <1>4, FileOkSame
<1>6. FileEnds(w, f, ch[f], Absent, Closed, st)
  BY <1>5 DEF FileEnds, Holds
<1>7. Typed(fl, ct) /\ Changed(fl, fl, f, Closed) /\ Changed(ct, ct, f, Absent)
  BY <1>2 DEF Sound, Changed
<1>8. Absent # Absent => Settled(fl, ct, f)
  OBVIOUS
<1> QED BY <1>1, <1>6, <1>7, <1>8, QuietEnds, SMTT(90)

\* f_open of a file as it is.
LEMMA OpenKeeps ==
    ASSUME NEW v, NEW fl, NEW ct, NEW subj, NEW st, NEW whole, NEW ch,
           Sound(v, fl, ct, subj, st, whole, ch), NEW f \in Names, fl[f] = Closed,
           NEW w, w = dir_find(Called(v), f), Slot(w, f) # 0,
           NEW p, Fresh(p, w, Slot(w, f), FALSE), NEW fl2, Turned(fl, fl2, f, p)
    PROVE  Sound(w, fl2, ct, {f}, st, whole, ch)
<1> DEFINE i == Slot(w, f)
           g == ch[f]
           c == ct[f]
<1>1. Quiet(Called(v), w)
  BY FindStarts
<1>0. i = Slot(w, f) /\ i # 0 /\ g = ch[f] /\ c = ct[f]
  OBVIOUS
<1> HIDE DEF i
<1>2. c # Absent /\ i \in 1 .. Slots /\ w.dir[i] = Entry(f, First(g), Len(c)) /\ Shut(v, f, g, c)
  <2>1. Finds(v, w, ch, ct, Care(v, fl, ct, st, whole, ch, {f}), f, i)
    BY <1>0, <1>1, EntryStarts
  <2> QED BY <1>0, <2>1 DEF Finds
<1>3. w.dir = v.dir /\ w.cut = v.cut /\ w.disk.data = v.disk.data
  BY <1>1, CalledBeside DEF Beside
<1> HIDE DEF i, g, c
<1>4. w.dir[i].name = f /\ w.dir[i].sclust = First(g) /\ w.dir[i].size = Len(c)
  BY <1>2, EntryIs
<1>5. /\ p \in FilRec /\ p.written = FALSE /\ p.dirty = FALSE /\ p.slot = i /\ p.sclust = First(g) /\ p.fsize = Len(c)
      /\ p.fptr = 0 /\ p.dsect = -1 /\ p.buf = Bytes(Blank)
  BY <1>4 DEF Fresh, i
<1>6. Placed(p, g)
  BY <1>5, PlacedFresh
<1>7. Fits(c, g) /\ f \notin w.cut /\ Len(c) \in Nat
  BY <1>2, <1>3, ContentsFacts DEF Shut, Fits
<1>8. Opened(w, f, g, c, p)
  BY <1>2, <1>4, <1>5, <1>6, <1>7 DEF Opened
<1>9. p # Closed
  BY <1>5, NotIn
<1>10. ~st => Holds(w, g, c, p)
  <2> SUFFICES ASSUME ~st PROVE Holds(w, g, c, p)
    OBVIOUS
  <2>1. Holds(v, g, c, Closed)
    BY DEF Sound, g, c
  <2>2. Holding(On(v, Idle), g, c)
    BY <1>2, <2>1 DEF Holds, Fil
  <2>3. On(w, p).v = w /\ On(w, p).p = p /\ On(v, Idle).v = v /\ On(v, Idle).p = Idle
    BY DEF On
  <2>4. p.dirty = Idle.dirty /\ p.dsect = Idle.dsect /\ p.buf = Idle.buf
    BY <1>5 DEF Idle
  <2>5. Holding(On(w, p), g, c)
    BY <1>3, <2>2, <2>3, <2>4, HoldingFil
  <2> QED BY <1>9, <2>5 DEF Holds, Fil
<1>11. FileEnds(w, f, ch[f], c, p, st)
  BY <1>2, <1>8, <1>9, <1>10 DEF FileEnds, FileOk, g
<1>12. Typed(fl2, ct) /\ Changed(fl, fl2, f, p) /\ Changed(ct, ct, f, c)
  <2>1. Typed(fl, ct) /\ p \in FilRec \cup {Closed}
    BY <1>5 DEF Sound
  <2>2. Changed(ct, ct, f, c)
    BY ChangedNot DEF c
  <2> QED BY <2>1, <2>2, TurnedIs
<1>13. c # Absent => Settled(fl, ct, f)
  BY DEF Settled, c
<1> QED BY <1>1, <1>11, <1>12, <1>13, QuietEnds, SMTT(90)
-----------------------------------------------------------------------------
\* The entry that f_open makes for a new file.
LEMMA RegisterStarts ==
    ASSUME NEW v, NEW fl, NEW ct, NEW subj, NEW st, NEW whole, NEW ch,
           Sound(v, fl, ct, subj, st, whole, ch), NEW f \in Names, ct[f] = Absent, fl[f] = Closed,
           NEW F \in SUBSET Names, f \in F,
           NEW w, Quiet(Called(v), w), NEW u, u = dir_register(w, f), NEW i, i = Slot(u, f)
    PROVE  /\ Good(u, ch, Care(v, fl, ct, st, whole, ch, F)) /\ Registered(w, u, f, i)
           /\ i \in 1 .. Slots /\ u.dir[i] = Entry(f, 0, 0) /\ ch[f] = Nil
           /\ \A j \in 1 .. Slots : j # i => u.dir[j] = v.dir[j]
           /\ v.dir[i].name \in {End, Dde} /\ Aside(Care(v, fl, ct, st, whole, ch, F), ch, f)
           /\ f \notin v.cut
           /\ i \notin Care(v, fl, ct, st, whole, ch, F).slots
<1> DEFINE K == Care(v, fl, ct, st, whole, ch, F)
<1>1. Good(Called(v), ch, K) /\ Aside(K, ch, f)
  BY CallStarts
<1>2. Good(w, ch, K)
  BY <1>1 DEF Quiet
<1>3. w.dir = v.dir
  BY CalledBeside DEF Beside
<1>4. Gone(v, f, ch[f])
  <2>1. Finds(v, w, ch, ct, Care(v, fl, ct, st, whole, ch, {f}), f, Slot(w, f))
    BY EntryStarts
  <2> QED BY <2>1 DEF Finds
<1>5. (\A j \in 1 .. Slots : w.dir[j].name # f) /\ ch[f] = Nil /\ f \notin v.cut
  BY <1>3, <1>4 DEF Gone
<1>6. \A j \in 1 .. Slots : v.dir[j].name \in {End, Dde} => j \notin K.slots
  BY CareSlots
<1> HIDE DEF K
<1>7. K.slots \cap Blanks(w.dir) = {}
  BY <1>3, <1>6 DEF Blanks
<1>8. PICK k : Registered(w, u, f, k)
  BY <1>2, <1>5, <1>7, RegisterGood
<1>9. Good(u, ch, K)
  BY <1>2, <1>5, <1>7, RegisterGood
<1> DEFINE e == Entry(f, 0, 0)
<1>10. k \in 1 .. Slots /\ w.dir[k].name \in {End, Dde} /\ u.dir = [w.dir EXCEPT ![k] = e]
  BY <1>8 DEF Registered, Blanks
<1>11. w.dir \in Dirs(AllNames) /\ u.dir \in Dirs(AllNames) /\ Unique(u.dir)
  BY <1>2, <1>9, GoodFacts
<1>12. e.name = f
  BY EntryIs
<1> HIDE DEF e
<1>13. u.dir[k] = e /\ \A j \in 1 .. Slots : j # k => u.dir[j] = w.dir[j]
  <2>1. DOMAIN w.dir = 1 .. Slots
    BY <1>11 DEF Dirs
  <2> QED BY <1>10, <2>1
<1>14. i = k
  <2>1. u.dir[k].name = f
    BY <1>12, <1>13
  <2> QED BY <1>10, <1>11, <2>1, SlotIs
<1> QED BY <1>1, <1>3, <1>5, <1>6, <1>8, <1>9, <1>10, <1>13, <1>14 DEF K, e
-----------------------------------------------------------------------------
LEMMA NilFits ==
    /\ Nil \in Contents /\ Len(Nil) = 0 /\ Nil # Absent /\ Fits(Nil, Nil)
    /\ \A s : ~s.p.dirty => Holding(s, Nil, Nil)
<1>1. Nil \in Contents /\ Len(Nil) = 0
  BY DEF Nil, Contents
<1>2. Nil # Absent
  BY <1>1, NotIn
<1>3. Fits(Nil, Nil)
  BY <1>1, Sizes1 DEF Fits
<1>4. ASSUME NEW s, ~s.p.dirty PROVE Holding(s, Nil, Nil)
  BY <1>1, <1>4 DEF Holding
<1> QED BY <1>1, <1>2, <1>3, <1>4

\* The entry i of f, or a new one, may be overwritten.
Prepared(v, w, ch, K, f, i) == Entitled(w, ch, K, f, i) /\ Readied(v, w, f, i) /\ f \notin v.cut

\* f_open of a new file, or of one that is overwritten: it has the entry i, and
\* gets an empty one.
LEMMA OverSound ==
    ASSUME NEW v, NEW fl, NEW ct, NEW subj, NEW st, NEW whole, NEW ch,
           Sound(v, fl, ct, subj, st, whole, ch), NEW f \in Names,
           NEW w, NEW i, Prepared(v, w, ch, Care(v, fl, ct, st, whole, ch, {f}), f, i),
           NEW u, u = Overwrites(w, f, i), NEW p, Fresh(p, u, i, TRUE),
           NEW fl2, Turned(fl, fl2, f, p), NEW ct2, Turned(ct, ct2, f, Nil)
    PROVE  \E c2 : Sound(u, fl2, ct2, {f}, st, whole, c2)
<1> DEFINE K == Care(v, fl, ct, st, whole, ch, {f})
           e == Entry(f, 0, 0)
           c2 == With(ch, f, Nil, Nil)
<1>1. Entitled(w, ch, K, f, i) /\ Readied(v, w, f, i) /\ f \notin v.cut
  BY DEF Prepared
<1> HIDE DEF K
<1>2. Bare(w, u, ch, K, f, i, e)
  BY <1>1, OverwritesBare
<1>3. e.name = f /\ e.sclust = 0 /\ e.size = 0
  BY EntryIs
<1> HIDE DEF e, c2
<1>4. Bared(v, w, u, ch, c2, K, f, i, e)
  <2>1. e.name \in {f, End, Dde}
    BY <1>3
  <2>2. c2 = With(ch, f, Nil, Nil)
    BY DEF c2
  <2> QED BY <1>1, <1>2, <2>1, <2>2, BareEnds
<1>5. /\ Good(u, c2, K) /\ Touches(v, u, ch, c2, {f}) /\ FreeRight(u) /\ c2[Loose] = Nil /\ ~u.moving
      /\ c2[f] = Nil /\ u.dir[i] = e /\ u.cut = v.cut
  BY <1>4 DEF Bared
<1>6. /\ p \in FilRec /\ p.written /\ p.dirty = FALSE /\ p.slot = i /\ p.sclust = 0
      /\ p.fsize = 0 /\ p.fptr = 0
  BY <1>3, <1>5 DEF Fresh
<1>7. Opened(u, f, Nil, Nil, p)
  <2>1. Placed(p, Nil)
    BY <1>6, PlacedFresh
  <2>2. u.dir[p.slot].name = f /\ f \notin u.cut
    BY <1>1, <1>3, <1>5, <1>6
  <2> QED BY <1>6, <2>1, <2>2, NilFits, NilIs DEF Opened
<1>8. p # Closed
  BY <1>6, NotIn
<1>9. Holds(u, Nil, Nil, p)
  <2>1. Fil(p) = p /\ On(u, p).p = p
    BY <1>8 DEF Fil, On
  <2>2. ~On(u, p).p.dirty
    BY <1>6, <2>1
  <2> QED BY <2>1, <2>2, NilFits DEF Holds
<1>10. FileEnds(u, f, c2[f], Nil, p, st) /\ FileStays(u, f, c2[f], Nil, p)
  BY <1>5, <1>6, <1>7, <1>8, <1>9, NilFits DEF FileEnds, FileOk, FileStays
<1>11. Typed(fl2, ct2) /\ Changed(fl, fl2, f, p) /\ Changed(ct, ct2, f, Nil)
  <2>1. Typed(fl, ct) /\ p \in FilRec \cup {Closed} /\ Nil \in Contents \cup {Absent}
    BY <1>6, NilFits DEF Sound
  <2>2. Changed(fl, fl2, f, p) /\ Typed(fl2, ct)
    BY <2>1, TurnedIs
  <2>3. Changed(ct, ct2, f, Nil) /\ Typed(fl, ct2)
    BY <2>1, TurnedIs
  <2> QED BY <2>2, <2>3 DEF Typed
<1>12. Good(u, c2, Care(v, fl, ct, st, whole, ch, {f})) /\ (st => st)
  BY <1>5 DEF K
<1>13. Sound(u, fl2, ct2, {f}, st, whole, c2)
  BY <1>5, <1>10, <1>11, <1>12, OneEnds, SMTT(90)
<1> QED BY <1>13
-----------------------------------------------------------------------------
\* The entry that is overwritten.
LEMMA OldPrepared ==
    ASSUME NEW v, NEW fl, NEW ct, NEW subj, NEW st, NEW whole, NEW ch,
           Sound(v, fl, ct, subj, st, whole, ch), NEW f \in Names, fl[f] = Closed,
           NEW w, w = dir_find(Called(v), f), NEW i, i = Slot(w, f), i # 0
    PROVE  Prepared(v, w, ch, Care(v, fl, ct, st, whole, ch, {f}), f, i)
<1> DEFINE K == Care(v, fl, ct, st, whole, ch, {f})
<1>1. Quiet(Called(v), w)
  BY FindStarts
<1>2. Finds(v, w, ch, ct, K, f, i)
  BY <1>1, EntryStarts
<1>3. w.dir = v.dir /\ w.cut = v.cut /\ w.moving = FALSE
  BY <1>1, CalledBeside DEF Beside
<1> HIDE DEF K
<1>4. Entitled(w, ch, K, f, i) /\ w.dir[i] = Entry(f, First(ch[f]), Len(ct[f])) /\ f \notin v.cut
  BY <1>2 DEF Finds, Shut
<1>5. Readied(v, w, f, i)
  BY <1>3, <1>4, EntryIs DEF Readied
<1>6. Prepared(v, w, ch, Care(v, fl, ct, st, whole, ch, {f}), f, i)
  BY <1>4, <1>5 DEF K, Prepared
<1> QED BY <1>6

\* The entry that is made.
LEMMA NewPrepared ==
    ASSUME NEW v, NEW fl, NEW ct, NEW subj, NEW st, NEW whole, NEW ch,
           Sound(v, fl, ct, subj, st, whole, ch), NEW f \in Names, fl[f] = Closed,
           NEW w0, w0 = dir_find(Called(v), f), Slot(w0, f) = 0,
           NEW w, w = dir_register(w0, f), NEW i, i = Slot(w, f)
    PROVE  Prepared(v, w, ch, Care(v, fl, ct, st, whole, ch, {f}), f, i)
<1> DEFINE K == Care(v, fl, ct, st, whole, ch, {f})
<1>1. Quiet(Called(v), w0)
  BY FindStarts
<1>2. Finds(v, w0, ch, ct, K, f, Slot(w0, f))
  BY <1>1, EntryStarts
<1>3. ct[f] = Absent
  BY <1>2 DEF Finds
<1>4. /\ Good(w, ch, K) /\ Registered(w0, w, f, i) /\ i \in 1 .. Slots /\ w.dir[i] = Entry(f, 0, 0)
      /\ ch[f] = Nil /\ (\A j \in 1 .. Slots : j # i => w.dir[j] = v.dir[j])
      /\ v.dir[i].name \in {End, Dde} /\ Aside(K, ch, f) /\ f \notin v.cut /\ i \notin K.slots
  <2>1. {f} \in SUBSET Names /\ f \in {f}
    OBVIOUS
  <2> QED BY <1>1, <1>3, <2>1, RegisterStarts
<1>5. Beside(v, w0) /\ FreeRight(w0) /\ w0.moving = FALSE /\ ch[Loose] = Nil
  BY <1>1, CalledBeside DEF Sound, Resting
<1> HIDE DEF K
<1>6. w.fat = w0.fat /\ w.free = w0.free /\ w.cut = v.cut /\ w.moving = FALSE
  BY <1>4, <1>5 DEF Registered, Beside
<1>7. FreeRight(w)
  BY <1>5, <1>6 DEF FreeRight
<1>8. w.dir[i].name = f /\ w.dir[i].sclust = First(ch[f])
  BY <1>4, EntryIs, NilIs
<1>9. Entitled(w, ch, K, f, i)
  BY <1>4, <1>5, <1>7, <1>8 DEF Entitled
<1>10. Readied(v, w, f, i)
  BY <1>4, <1>6 DEF Readied
<1>11. Prepared(v, w, ch, Care(v, fl, ct, st, whole, ch, {f}), f, i)
  BY <1>4, <1>9, <1>10 DEF K, Prepared
<1> QED BY <1>11
-----------------------------------------------------------------------------
LEMMA ChainSet ==
    ASSUME NEW fat, NEW s, Path(fat, s)
    PROVE  ToSet(Chain(fat, First(s))) = Members(s)
<1>1. Chain(fat, First(s)) = s /\ DOMAIN s = 1 .. Len(s)
  BY ChainIs, PathFacts
<1> QED BY <1>1 DEF ToSet, Members

\* u has of s the buffer and the data, and the file is now c up to its n-th byte.
Cuts(s, u, t, t2, c, n, c2) ==
    /\ u.v.disk.data = s.v.disk.data
    /\ u.p.dirty = s.p.dirty /\ u.p.dsect = s.p.dsect /\ u.p.buf = s.p.buf
    /\ u.p.dirty => u.p.dsect \in Sects(Members(t2))
    /\ Len(t) \in Nat /\ Len(t2) \in Nat /\ Len(t2) <= Len(t) /\ \A i \in 1 .. Len(t2) : t2[i] = t[i]
    /\ c \in Contents /\ n \in 0 .. Len(c) /\ c2 = SubSeq(c, 1, n)

LEMMA PrefixIs ==
    ASSUME NEW c \in Contents, NEW n \in 0 .. Len(c), NEW c2, c2 = SubSeq(c, 1, n)
    PROVE  c2 \in Contents /\ Len(c2) = n /\ \A j \in 1 .. n : c2[j] = c[j]
<1>0. Len(c) \in Nat
  BY DEF Contents
<1>1. 0 \in Nat /\ n \in Nat /\ 0 + n <= Len(c) /\ 0 + 1 = 1 /\ 0 + n = n
  BY <1>0
<1>2. Len(c2) = n /\ \A j \in 1 .. n : c2[j] = c[0 + j]
  BY <1>1, SliceIs
<1>3. c2 \in Seq(Data \cup {Blank})
  BY <1>0 DEF Contents
<1> QED BY <1>2, <1>3 DEF Contents

LEMMA HoldingCut ==
    ASSUME NEW s, NEW u, NEW t, NEW t2, NEW c, NEW n, NEW c2, Holding(s, t, c), Cuts(s, u, t, t2, c, n, c2)
    PROVE  Holding(u, t2, c2)
<1>1. c2 \in Contents /\ Len(c2) = n /\ n \in Nat /\ n <= Len(c) /\ Len(c) \in Nat
      /\ \A j \in 1 .. n : c2[j] = c[j]
  BY PrefixIs DEF Cuts, Contents
<1>2. ASSUME NEW x \in 0 .. Len(c2)-1, NEW X, NEW r, c2[x+1] # Blank, InSector(t2, x, X, r)
      PROVE  Has(u, X, r, c2[x+1])
  <2>1. PICK q, k : At(x, q, k, r) /\ q+1 \in 1 .. Len(t2) /\ X = clust2sect(t2[q+1]) + k
    BY <1>2 DEF InSector
  <2>2. q+1 \in 1 .. Len(t) /\ t2[q+1] = t[q+1]
    BY <2>1 DEF Cuts
  <2>3. InSector(t, x, X, r)
    BY <2>1, <2>2 DEF InSector
  <2>4. x \in 0 .. Len(c)-1 /\ c2[x+1] = c[x+1]
    BY <1>1
  <2>5. Has(s, X, r, c[x+1])
    BY <1>2, <2>3, <2>4 DEF Holding
  <2> QED BY <2>4, <2>5 DEF Has, Cuts
<1>3. u.p.dirty => u.p.dsect \in Sects(Members(t2))
  BY DEF Cuts
<1> QED BY <1>2, <1>3 DEF Holding
-----------------------------------------------------------------------------
\* The FIL p2 of a file that ends where the pointer of p is.
Shortened(p, p2, sclust) ==
    /\ p2 \in FilRec /\ p2.written /\ p2.fsize = p.fptr /\ p2.sclust = sclust
    /\ p2.wr = p.wr /\ p2.dirty = p.dirty /\ p2.slot = p.slot /\ p2.fptr = p.fptr
    /\ p2.clust = p.clust /\ p2.dsect = p.dsect /\ p2.buf = p.buf

\* A buffer is for a sector of C.
StaleBy(st, st2, p, C) == st2 = (st \/ (p.dirty /\ p.dsect \in Sects(C)))
Shortens(ct, ct2, f, n) == ct2 = [ct EXCEPT ![f] = SubSeq(@, 1, n)]

LEMMA ShortenedIs ==
    ASSUME NEW p \in FilRec
    PROVE  /\ Shortened(p, [p EXCEPT !.fsize = p.fptr, !.written = TRUE], p.sclust)
           /\ Shortened(p, [[p EXCEPT !.fsize = p.fptr, !.written = TRUE] EXCEPT !.sclust = 0], 0)
<1>1. p.fptr \in Nat /\ 0 \in {0} \cup Cluster
  BY DEF FilRec
<1>2. [p EXCEPT !.fsize = p.fptr, !.written = TRUE] \in FilRec
  BY <1>1 DEF FilRec
<1>3. [[p EXCEPT !.fsize = p.fptr, !.written = TRUE] EXCEPT !.sclust = 0] \in FilRec
  BY <1>1, <1>2 DEF FilRec
<1>4. Shortened(p, [p EXCEPT !.fsize = p.fptr, !.written = TRUE], p.sclust)
  BY <1>2 DEF Shortened, FilRec
<1>5. Shortened(p, [[p EXCEPT !.fsize = p.fptr, !.written = TRUE] EXCEPT !.sclust = 0], 0)
  BY <1>3 DEF Shortened, FilRec
<1> QED BY <1>4, <1>5

LEMMA ShortensIs ==
    ASSUME NEW fl, NEW ct, Typed(fl, ct), NEW f \in Names, ct[f] \in Contents, NEW n \in 0 .. Len(ct[f]),
           NEW ct2, Shortens(ct, ct2, f, n), NEW c2, c2 = SubSeq(ct[f], 1, n)
    PROVE  Turned(ct, ct2, f, c2)
<1>1. ct \in [Names -> Contents \cup {Absent}]
  BY DEF Typed
<1> QED BY <1>1 DEF Shortens, Turned

\* What f_truncate begins with.
Truncating(v, p, c, st, ch, K, f) ==
    /\ c \in Contents /\ p \in FilRec /\ p.fptr \in 0 .. Len(c) /\ Opened(v, f, ch[f], c, p)
    /\ Good(Called(v), ch, K) /\ Aside(K, ch, f) /\ ch[Loose] = Nil
    /\ ch \in [Holders -> Seq(Cluster)] /\ Path(Called(v).fat, ch[f])
    /\ FreeRight(Called(v)) /\ Beside(v, Called(v)) /\ v.moving = FALSE
    /\ ~st => Holding(On(Called(v), p), ch[f], c)

LEMMA CutStarts ==
    ASSUME NEW v, NEW fl, NEW ct, NEW subj, NEW st, NEW whole, NEW ch,
           Sound(v, fl, ct, subj, st, whole, ch), NEW f \in Names, fl[f] # Closed, fl[f].fptr < fl[f].fsize
    PROVE  Truncating(v, fl[f], ct[f], st, ch, Care(v, fl, ct, st, whole, ch, {f}), f)
<1> DEFINE K == Care(v, fl, ct, st, whole, ch, {f})
           s == On(Called(v), fl[f])
<1>1. ct[f] \in Contents /\ fl[f] \in FilRec /\ Opened(v, f, ch[f], ct[f], fl[f])
  BY OpenFacts
<1>2. Works(s, ch, K, f) /\ Placed(s.p, ch[f]) /\ s.p = fl[f] /\ s.v = Called(v)
      /\ (~st => Holding(s, ch[f], ct[f]))
  BY OpenStarts
<1>4. {f} \in SUBSET Names
  OBVIOUS
<1>5. Beside(v, Called(v)) /\ FreeRight(Called(v))
  BY <1>4, CallStarts
<1> HIDE DEF K, s
<1>6. /\ Good(s.v, ch, K) /\ Aside(K, ch, f) /\ ch[Loose] = Nil /\ ch \in [Holders -> Seq(Cluster)]
      /\ Path(s.v.fat, ch[f])
  BY <1>2, WorksFacts
<1>7. fl[f].fptr \in Nat /\ fl[f].fsize = Len(ct[f]) /\ fl[f].fsize \in Nat
  BY <1>1, FilFacts DEF Opened
<1>8. fl[f].fptr \in 0 .. Len(ct[f])
  BY <1>7
<1>9. v.moving = FALSE
  <2>1. v \in Vols
    BY GoodFacts DEF Sound, Resting
  <2> QED BY <2>1 DEF Sound, Resting, Vols, Volumes
<1> QED BY <1>1, <1>2, <1>5, <1>6, <1>8, <1>9 DEF K, s, Truncating
-----------------------------------------------------------------------------
LEMMA NoSects == Sects({}) = {}
  BY DEF Sects

\* f_truncate of f to nothing; u is the volume once f is in cut, and p the FIL
\* that f gets.
AllCut(v, w, fl, fl2, ct, ct2, st, st2, f, u, p) ==
    /\ fl[f] # Closed /\ fl[f].fptr = 0 /\ fl[f].fptr < fl[f].fsize
    /\ CutBy(Called(v), u, f) /\ w = remove_chain(u, fl[f].sclust)
    /\ Shortened(fl[f], p, 0) /\ Turned(fl, fl2, f, p) /\ Shortens(ct, ct2, f, 0)
    /\ StaleBy(st, st2, fl[f], ToSet(Chain(u.fat, fl[f].sclust)))

LEMMA TruncateAll ==
    ASSUME NEW v, NEW fl, NEW ct, NEW subj, NEW st, NEW whole, NEW ch,
           Sound(v, fl, ct, subj, st, whole, ch), NEW f \in Names,
           NEW w, NEW fl2, NEW ct2, NEW st2, NEW u, NEW p, AllCut(v, w, fl, fl2, ct, ct2, st, st2, f, u, p)
    PROVE  \E c2 : Sound(w, fl2, ct2, {f}, st2, whole, c2)
<1> fl[f] # Closed /\ fl[f].fptr = 0 /\ fl[f].fptr < fl[f].fsize
  BY DEF AllCut
<1> CutBy(Called(v), u, f) /\ w = remove_chain(u, fl[f].sclust)
  BY DEF AllCut
<1> Shortened(fl[f], p, 0) /\ Turned(fl, fl2, f, p) /\ Shortens(ct, ct2, f, 0)
  BY DEF AllCut
<1> StaleBy(st, st2, fl[f], ToSet(Chain(u.fat, fl[f].sclust)))
  BY DEF AllCut
<1> DEFINE K == Care(v, fl, ct, st, whole, ch, {f})
           q == fl[f]
           c == ct[f]
           g == ch[f]
           v0 == Called(v)
           c2 == With(ch, f, Nil, Nil)
<1>1. Truncating(v, q, c, st, ch, K, f)
  BY CutStarts
<1>2. q.fptr = 0 /\ Shortened(q, p, 0)
  OBVIOUS
<1>3. Turned(fl, fl2, f, p) /\ w = remove_chain(u, q.sclust) /\ Shortens(ct, ct2, f, 0)
  OBVIOUS
<1>4. StaleBy(st, st2, q, ToSet(Chain(u.fat, q.sclust))) /\ g = ch[f]
  OBVIOUS
<1>5. CutBy(v0, u, f) /\ c = ct[f] /\ Typed(fl, ct)
  BY DEF Sound
<1> HIDE DEF K, q, c, g, v0, c2
<1>6. /\ c \in Contents /\ Opened(v, f, g, c, q) /\ Good(v0, ch, K) /\ Aside(K, ch, f) /\ ch[Loose] = Nil
      /\ ch \in [Holders -> Seq(Cluster)] /\ Path(v0.fat, g) /\ FreeRight(v0) /\ Beside(v, v0)
      /\ v.moving = FALSE
  BY <1>1, <1>4 DEF Truncating, v0
<1>7. /\ Good(u, ch, K) /\ u.dir = v0.dir /\ u.disk.data = v0.disk.data /\ u.fat = v0.fat /\ u.free = v0.free
      /\ u.cut = v0.cut \cup {f} /\ u.moving = v0.moving
  <2>1. Good(v0, ch, K)
    BY <1>6
  <2>2. CutBy(v0, u, f)
    BY <1>5
  <2> QED BY <2>1, <2>2, CutGood
<1>8. FreeRight(u)
  BY <1>6, <1>7 DEF FreeRight
<1>9. q.sclust = First(g)
  BY <1>6 DEF Opened
<1>10. Good(w, c2, K) /\ FreeRight(w) /\ Beside(u, w)
  <2>1. f \in u.cut
    BY <1>7
  <2>2. \A i \in Used(u.dir) : u.dir[i].name = f /\ f \notin u.cut => u.dir[i].sclust = 0
    BY <2>1
  <2>3. q.sclust = First(ch[f])
    BY <1>4, <1>9
  <2>4. Good(u, ch, K) /\ FreeRight(u) /\ Aside(K, ch, f) /\ ch[Loose] = Nil /\ w = remove_chain(u, q.sclust)
    BY <1>3, <1>6, <1>7, <1>8
  <2> DEFINE x == q.sclust
             r == remove_chain(u, x)
  <2>5. x = First(ch[f]) /\ w = r
    BY <2>3, <2>4
  <2> HIDE DEF x
  <2>6. Good(r, With(ch, f, Nil, Nil), K) /\ FreeRight(r) /\ Beside(u, r)
    BY <2>2, <2>4, <2>5, ReleaseGood
  <2> QED BY <2>5, <2>6 DEF c2
<1>11. c2[f] = Nil /\ c2[Loose] = Nil /\ \A h \in Names \ {f} : c2[h] = ch[h]
  <2>1. Nil \in Seq(Cluster)
    BY NilIs
  <2> QED BY <1>6, <2>1, WithOthers DEF c2
<1>12. w.dir = v.dir /\ w.cut = v.cut \cup {f} /\ w.moving = FALSE
  BY <1>6, <1>7, <1>10 DEF Beside
<1>13. Touches(v, w, ch, c2, {f})
  BY <1>11, <1>12 DEF Touches, Untouched
<1>14. /\ p \in FilRec /\ p.written /\ p.fsize = 0 /\ p.fptr = 0 /\ p.sclust = 0 /\ p.slot = q.slot
       /\ p.dirty = q.dirty /\ p.dsect = q.dsect
  BY <1>2 DEF Shortened
<1>15. Opened(w, f, Nil, Nil, p)
  <2>1. Placed(p, Nil)
    BY <1>14, PlacedFresh
  <2>2. v.dir[q.slot].name = f /\ (q.dirty => q.dsect \in DataSector)
    BY <1>6 DEF Opened
  <2>3. w.dir[p.slot].name = f /\ (p.dirty => p.written /\ p.dsect \in DataSector)
    BY <1>12, <1>14, <2>2
  <2> QED BY <1>14, <2>1, <2>3, NilFits, NilIs DEF Opened
<1>16. p # Closed
  BY <1>14, NotIn
<1>17. ~st2 => Holds(w, Nil, Nil, p)
  <2> SUFFICES ASSUME ~st2 PROVE Holds(w, Nil, Nil, p)
    OBVIOUS
  <2>1. ToSet(Chain(u.fat, q.sclust)) = Members(g)
    BY <1>6, <1>7, <1>9, ChainSet
  <2>2. ~st /\ (q.dirty => q.dsect \notin Sects(Members(g)))
    BY <1>4, <2>1 DEF StaleBy
  <2>3. Holding(On(v0, q), g, c)
    BY <1>1, <1>4, <2>2 DEF Truncating, v0
  <2>4. On(v0, q).p = q
    BY DEF On
  <2>5. ~q.dirty
    BY <2>2, <2>3, <2>4 DEF Holding
  <2>6. Fil(p) = p /\ On(w, p).p = p
    BY <1>16 DEF Fil, On
  <2>7. ~On(w, p).p.dirty
    BY <1>14, <2>5, <2>6
  <2> QED BY <2>6, <2>7, NilFits DEF Holds
<1>18. FileEnds(w, f, c2[f], Nil, p, st2) /\ FileStays(w, f, c2[f], Nil, p)
  BY <1>11, <1>14, <1>15, <1>16, <1>17, NilFits DEF FileEnds, FileOk, FileStays
<1>19. Typed(fl2, ct2) /\ Changed(fl, fl2, f, p) /\ Changed(ct, ct2, f, Nil)
  <2>1. 0 \in 0 .. Len(c) /\ Nil = SubSeq(c, 1, 0)
    BY <1>6 DEF Contents, Nil
  <2>2. Turned(ct, ct2, f, Nil)
    <3>1. ct[f] \in Contents /\ 0 \in 0 .. Len(ct[f]) /\ Nil = SubSeq(ct[f], 1, 0)
      BY <1>5, <1>6, <2>1
    <3> QED BY <1>3, <1>5, <3>1, ShortensIs
  <2>3. p \in FilRec \cup {Closed} /\ Nil \in Contents \cup {Absent}
    BY <1>14, NilFits
  <2>4. Changed(fl, fl2, f, p) /\ Typed(fl2, ct)
    BY <1>3, <1>5, <2>3, TurnedIs
  <2>5. Changed(ct, ct2, f, Nil) /\ Typed(fl, ct2)
    BY <1>5, <2>2, <2>3, TurnedIs
  <2> QED BY <2>4, <2>5 DEF Typed
<1>20. st => st2
  BY <1>4 DEF StaleBy
<1>21. Good(w, c2, Care(v, fl, ct, st, whole, ch, {f})) /\ (st => st2)
  BY <1>10, <1>20 DEF K
<1>22. Sound(w, fl2, ct2, {f}, st2, whole, c2)
  <2>1. ~w.moving
    BY <1>12
  <2> QED BY <1>10, <1>11, <1>13, <1>18, <1>19, <1>21, <2>1, OneEnds, SMTT(90)
<1> QED BY <1>22
-----------------------------------------------------------------------------
\* A chain in two parts, the second of which is loose.
Parted(ch, f, a, b, c1) ==
    /\ ch \in [Holders -> Seq(Cluster)] /\ f \in Names /\ a \in Seq(Cluster) /\ b \in Seq(Cluster)
    /\ c1 = With(ch, f, a, b)

LEMMA PartedIs ==
    ASSUME NEW ch, NEW f, NEW a, NEW b, NEW c1, Parted(ch, f, a, b, c1)
    PROVE  c1[f] = a /\ c1[Loose] = b /\ With(c1, f, a, Nil) = With(ch, f, a, Nil)
<1>1. /\ ch \in [Holders -> Seq(Cluster)] /\ f \in Names /\ a \in Seq(Cluster) /\ b \in Seq(Cluster)
      /\ c1 = With(ch, f, a, b)
  BY DEF Parted
<1>2. Nil \in Seq(Cluster)
  BY NilIs
<1>3. With(ch, f, a, b)[f] = a /\ With(ch, f, a, b)[Loose] = b
  BY <1>1, WithIs
<1>4. With(With(ch, f, a, b), f, a, Nil) = With(ch, f, a, Nil)
  BY <1>1, <1>2, WithWith
<1> QED BY <1>1, <1>3, <1>4

\* The first bytes of a file.
Prefix(c, n, c2) == c \in Contents /\ n \in 0 .. Len(c) /\ c2 = SubSeq(c, 1, n)
LEMMA PrefixFits ==
    ASSUME NEW c, NEW n, NEW c2, Prefix(c, n, c2)
    PROVE  c2 \in Contents /\ Len(c2) = n
BY PrefixIs DEF Prefix

\* The chain of f is cut behind its m-th cluster c, and the rest is freed.
LEMMA CutChain ==
    ASSUME NEW v, NEW ch, NEW K, NEW f \in Names, Good(v, ch, K), FreeRight(v), Aside(K, ch, f),
           ch[Loose] = Nil, NEW m \in 1 .. Len(ch[f]), m # Len(ch[f]), NEW c, c = ch[f][m],
           NEW n, n = v.fat[c], NEW w, w = remove_chain(put_fat(v, c, Eoc), n)
    PROVE  /\ Good(w, With(ch, f, SubSeq(ch[f], 1, m), Nil), K) /\ FreeRight(w) /\ Beside(v, w)
<1> DEFINE g == ch[f]
           a == SubSeq(g, 1, m)
           b == SubSeq(g, m+1, Len(g))
           fat2 == [v.fat EXCEPT ![c] = Eoc]
           u == put_fat(v, c, Eoc)
           c1 == With(ch, f, a, b)
<1>1. /\ v \in Vols /\ v.fat \in Fats /\ Layout(v.fat, ch) /\ ch \in [Holders -> Seq(Cluster)] /\ v.free \in Int
      /\ Path(v.fat, g) /\ (~v.moving => Heads(v.dir, ch, v.cut)) /\ v.dir \in Dirs(AllNames)
  BY NameFacts, GoodFacts
<1>2. g = ch[f] /\ c = g[m] /\ m \in 1 .. Len(g) /\ m # Len(g)
  OBVIOUS
<1> HIDE DEF g
<1>3. Len(g) \in Nat /\ c \in Cluster /\ v.fat[c] # 0 /\ g \in Seq(Cluster)
  BY <1>1, <1>2, PathFacts
<1>4. fat2[c] = Eoc /\ \A d \in Cluster : d # c => fat2[d] = v.fat[d]
  BY <1>1, <1>3 DEF Fats
<1> HIDE DEF fat2
<1>5. /\ Members(a) \cup Members(b) = Members(g) /\ Members(a) \cap Members(b) = {}
      /\ c \in Members(a) /\ First(b) = n /\ First(a) = First(g)
  BY <1>1, <1>2, PathSplit
<1>6. Members(g) \subseteq Cluster
  BY <1>1, PathMembers
<1>7. Path(fat2, a) /\ a \in Seq(Cluster)
  BY <1>1, <1>2, <1>4, <1>6, PathCut
<1>8. Path(fat2, b)
  <2>1. ASSUME NEW i \in m+1 .. Len(g) PROVE fat2[g[i]] = v.fat[g[i]]
    <3>1. i \in 1 .. Len(g) /\ i # m
      BY <1>2, <1>3
    <3>2. g[i] # c /\ g[i] \in Cluster
      BY <1>1, <1>2, <3>1, PathOnce, PathFacts
    <3> QED BY <1>4, <3>2
  <2>2. Path(v.fat, g) /\ m \in 1 .. Len(g)
    BY <1>1, <1>2
  <2> HIDE DEF b
  <2>3. Path(fat2, SubSeq(g, m+1, Len(g)))
    <3> DEFINE fat == v.fat
    <3>1. Path(fat, g) /\ \A i \in m+1 .. Len(g) : fat2[g[i]] = fat[g[i]]
      BY <2>1, <2>2
    <3> HIDE DEF fat
    <3> QED BY <2>2, <3>1, PathRest
  <2> QED BY <2>3 DEF b
<1>9. b \in Seq(Cluster)
  BY <1>8 DEF Path
<1> HIDE DEF a, b
<1>10. Own(ch, f) = Members(g)
  BY <1>2, NilIs DEF Own
<1>11. Relays(v, ch, f, a, b, fat2)
  <2>1. \A x \in Members(a) \cup Members(b) : x \in Own(ch, f) \/ v.fat[x] = 0
    BY <1>5, <1>10
  <2>2. \A x \in Cluster : x \notin Own(ch, f) /\ v.fat[x] # 0 => fat2[x] = v.fat[x]
    BY <1>4, <1>5, <1>10
  <2>3. \A x \in Cluster : (x \in Own(ch, f) \/ v.fat[x] = 0) /\ fat2[x] # 0 => x \in Members(a) \cup Members(b)
    BY <1>4, <1>5, <1>10
  <2>4. \A i \in Used(v.dir) : v.dir[i].name = f /\ f \notin v.cut /\ ~v.moving => v.dir[i].sclust \in {0, First(a)}
    BY <1>1, <1>2, <1>5 DEF Heads
  <2> QED BY <1>5, <1>7, <1>8, <2>1, <2>2, <2>3, <2>4 DEF Relays
<1>12. Eoc \in Links
  BY DEF Links
<1>13. Good(u, c1, K) /\ Beside(v, u) /\ u.free = v.free /\ u.fat = fat2 /\ Aside(K, c1, f)
  <2>1. Relays(v, ch, f, a, b, [v.fat EXCEPT ![c] = Eoc])
    BY <1>11 DEF fat2
  <2>2. c \in Cluster /\ Eoc \in Links
    BY <1>3, <1>12
  <2> HIDE DEF c1
  <2>3. /\ Good(u, With(ch, f, a, b), K) /\ Beside(v, u) /\ u.free = v.free /\ u.fat = [v.fat EXCEPT ![c] = Eoc]
        /\ Aside(K, With(ch, f, a, b), f)
    BY <2>1, <2>2, LaidGood
  <2> QED BY <2>3 DEF fat2, c1
<1>14. FreeRight(u)
  <2>1. FreeIn(fat2) = FreeIn(v.fat)
    BY <1>1, <1>3, <1>12, NoCluster, FreeChanges DEF fat2
  <2> QED BY <1>13, <2>1 DEF FreeRight
<1>15. c1[f] = a /\ c1[Loose] = b /\ With(c1, f, a, Nil) = With(ch, f, a, Nil)
  <2>1. Parted(ch, f, a, b, c1)
    BY <1>1, <1>7, <1>9 DEF Parted
  <2> HIDE DEF u, c1
  <2> QED BY <2>1, PartedIs
<1> HIDE DEF u, c1
<1>16. n = First(c1[Loose])
  BY <1>5, <1>15
<1> DEFINE r == remove_chain(u, n)
<1>17. Good(r, With(c1, f, c1[f], Nil), K) /\ FreeRight(r) /\ Beside(u, r)
  BY <1>13, <1>14, <1>16, RemoveGood
<1>18. r = w
  BY DEF u
<1> HIDE DEF r
<1>19. Good(w, With(ch, f, a, Nil), K)
  BY <1>15, <1>17, <1>18
<1> QED BY <1>13, <1>17, <1>18, <1>19 DEF Beside, a, g
-----------------------------------------------------------------------------
\* t is what f_truncate leaves of the chain g, at least m clusters, when the
\* pointer of q is in the m-th one.
Leaves2(q, g, m, t) ==
    /\ m \in 1 .. Len(g) /\ Len(g) \in Nat /\ q.fptr > 0 /\ q.clust = g[m]
    /\ q.fptr - 1 \in bcs*(m-1) .. bcs*(m-1) + (bcs-1)
    /\ t \in Seq(Cluster) /\ Len(t) \in m .. Len(g) /\ \A i \in 1 .. Len(t) : t[i] = g[i]

LEMMA CutDirtied ==
    ASSUME NEW v, NEW q, NEW c, NEW st, NEW ch, NEW K, NEW f \in Names, Truncating(v, q, c, st, ch, K, f),
           NEW m, NEW t, Leaves2(q, ch[f], m, t), NEW p, Shortened(q, p, q.sclust),
           NEW c2, c2 = SubSeq(c, 1, q.fptr)
    PROVE  Dirtied(v, f, t, c2, p)
<1> DEFINE g == ch[f]
<1>1. Opened(v, f, g, c, q) /\ c \in Contents /\ q.fptr \in 0 .. Len(c) /\ q \in FilRec
  BY DEF Truncating
<1>2. Leaves2(q, g, m, t)
  OBVIOUS
<1> HIDE DEF g
<1>3. c2 \in Contents /\ Len(c2) = q.fptr
  <2>1. Prefix(c, q.fptr, c2)
    BY <1>1 DEF Prefix
  <2> QED BY <2>1, PrefixFits
<1>4. q.fptr \in Nat
  BY <1>1, FilFacts
<1>5. m \in Nat /\ m > 0 /\ m - 1 \in Nat /\ Len(t) \in Nat /\ m <= Len(t) /\ q.fptr <= bcs * (m-1) + bcs
  BY <1>2, <1>4, Sizes1 DEF Leaves2
<1>6. q.fptr <= bcs * Len(t)
  <2>1. bcs * (m-1) + bcs = bcs * m
    <3>1. bcs * ((m-1) + 1) = bcs * (m-1) + bcs
      BY <1>5, Sizes1, Mul
    <3>2. (m-1) + 1 = m
      BY <1>5
    <3> QED BY <3>1, <3>2
  <2>2. bcs * m <= bcs * Len(t) /\ bcs * m \in Nat /\ bcs * Len(t) \in Nat
    BY <1>5, Sizes1, Mul
  <2> QED BY <1>4, <1>5, <2>1, <2>2
<1>7. Fits(c2, t)
  BY <1>3, <1>6 DEF Fits
<1>8. First(t) = First(g)
  BY <1>2, <1>5 DEF Leaves2, First
<1>9. /\ p \in FilRec /\ p.written /\ p.fsize = q.fptr /\ p.sclust = q.sclust /\ p.dirty = q.dirty /\ p.slot = q.slot
      /\ p.fptr = q.fptr /\ p.clust = q.clust /\ p.dsect = q.dsect
  BY DEF Shortened
<1>10. Placed(p, t)
  <2>1. Lies(q.fptr - 1, q.clust, t)
    <3>1. (m-1) + 1 = m /\ m \in 1 .. Len(t) /\ t[m] = g[m]
      BY <1>2, <1>5 DEF Leaves2
    <3> QED BY <1>2, <1>5, <3>1 DEF Leaves2, Lies
  <2>2. q.fptr % SS # 0 => q.dsect = CurrentSector(q)
    BY <1>1 DEF Opened, Placed
  <2>3. CurrentSector(p) = CurrentSector(q)
    BY <1>9 DEF CurrentSector, SectorOfCluster
  <2> QED BY <1>9, <2>1, <2>2, <2>3 DEF Placed
<1>11. v.dir[p.slot].name = f /\ p.sclust = First(t) /\ (p.dirty => p.dsect \in DataSector)
  BY <1>1, <1>8, <1>9 DEF Opened
<1> QED BY <1>3, <1>4, <1>7, <1>9, <1>10, <1>11 DEF Dirtied

\* w has the data of v, and the buffer of q is for a sector of t, if any.
Spares(v, w, q, t) == /\ w.disk.data = v.disk.data
                      /\ q.dirty => q.dsect \in Sects(Members(t))

LEMMA CutHolds ==
    ASSUME NEW v, NEW q, NEW c, NEW st, NEW ch, NEW K, NEW f \in Names, Truncating(v, q, c, st, ch, K, f),
           Holding(On(Called(v), q), ch[f], c),
           NEW m, NEW t, Leaves2(q, ch[f], m, t), NEW p, Shortened(q, p, q.sclust),
           NEW c2, c2 = SubSeq(c, 1, q.fptr), NEW w, Spares(v, w, q, t)
    PROVE  Holds(w, t, c2, p)
<1> DEFINE g == ch[f]
           s == On(Called(v), q)
           u == On(w, p)
<1>1. Holding(s, g, c) /\ c \in Contents /\ q.fptr \in 0 .. Len(c) /\ Beside(v, Called(v))
  BY DEF Truncating
<1>2. Leaves2(q, g, m, t)
  OBVIOUS
<1>3. /\ p \in FilRec /\ p.dirty = q.dirty /\ p.dsect = q.dsect /\ p.buf = q.buf
  BY DEF Shortened
<1>4. s.p = q /\ s.v = Called(v) /\ u.p = p /\ u.v = w
  BY DEF On
<1> HIDE DEF g, s, u
<1>5. u.v.disk.data = s.v.disk.data
  BY <1>1, <1>4 DEF Beside, Spares
<1>6. Cuts(s, u, g, t, c, q.fptr, c2)
  BY <1>1, <1>2, <1>3, <1>4, <1>5 DEF Cuts, Leaves2, Spares
<1>7. Holding(u, t, c2)
  BY <1>1, <1>6, HoldingCut
<1>8. Fil(p) = p
  BY <1>3, NotIn DEF Fil
<1> QED BY <1>7, <1>8 DEF Holds, u
-----------------------------------------------------------------------------
LEMMA PartStarts ==
    ASSUME NEW v, NEW q, NEW c, NEW st, NEW ch, NEW K, NEW f \in Names, Truncating(v, q, c, st, ch, K, f),
           q.fptr > 0, NEW w, w = seek_fat(Called(v), q.clust)
    PROVE  /\ Quiet(Called(v), w) /\ w.fat = Called(v).fat /\ q.clust \in Cluster
           /\ \E m : Leaves2(q, ch[f], m, ch[f])
<1> DEFINE g == ch[f]
<1>1. Opened(v, f, g, c, q) /\ Good(Called(v), ch, K) /\ Path(Called(v).fat, g)
  BY DEF Truncating
<1>2. Len(g) \in Nat /\ g \in Seq(Cluster) /\ \A i \in 1 .. Len(g) : g[i] \in Cluster
  BY <1>1, PathFacts
<1> HIDE DEF g
<1>3. PICK j \in Nat : j+1 \in 1 .. Len(g) /\ q.clust = g[j+1] /\ q.fptr - 1 \in bcs*j .. bcs*j + (bcs-1)
  BY <1>1 DEF Opened, Placed, Lies
<1> DEFINE m == j + 1
<1>4. m - 1 = j /\ m \in 1 .. Len(g) /\ Len(g) \in m .. Len(g)
  BY <1>2, <1>3
<1> HIDE DEF m
<1>5. q.clust = g[m]
  BY <1>3 DEF m
<1>6. Leaves2(q, g, m, g)
  BY <1>2, <1>3, <1>4, <1>5 DEF Leaves2
<1>7. q.clust \in Cluster
  BY <1>2, <1>3
<1>8. Quiet(Called(v), w) /\ w.fat = Called(v).fat
  BY <1>1, <1>7, SeekQuiet
<1> QED BY <1>6, <1>7, <1>8 DEF g

\* A call that leaves only the file f another, when the files are sound before.
FromTo(v, w, fl, fl2, ct, ct2, subj, st, st2, whole, ch, ch2, f, t, c, p) ==
    /\ Sound(v, fl, ct, subj, st, whole, ch) /\ f \in Names /\ (st => st2)
    /\ Dirtied(v, f, t, c, p) /\ Ends(v, w, ch, ch2, f) /\ ch2[f] = t /\ (~st2 => Holds(w, t, c, p))
    /\ Good(w, ch2, Care(v, fl, ct, st, whole, ch, {f}))
    /\ Turned(fl, fl2, f, p) /\ Turned(ct, ct2, f, c)

LEMMA FromToSound ==
    ASSUME NEW v, NEW w, NEW fl, NEW fl2, NEW ct, NEW ct2, NEW subj, NEW st, NEW st2, NEW whole,
           NEW ch, NEW ch2, NEW f, NEW t, NEW c, NEW p,
           FromTo(v, w, fl, fl2, ct, ct2, subj, st, st2, whole, ch, ch2, f, t, c, p)
    PROVE  Sound(w, fl2, ct2, {f}, st2, whole, ch2)
<1>1. /\ Sound(v, fl, ct, subj, st, whole, ch) /\ f \in Names /\ (st => st2)
      /\ Dirtied(v, f, t, c, p) /\ Ends(v, w, ch, ch2, f) /\ ch2[f] = t /\ (~st2 => Holds(w, t, c, p))
      /\ Good(w, ch2, Care(v, fl, ct, st, whole, ch, {f}))
      /\ Turned(fl, fl2, f, p) /\ Turned(ct, ct2, f, c)
  BY DEF FromTo
<1> QED BY <1>1, ChangedSound, SMTT(90)

\* What is stale remains so.
Lasts(st, st2) == st => st2
\* f_truncate where the chain already ends; p is the FIL that f gets.
EndCut(v, w, fl, fl2, ct, ct2, st, st2, f, p) ==
    /\ fl[f] # Closed /\ fl[f].fptr > 0 /\ fl[f].fptr < fl[f].fsize
    /\ w = seek_fat(Called(v), fl[f].clust) /\ Lasts(st, st2)
    /\ Shortened(fl[f], p, fl[f].sclust) /\ Turned(fl, fl2, f, p) /\ Shortens(ct, ct2, f, fl[f].fptr)

LEMMA TruncateEnd ==
    ASSUME NEW v, NEW fl, NEW ct, NEW subj, NEW st, NEW whole, NEW ch,
           Sound(v, fl, ct, subj, st, whole, ch), NEW f \in Names,
           NEW w, NEW fl2, NEW ct2, NEW st2, NEW p, EndCut(v, w, fl, fl2, ct, ct2, st, st2, f, p)
    PROVE  \E c2 : Sound(w, fl2, ct2, {f}, st2, whole, c2)
<1>a. fl[f] # Closed /\ fl[f].fptr > 0 /\ fl[f].fptr < fl[f].fsize
  BY DEF EndCut
<1>b. w = seek_fat(Called(v), fl[f].clust) /\ Lasts(st, st2)
  BY DEF EndCut
<1>c. Shortened(fl[f], p, fl[f].sclust) /\ Turned(fl, fl2, f, p) /\ Shortens(ct, ct2, f, fl[f].fptr)
  BY DEF EndCut
<1>d. Sound(v, fl, ct, subj, st, whole, ch) /\ f \in Names
  OBVIOUS
<1> DEFINE K == Care(v, fl, ct, st, whole, ch, {f})
           q == fl[f]
           c == ct[f]
           g == ch[f]
           o == SubSeq(c, 1, q.fptr)
<1>1. Truncating(v, q, c, st, ch, K, f)
  BY <1>a, CutStarts
<1>2. /\ Shortened(q, p, q.sclust) /\ q.fptr > 0 /\ w = seek_fat(Called(v), q.clust) /\ Typed(fl, ct)
      /\ Shortens(ct, ct2, f, q.fptr) /\ g = ch[f] /\ c = ct[f]
  BY <1>a, <1>b, <1>c DEF Sound
<1>0. Turned(fl, fl2, f, p) /\ o = SubSeq(c, 1, q.fptr) /\ K = Care(v, fl, ct, st, whole, ch, {f})
  BY <1>c
<1> HIDE DEF K, q, c, g, o
<1>3. Quiet(Called(v), w) /\ \E m : Leaves2(q, ch[f], m, ch[f])
  BY <1>1, <1>2, PartStarts
<1>4. PICK m : Leaves2(q, g, m, g)
  BY <1>2, <1>3
<1>5. Beside(v, w) /\ FreeRight(w) /\ (\A h \in Names : Untouched(v, w, ch, ch, h)) /\ w.moving = FALSE
  <2>1. Quiet(Called(v), w)
    BY <1>3
  <2> QED BY <2>1, CalledBeside
<1>6. Dirtied(v, f, g, o, p)
  BY <1>0, <1>1, <1>2, <1>4, CutDirtied
<1>7. ch[Loose] = Nil /\ Good(Called(v), ch, K)
  BY <1>1 DEF Truncating
<1>8. Good(w, ch, K)
  BY <1>3, <1>7 DEF Quiet
<1>9. Ends(v, w, ch, ch, f)
  BY <1>5, <1>7 DEF Ends, Touches, Beside
<1>10. ~st2 => Holds(w, g, o, p)
  <2> SUFFICES ASSUME ~st2 PROVE Holds(w, g, o, p)
    OBVIOUS
  <2>1. ~st
    BY <1>b DEF Lasts
  <2>2. w.disk.data = v.disk.data
    BY <1>5 DEF Beside
  <2>3. On(Called(v), q).p = q
    BY DEF On
  <2>4. q.dirty => q.dsect \in Sects(Members(g))
    BY <1>1, <1>2, <2>1, <2>3 DEF Truncating, Holding
  <2>5. Leaves2(q, ch[f], m, g)
    BY <1>2, <1>4
  <2>6. Spares(v, w, q, g)
    BY <2>2, <2>4 DEF Spares
  <2>7. Shortened(q, p, q.sclust) /\ o = SubSeq(c, 1, q.fptr)
    BY <1>0, <1>2
  <2>8. Holding(On(Called(v), q), ch[f], c)
    BY <1>1, <2>1 DEF Truncating
  <2> QED BY <1>1, <2>5, <2>6, <2>7, <2>8, CutHolds
<1>11. Turned(ct, ct2, f, o)
  <2>1. ct[f] \in Contents /\ q.fptr \in 0 .. Len(ct[f]) /\ o = SubSeq(ct[f], 1, q.fptr)
    BY <1>0, <1>1, <1>2 DEF Truncating
  <2> QED BY <1>2, <2>1, ShortensIs
<1>12. Good(w, ch, Care(v, fl, ct, st, whole, ch, {f})) /\ ch[f] = g
  BY <1>0, <1>2, <1>8
<1>13. Sound(w, fl2, ct2, {f}, st2, whole, ch)
  <2>1. Turned(fl, fl2, f, p) /\ Turned(ct, ct2, f, o)
    BY <1>0, <1>11
  <2>2. st => st2
    BY <1>b DEF Lasts
  <2>3. Ends(v, w, ch, ch, f) /\ ch[f] = g /\ Dirtied(v, f, g, o, p) /\ (~st2 => Holds(w, g, o, p))
    BY <1>6, <1>9, <1>10, <1>12
  <2>4. Good(w, ch, Care(v, fl, ct, st, whole, ch, {f}))
    BY <1>12
  <2>5. FromTo(v, w, fl, fl2, ct, ct2, subj, st, st2, whole, ch, ch, f, g, o, p)
    BY <1>d, <2>1, <2>2, <2>3, <2>4 DEF FromTo
  <2> QED BY <2>5, FromToSound
<1> QED BY <1>13
-----------------------------------------------------------------------------
\* f_truncate that frees clusters.
\* The chain is cut behind a cluster that is not the last.
FromPart(v, w, fl, fl2, ct, ct2, subj, st, st2, whole, ch, f, v1, n, p) ==
    /\ Sound(v, fl, ct, subj, st, whole, ch) /\ f \in Names /\ fl[f] # Closed
    /\ fl[f].fptr > 0 /\ fl[f].fptr < fl[f].fsize
    /\ v1 = seek_fat(Called(v), fl[f].clust) /\ n = v1.fat[fl[f].clust] /\ n # Eoc
    /\ w = remove_chain(put_fat(v1, fl[f].clust, Eoc), n)
    /\ Shortened(fl[f], p, fl[f].sclust) /\ Turned(fl, fl2, f, p)
    /\ Shortens(ct, ct2, f, fl[f].fptr) /\ StaleBy(st, st2, fl[f], ToSet(Chain(v1.fat, n)))

LEMMA TruncatePart ==
    ASSUME NEW v, NEW fl, NEW ct, NEW subj, NEW st, NEW whole, NEW ch, NEW f, NEW w, NEW fl2, NEW ct2, NEW st2,
           NEW v1, NEW n, NEW p, FromPart(v, w, fl, fl2, ct, ct2, subj, st, st2, whole, ch, f, v1, n, p)
    PROVE  \E c2 : Sound(w, fl2, ct2, {f}, st2, whole, c2)
<1>a. /\ Sound(v, fl, ct, subj, st, whole, ch) /\ f \in Names /\ fl[f] # Closed
      /\ fl[f].fptr > 0 /\ fl[f].fptr < fl[f].fsize
  BY DEF FromPart
<1>b. v1 = seek_fat(Called(v), fl[f].clust) /\ n = v1.fat[fl[f].clust] /\ n # Eoc
  BY DEF FromPart
<1>c. w = remove_chain(put_fat(v1, fl[f].clust, Eoc), n)
  BY DEF FromPart
<1>d. /\ Shortened(fl[f], p, fl[f].sclust) /\ Turned(fl, fl2, f, p)
      /\ Shortens(ct, ct2, f, fl[f].fptr) /\ StaleBy(st, st2, fl[f], ToSet(Chain(v1.fat, n)))
  BY DEF FromPart
<1> DEFINE K == Care(v, fl, ct, st, whole, ch, {f})
           q == fl[f]
           c == ct[f]
           g == ch[f]
           o == SubSeq(c, 1, q.fptr)
<1>1. Truncating(v, q, c, st, ch, K, f)
  BY <1>a, CutStarts
<1>2. /\ Shortened(q, p, q.sclust) /\ q.fptr > 0 /\ v1 = seek_fat(Called(v), q.clust) /\ Typed(fl, ct)
      /\ Shortens(ct, ct2, f, q.fptr) /\ g = ch[f] /\ c = ct[f]
  BY <1>a, <1>b, <1>d DEF Sound
<1>0. Turned(fl, fl2, f, p) /\ o = SubSeq(c, 1, q.fptr) /\ K = Care(v, fl, ct, st, whole, ch, {f})
  BY <1>d
<1>00. n = v1.fat[q.clust] /\ n # Eoc /\ w = remove_chain(put_fat(v1, q.clust, Eoc), n)
  BY <1>b, <1>c
<1>01. StaleBy(st, st2, q, ToSet(Chain(v1.fat, n)))
  BY <1>d
<1>02. f \in Names
  BY <1>a
<1> HIDE DEF K, q, c, g, o
<1>3. /\ Quiet(Called(v), v1) /\ (\E m : Leaves2(q, ch[f], m, ch[f])) /\ v1.fat = Called(v).fat
      /\ q.clust \in Cluster
  BY <1>02, <1>1, <1>2, PartStarts
<1>4. PICK m : Leaves2(q, g, m, g)
  BY <1>2, <1>3
<1>5. Beside(v, v1) /\ FreeRight(v1) /\ v1.moving = FALSE
  <2>1. Quiet(Called(v), v1)
    BY <1>3
  <2> QED BY <1>a, <2>1, CalledBeside
<1>6. /\ ch[Loose] = Nil /\ Good(Called(v), ch, K) /\ Aside(K, ch, f) /\ ch \in [Holders -> Seq(Cluster)]
      /\ Path(v1.fat, g)
  BY <1>1, <1>2, <1>3 DEF Truncating
<1>7. Good(v1, ch, K)
  BY <1>3, <1>6 DEF Quiet
<1> DEFINE t == SubSeq(g, 1, m)
           r == SubSeq(g, m+1, Len(g))
           c2 == With(ch, f, t, Nil)
<1>8. m \in 1 .. Len(g) /\ q.clust = g[m] /\ Len(g) \in Nat
  BY <1>4 DEF Leaves2
<1>9. m # Len(g)
  BY <1>00, <1>6, <1>8 DEF Path
<1>10. /\ Members(t) \cup Members(r) = Members(g) /\ Len(t) = m /\ Len(r) = Len(g) - m
       /\ First(r) = v1.fat[g[m]] /\ \A i \in 1 .. m : t[i] = g[i]
  BY <1>6, <1>8, <1>9, PathSplit
<1>11. t \in Seq(Cluster)
  <2>1. \A i \in 1 .. Len(g) : g[i] \in Cluster
    BY <1>6, PathFacts
  <2>2. \A i \in 1 .. m : g[i] \in Cluster
    BY <1>8, <2>1
  <2> QED BY <1>8, <2>2
<1>12. Path(v1.fat, r)
  <2> DEFINE fat == v1.fat
  <2>1. Path(fat, g) /\ m \in 1 .. Len(g) /\ \A i \in m+1 .. Len(g) : fat[g[i]] = fat[g[i]]
    BY <1>6, <1>8
  <2> HIDE DEF fat, r
  <2>2. Path(fat, SubSeq(g, m+1, Len(g)))
    BY <2>1, PathRest
  <2> QED BY <2>2 DEF fat, r
<1> HIDE DEF t, r
<1>13. n = First(r)
  BY <1>00, <1>8, <1>10
<1>14. Good(w, With(ch, f, t, Nil), K) /\ FreeRight(w) /\ Beside(v1, w)
  <2>1. /\ Good(v1, ch, K) /\ FreeRight(v1) /\ Aside(K, ch, f) /\ ch[Loose] = Nil
        /\ m \in 1 .. Len(ch[f]) /\ m # Len(ch[f]) /\ q.clust = ch[f][m]
    BY <1>2, <1>5, <1>6, <1>7, <1>8, <1>9
  <2> DEFINE d == q.clust
  <2>2. d = ch[f][m] /\ n = v1.fat[d] /\ w = remove_chain(put_fat(v1, d, Eoc), n)
    BY <1>00, <2>1
  <2> HIDE DEF d
  <2>3. Good(w, With(ch, f, SubSeq(ch[f], 1, m), Nil), K) /\ FreeRight(w) /\ Beside(v1, w)
    BY <1>02, <2>1, <2>2, CutChain
  <2> QED BY <1>2, <2>3 DEF t
<1>15. /\ \A h \in Names \ {f} : c2[h] = ch[h]
       /\ c2[f] = t /\ c2[Loose] = Nil
  BY <1>02, <1>6, <1>11, WithOthers
<1>16. Good(w, c2, K)
  BY <1>14
<1> HIDE DEF c2
<1>17. Ends(v, w, ch, c2, f)
  BY <1>02, <1>5, <1>14, <1>15 DEF Ends, Touches, Untouched, Beside
<1>18. Leaves2(q, ch[f], m, t)
  <2>1. Len(t) \in m .. Len(g)
    BY <1>8, <1>10
  <2>2. \A i \in 1 .. Len(t) : t[i] = g[i]
    BY <1>10
  <2> QED BY <1>2, <1>4, <1>11, <2>1, <2>2 DEF Leaves2
<1>19. Dirtied(v, f, t, o, p)
  BY <1>0, <1>02, <1>1, <1>2, <1>18, CutDirtied
<1>20. ~st2 => Holds(w, t, o, p)
  <2> SUFFICES ASSUME ~st2 PROVE Holds(w, t, o, p)
    OBVIOUS
  <2>1. ToSet(Chain(v1.fat, n)) = Members(r)
    BY <1>12, <1>13, ChainSet
  <2>2. ~st /\ (q.dirty => q.dsect \notin Sects(Members(r)))
    BY <1>01, <2>1 DEF StaleBy
  <2>3. On(Called(v), q).p = q
    BY DEF On
  <2>4. q.dirty => q.dsect \in Sects(Members(g))
    BY <1>1, <1>2, <2>2, <2>3 DEF Truncating, Holding
  <2>5. q.dirty => q.dsect \in Sects(Members(t))
    BY <1>10, <2>2, <2>4 DEF Sects
  <2>6. w.disk.data = v.disk.data
    BY <1>5, <1>14 DEF Beside
  <2>7. Spares(v, w, q, t)
    BY <2>5, <2>6 DEF Spares
  <2>8. Shortened(q, p, q.sclust) /\ o = SubSeq(c, 1, q.fptr)
    BY <1>0, <1>2
  <2>9. Holding(On(Called(v), q), ch[f], c)
    BY <1>1, <2>2 DEF Truncating
  <2> QED BY <1>1, <1>18, <2>7, <2>8, <2>9, <1>02, CutHolds
<1>21. Turned(ct, ct2, f, o)
  <2>1. ct[f] \in Contents /\ q.fptr \in 0 .. Len(ct[f]) /\ o = SubSeq(ct[f], 1, q.fptr)
    BY <1>0, <1>1, <1>2 DEF Truncating
  <2> QED BY <1>02, <1>2, <2>1, ShortensIs
<1>22. Good(w, c2, Care(v, fl, ct, st, whole, ch, {f})) /\ c2[f] = t
  BY <1>0, <1>15, <1>16
<1>23. st => st2
  BY <1>01 DEF StaleBy
<1>24. Sound(w, fl2, ct2, {f}, st2, whole, c2)
  <2>1. Turned(fl, fl2, f, p) /\ Turned(ct, ct2, f, o)
    BY <1>0, <1>21
  <2>2. st => st2
    BY <1>23
  <2>3. Ends(v, w, ch, c2, f) /\ c2[f] = t /\ Dirtied(v, f, t, o, p) /\ (~st2 => Holds(w, t, o, p))
    BY <1>17, <1>19, <1>20, <1>22
  <2>4. Good(w, c2, Care(v, fl, ct, st, whole, ch, {f}))
    BY <1>22
  <2>5. FromTo(v, w, fl, fl2, ct, ct2, subj, st, st2, whole, ch, c2, f, t, o, p)
    BY <1>a, <2>1, <2>2, <2>3, <2>4 DEF FromTo
  <2> QED BY <2>5, FromToSound
<1> QED BY <1>24
-----------------------------------------------------------------------------
\* A call about no file.
LEMMA NoneEnds ==
    ASSUME NEW v, NEW fl, NEW ct, NEW subj, NEW st, NEW whole, NEW ch,
           Sound(v, fl, ct, subj, st, whole, ch),
           NEW w, Good(w, ch, Care(v, fl, ct, st, whole, ch, {})), Beside(v, w), FreeRight(w)
    PROVE  Sound(w, fl, ct, {}, st, whole, ch)
<1> DEFINE F == {}
<1>1. Leaving(fl, fl, ct, ct, F) /\ F \in SUBSET Names /\ F \subseteq F /\ (st => st)
  BY DEF Leaving
<1>2. ch[Loose] = Nil /\ ~v.moving /\ Typed(fl, ct)
  BY DEF Sound, Resting
<1>3. Touches(v, w, ch, ch, F) /\ ~w.moving
  BY <1>2 DEF Touches, Untouched, Beside
<1>4. Ended(w, fl, fl, ct, ct, ch, st, F, F)
  BY <1>2, <1>3 DEF Ended
<1>5. Good(w, ch, Care(v, fl, ct, st, whole, ch, F))
  OBVIOUS
<1> HIDE DEF F
<1>6. Sound(w, fl, ct, F, st, whole, ch)
  BY <1>1, <1>3, <1>4, <1>5, CallEnds, SMTT(60)
<1> QED BY <1>6 DEF F

LEMMA FatSectors ==
    LET xs == [k \in 1 .. Clusters |-> FatSector(k+1)]
    IN  xs \in Seq(Sectors)
<1>1. \A k \in 1 .. Clusters : k+1 \in Cluster
  BY Sizes1 DEF Cluster
<1>2. [k \in 1 .. Clusters |-> FatSector(k+1)] \in [1 .. Clusters -> Sectors]
  BY <1>1 DEF Sectors
<1>3. Clusters \in Nat
  BY Sizes1
<1> QED BY <1>2, <1>3

\* f_getfree.
LEMMA GetfreeSound ==
    ASSUME NEW v, NEW fl, NEW ct, NEW subj, NEW st, NEW whole, NEW ch,
           Sound(v, fl, ct, subj, st, whole, ch)
    PROVE  /\ Sound(Called(v), fl, ct, {}, st, whole, ch)
           /\ \A w : w = [Visited(Called(v), [k \in 1 .. Clusters |-> FatSector(k+1)])
                              EXCEPT !.free = Cardinality({c \in Cluster : Called(v).fat[c] = 0})]
                       => Sound(w, fl, ct, {}, st, whole, ch)
<1> DEFINE F == {}
           K == Care(v, fl, ct, st, whole, ch, F)
           v0 == Called(v)
           xs == [k \in 1 .. Clusters |-> FatSector(k+1)]
           u == Visited(v0, xs)
           n == Cardinality(FreeIn(v0.fat))
           w == [u EXCEPT !.free = n]
<1>1. Good(v0, ch, K) /\ Beside(v, v0) /\ FreeRight(v0)
  <2>1. F \in SUBSET Names
    OBVIOUS
  <2> QED BY <2>1, CallStarts
<1>2. Sound(v0, fl, ct, {}, st, whole, ch)
  BY <1>1, NoneEnds
<1>3. xs \in Seq(Sectors)
  BY FatSectors
<1> HIDE DEF xs
<1>4. Quiet(v0, u)
  BY <1>1, <1>3, VisitedQuiet
<1> HIDE DEF u, v0
<1>5. Good(u, ch, K) /\ Alike(v0, u)
  BY <1>1, <1>4 DEF Quiet
<1>6. n \in Nat
  <2>1. v0.fat \in Fats
    BY <1>1, GoodFacts
  <2>2. 2 \in Cluster /\ 0 \in Links
    BY Sizes1 DEF Cluster, Links
  <2> QED BY <2>1, <2>2, FreeChanges
<1>7. n \in Int /\ n = Cardinality(FreeIn(v0.fat))
  BY <1>6
<1> HIDE DEF n
<1>8. Good(w, ch, K)
  BY <1>5, <1>7, FieldsGood
<1>9. /\ w.fat = u.fat /\ w.dir = u.dir /\ w.disk = u.disk /\ w.cut = u.cut /\ w.moving = u.moving
      /\ w.free = n
  <2>1. u \in Vols
    BY <1>5, GoodFacts
  <2> QED BY <2>1 DEF Vols, Volumes
<1> HIDE DEF w
<1>10. Beside(v, w) /\ FreeRight(w)
  <2>1. Beside(v, w)
    BY <1>1, <1>5, <1>9 DEF Beside, Alike
  <2>2. w.fat = v0.fat
    BY <1>5, <1>9 DEF Alike
  <2> QED BY <1>7, <1>9, <2>1, <2>2 DEF FreeRight
<1>11. Sound(w, fl, ct, {}, st, whole, ch)
  BY <1>8, <1>10, NoneEnds
<1>12. n = Cardinality({c \in Cluster : v0.fat[c] = 0})
  BY <1>7 DEF FreeIn
<1>13. w = [Visited(Called(v), [k \in 1 .. Clusters |-> FatSector(k+1)])
                              EXCEPT !.free = Cardinality({c \in Cluster : Called(v).fat[c] = 0})]
  BY <1>12 DEF w, u, v0, xs
<1> QED BY <1>2, <1>11, <1>13 DEF v0
-----------------------------------------------------------------------------
\* The clusters of f are now those of g.
Renamed(ch, c2, f, g) ==
    /\ c2 \in [Holders -> Seq(Cluster)] /\ c2[g] = ch[f] /\ c2[f] = Nil
    /\ \A h \in Holders \ {f, g} : c2[h] = ch[h]

LEMMA RenamedExists ==
    ASSUME NEW ch \in [Holders -> Seq(Cluster)], NEW f \in Names, NEW g \in Names, f # g
    PROVE  \E c2 : Renamed(ch, c2, f, g)
<1> DEFINE c2 == [h \in Holders |-> IF h = g THEN ch[f] ELSE IF h = f THEN Nil ELSE ch[h]]
<1>1. f \in Holders /\ g \in Holders /\ Nil \in Seq(Cluster)
  BY NameFacts, NilIs
<1>2. c2 \in [Holders -> Seq(Cluster)]
  BY <1>1
<1>3. c2[g] = ch[f] /\ c2[f] = Nil /\ \A h \in Holders \ {f, g} : c2[h] = ch[h]
  BY <1>1
<1> QED BY <1>2, <1>3 DEF Renamed

LEMMA RenamedLayout ==
    ASSUME NEW fat, NEW ch, Layout(fat, ch), NEW f \in Names, NEW g \in Names, f # g, ch[g] = Nil,
           NEW c2, Renamed(ch, c2, f, g)
    PROVE  Layout(fat, c2) /\ (Covered(fat, ch) => Covered(fat, c2))
<1>1. f \in Holders /\ g \in Holders
  BY NameFacts
<1>2. \A h \in Holders : h = f \/ h = g \/ h \in Holders \ {f, g}
  OBVIOUS
<1>3. \A h \in Holders : Path(fat, c2[h])
  BY <1>1, <1>2, NilIs DEF Renamed, Layout
<1>4. ASSUME NEW h \in Holders, NEW k \in Holders, h # k PROVE Members(c2[h]) \cap Members(c2[k]) = {}
  <2>1. \A a, b \in Holders : a # b => Members(ch[a]) \cap Members(ch[b]) = {}
    BY DEF Layout
  <2>2. CASE h = f \/ k = f
    BY <2>2, NilIs DEF Renamed
  <2>3. CASE h = g /\ k # f
    <3>1. c2[h] = ch[f] /\ c2[k] = ch[k]
      BY <1>4, <2>3 DEF Renamed
    <3> QED BY <1>1, <2>1, <2>3, <3>1
  <2>4. CASE k = g /\ h # f
    <3>1. c2[k] = ch[f] /\ c2[h] = ch[h]
      BY <1>4, <2>4 DEF Renamed
    <3> QED BY <1>1, <2>1, <2>4, <3>1
  <2>5. CASE h \notin {f, g} /\ k \notin {f, g}
    <3>1. c2[k] = ch[k] /\ c2[h] = ch[h]
      BY <2>5 DEF Renamed
    <3> QED BY <1>4, <2>1, <3>1
  <2> QED BY <2>2, <2>3, <2>4, <2>5
<1>5. ASSUME NEW c \in Cluster, NEW h \in Holders, c \in Members(ch[h])
      PROVE  \E k \in Holders : c \in Members(c2[k])
  <2>1. CASE h = f
    BY <1>1, <1>5, <2>1 DEF Renamed
  <2>2. CASE h = g
    BY <1>5, <2>2, NilIs
  <2>3. CASE h \notin {f, g}
    BY <1>5, <2>3 DEF Renamed
  <2> QED BY <2>1, <2>2, <2>3
<1>6. Covered(fat, ch) => Covered(fat, c2)
  BY <1>5 DEF Covered
<1>7. c2 \in [Holders -> Seq(Cluster)]
  BY DEF Renamed
<1> QED BY <1>3, <1>4, <1>6, <1>7 DEF Layout
-----------------------------------------------------------------------------
\* f_rename has made the entry j of g in w, while i is that of f.
Making(w, ch, K, f, g, i, j) ==
    /\ f \in Names /\ g \in Names /\ f # g
    /\ Good(w, ch, K) /\ FreeRight(w) /\ ch[g] = Nil /\ w.moving = FALSE /\ w.win = DirSector(j)
    /\ i \in 1 .. Slots \ K.slots /\ j \in 1 .. Slots \ K.slots /\ i # j
    /\ w.dir[i].name = f /\ w.dir[j].name = g
    /\ w.dir[i].sclust = First(ch[f])

\* It is filled in.
Filled(w, u, K, ch, i, j, e) ==
    /\ Good(u, ch, K) /\ u.wflag /\ u.dir = [w.dir EXCEPT ![j] = e]
    /\ u.fat = w.fat /\ u.disk.data = w.disk.data /\ u.cut = w.cut /\ u.free = w.free

MovesOn(w, w1) == w1 = [w EXCEPT !.moving = TRUE]

LEMMA MovingOn ==
    ASSUME NEW w, NEW ch, NEW K, Good(w, ch, K), NEW w1, MovesOn(w, w1)
    PROVE  /\ Good(w1, ch, K) /\ w1.dir = w.dir /\ w1.disk.data = w.disk.data /\ w1.fat = w.fat
           /\ w1.free = w.free /\ w1.cut = w.cut /\ w1.moving
<1>1. w \in Vols
  BY DEF Good
<1>2. /\ w1 \in Vols /\ w1.cut = w.cut /\ w1.dir = w.dir /\ w1.fat = w.fat /\ w1.disk = w.disk
      /\ w1.wflag = w.wflag /\ w1.win = w.win /\ w1.images = w.images /\ w1.moving = TRUE /\ w1.free = w.free
  BY <1>1 DEF Vols, Volumes, MovesOn
<1>3. Good(w1, ch, K)
  BY <1>1, <1>2, FineMore
<1> QED BY <1>2, <1>3

LEMMA SameMoving ==
    ASSUME NEW w, w \in Vols, NEW j, w.win = DirSector(j), NEW e
    PROVE  [put_entry(w, j, e) EXCEPT !.moving = TRUE] = put_entry([w EXCEPT !.moving = TRUE], j, e)
<1>1. DOMAIN w = DOMAIN [w EXCEPT !.moving = TRUE] /\ [w EXCEPT !.moving = TRUE].win = w.win
      /\ [w EXCEPT !.moving = TRUE] \in Vols
  BY DEF Vols, Volumes
<1>2. move_window(w, DirSector(j)) = w
  BY DEF move_window
<1>3. move_window([w EXCEPT !.moving = TRUE], DirSector(j)) = [w EXCEPT !.moving = TRUE]
  BY <1>1 DEF move_window
<1>4. w = [disk |-> w.disk, fat |-> w.fat, dir |-> w.dir, win |-> w.win, wflag |-> w.wflag, last |-> w.last,
           free |-> w.free, cut |-> w.cut, moving |-> w.moving, images |-> w.images]
  BY DEF Vols, Volumes
<1>5. [[w EXCEPT !.dir[j] = e, !.wflag = TRUE] EXCEPT !.moving = TRUE]
        = [[w EXCEPT !.moving = TRUE] EXCEPT !.dir[j] = e, !.wflag = TRUE]
  BY <1>4
<1> QED BY <1>2, <1>3, <1>5 DEF put_entry

Fills(w, u, j, e) == u = [put_entry(w, j, e) EXCEPT !.moving = TRUE]

LEMMA RenameFills ==
    ASSUME NEW w, NEW ch, NEW K, NEW f, NEW g, NEW i, NEW j, Making(w, ch, K, f, g, i, j),
           NEW e, e \in Entries(AllNames), e.name = g,
           NEW u, Fills(w, u, j, e)
    PROVE  Filled(w, u, K, ch, i, j, e)
<1>1. w \in Vols /\ Good(w, ch, K) /\ w.win = DirSector(j) /\ w.dir \in Dirs(AllNames) /\ Unique(w.dir)
  BY GoodFacts DEF Making
<1> DEFINE w1 == [w EXCEPT !.moving = TRUE]
           x == put_entry(w1, j, e)
<1>2. u = x
  BY <1>1, SameMoving DEF Fills
<1>3. /\ Good(w1, ch, K) /\ w1.dir = w.dir /\ w1.disk.data = w.disk.data /\ w1.fat = w.fat
      /\ w1.free = w.free /\ w1.cut = w.cut /\ w1.moving
  <2>1. MovesOn(w, w1)
    BY DEF MovesOn
  <2>2. Good(w, ch, K)
    BY <1>1
  <2> HIDE DEF w1
  <2> QED BY <2>1, <2>2, MovingOn
<1> HIDE DEF w1
<1>4. Suits(w1, w1.cut, w1.moving, ch, K, j, e)
  <2>1. \A k \in 1 .. Slots : k # j => w.dir[k].name # g
    BY <1>1, OnlySlot DEF Making
  <2> QED BY <1>3, <2>1 DEF Suits, Making
<1>5. /\ Good(x, ch, K) /\ x.wflag /\ x.dir = [w1.dir EXCEPT ![j] = e] /\ x.fat = w1.fat
      /\ x.disk.data = w1.disk.data /\ x.cut = w1.cut /\ x.free = w1.free
  <2>1. Good(w1, ch, K)
    BY <1>3
  <2>2. /\ Good(x, ch, K) /\ x.wflag /\ x.dir = [w1.dir EXCEPT ![j] = e] /\ x.fat = w1.fat
        /\ x.disk.data = w1.disk.data /\ x.cut = w1.cut /\ x.moving = w1.moving /\ x.free = w1.free
    BY <1>4, <2>1, EntryGood
  <2> QED BY <2>2
<1> HIDE DEF x
<1> QED BY <1>2, <1>3, <1>5 DEF Filled
-----------------------------------------------------------------------------
\* The entry of f is deleted.
Cleared(w, x, K, ch, i, j, e) ==
    /\ Good(x, ch, K) /\ x.wflag
    /\ \A k \in 1 .. Slots : k # i /\ k # j => x.dir[k] = w.dir[k]
    /\ x.dir[j] = e /\ x.dir[i].name = Dde
    /\ x.fat = w.fat /\ x.disk.data = w.disk.data /\ x.cut = w.cut /\ x.free = w.free

LEMMA RenameClears ==
    ASSUME NEW w, NEW ch, NEW K, NEW f, NEW g, NEW i, NEW j, Making(w, ch, K, f, g, i, j),
           NEW e, e \in Entries(AllNames), NEW u, Filled(w, u, K, ch, i, j, e),
           NEW x, x = dir_remove(u, i)
    PROVE  Cleared(w, x, K, ch, i, j, e)
<1>1. /\ Good(u, ch, K) /\ u.dir = [w.dir EXCEPT ![j] = e]
      /\ u.fat = w.fat /\ u.disk.data = w.disk.data /\ u.cut = w.cut /\ u.free = w.free
  BY DEF Filled
<1>2. i \in 1 .. Slots \ K.slots /\ j \in 1 .. Slots /\ i # j
  BY DEF Making
<1> DEFINE y == dir_remove(u, i)
           a == [u.dir[i] EXCEPT !.name = Dde]
<1>3. /\ Good(y, ch, K) /\ y.wflag /\ y.dir = [u.dir EXCEPT ![i] = a]
      /\ y.fat = u.fat /\ y.disk.data = u.disk.data /\ y.cut = u.cut /\ y.free = u.free
  <2>1. Good(u, ch, K)
    BY <1>1
  <2>2. /\ Good(y, ch, K) /\ y.wflag /\ y.dir = [u.dir EXCEPT ![i] = [u.dir[i] EXCEPT !.name = Dde]]
        /\ y.fat = u.fat
        /\ y.disk.data = u.disk.data /\ y.cut = u.cut /\ y.moving = u.moving /\ y.free = u.free
    BY <1>2, <2>1, DirRemoveGood
  <2> QED BY <2>2
<1>4. w.dir \in Dirs(AllNames) /\ u.dir \in Dirs(AllNames)
  BY <1>1, GoodFacts DEF Making
<1>5. a.name = Dde
  <2>1. u.dir[i] \in Entries(AllNames)
    BY <1>2, <1>4 DEF Dirs
  <2> QED BY <2>1 DEF Entries
<1> HIDE DEF y, a
<1>6. u.dir[j] = e /\ \A k \in 1 .. Slots : k # j => u.dir[k] = w.dir[k]
  BY <1>1, <1>2, <1>4 DEF Dirs
<1>7. y.dir[i] = a /\ \A k \in 1 .. Slots : k # i => y.dir[k] = u.dir[k]
  BY <1>2, <1>3, <1>4 DEF Dirs
<1>8. x = y
  BY DEF y
<1> QED BY <1>1, <1>2, <1>3, <1>5, <1>6, <1>7, <1>8 DEF Cleared
-----------------------------------------------------------------------------
\* With the sync of f_rename, g has the clusters of f.
Done(w, z, K, c2, i, j, e) ==
    /\ Good(z, c2, K)
    /\ \A k \in 1 .. Slots : k # i /\ k # j => z.dir[k] = w.dir[k]
    /\ z.dir[j] = e /\ z.dir[i].name = Dde
    /\ z.fat = w.fat /\ z.disk.data = w.disk.data /\ z.cut = w.cut /\ z.free = w.free /\ ~z.moving
    /\ z.disk.dir = z.dir /\ z.disk.fat = z.fat

LEMMA MovingOff ==
    ASSUME NEW x, NEW ch, NEW K, Good(x, ch, K), NEW y, y = [x EXCEPT !.moving = FALSE]
    PROVE  /\ y \in Vols /\ Coherent(y) /\ y.wflag = x.wflag /\ Seen(y) = Seen(x) /\ ~y.moving
           /\ y.cut = x.cut /\ y.fat = x.fat /\ y.dir = x.dir /\ y.disk = x.disk /\ y.free = x.free
           /\ \A m \in y.images : Fine(m, K)
<1>1. x \in Vols /\ Coherent(x) /\ \A m \in x.images : Fine(m, K)
  BY DEF Good
<1>2. /\ y \in Vols /\ y.cut = x.cut /\ y.dir = x.dir /\ y.fat = x.fat /\ y.disk = x.disk
      /\ y.wflag = x.wflag /\ y.win = x.win /\ y.images = x.images /\ ~y.moving /\ y.free = x.free
  BY <1>1 DEF Vols, Volumes
<1> QED BY <1>1, <1>2 DEF Coherent, Seen

SyncsOff(x, z) == z = sync([x EXCEPT !.moving = FALSE])

LEMMA RenameSyncs ==
    ASSUME NEW w, NEW ch, NEW K, NEW f, NEW g, NEW i, NEW j, Making(w, ch, K, f, g, i, j),
           NEW e, e \in Entries(AllNames), e.name = g, e.sclust = First(ch[f]),
           NEW x, Cleared(w, x, K, ch, i, j, e), NEW c2, Renamed(ch, c2, f, g),
           NEW z, SyncsOff(x, z)
    PROVE  Done(w, z, K, c2, i, j, e)
<1> DEFINE y == [x EXCEPT !.moving = FALSE]
<1>1. Good(x, ch, K)
  BY DEF Cleared
<1>2. /\ y \in Vols /\ Coherent(y) /\ y.wflag = x.wflag /\ Seen(y) = Seen(x) /\ ~y.moving
      /\ y.cut = x.cut /\ y.fat = x.fat /\ y.dir = x.dir /\ y.disk = x.disk /\ y.free = x.free
      /\ \A m \in y.images : Fine(m, K)
  BY <1>1, MovingOff
<1>3. z = sync(y)
  BY DEF SyncsOff
<1> HIDE DEF y
<1>4. /\ Layout(x.fat, ch) /\ (K.whole => Covered(x.fat, ch)) /\ Unique(x.dir) /\ Kept(Seen(x), K)
      /\ x.dir \in Dirs(AllNames)
  BY <1>1, GoodFacts
<1>5. Layout(x.fat, c2) /\ (K.whole => Covered(x.fat, c2))
  BY <1>4, RenamedLayout DEF Making
<1>6. Heads(x.dir, c2, x.cut)
  <2> SUFFICES ASSUME NEW k \in Used(x.dir), x.dir[k].name \notin x.cut
               PROVE  x.dir[k].sclust \in {0, First(c2[x.dir[k].name])}
    BY DEF Heads
  <2>1. k \in 1 .. Slots /\ x.dir[k].name \in Names
    BY <1>4, UsedFacts
  <2>2. CASE k = j
    BY <2>2 DEF Cleared, Renamed
  <2>3. CASE k = i
    BY <2>1, <2>3, NameFacts DEF Cleared
  <2>4. CASE k # i /\ k # j
    <3>1. x.dir[k] = w.dir[k] /\ x.cut = w.cut
      BY <2>1, <2>4 DEF Cleared
    <3>2. Good(w, ch, K) /\ w.moving = FALSE /\ i \in 1 .. Slots /\ j \in 1 .. Slots /\ f \in Names /\ g \in Names
          /\ w.dir[i].name = f /\ w.dir[j].name = g
      BY DEF Making
    <3>3. w.dir \in Dirs(AllNames) /\ Unique(w.dir) /\ Heads(w.dir, ch, w.cut)
      BY <3>2, GoodFacts
    <3>4. w.dir[k].name # f /\ w.dir[k].name # g
      BY <2>1, <2>4, <3>2, <3>3, OnlySlot
    <3>5. k \in Used(w.dir)
      <4>1. DOMAIN w.dir = 1 .. Slots
        BY <3>3 DEF Dirs
      <4>2. k \in 1 .. Slots /\ x.dir[k].name \notin {End, Dde}
        BY <2>1 DEF Used
      <4> QED BY <3>1, <4>1, <4>2 DEF Used
    <3>6. w.dir[k].sclust \in {0, First(ch[w.dir[k].name])}
      BY <3>1, <3>3, <3>5 DEF Heads
    <3>7. c2[w.dir[k].name] = ch[w.dir[k].name]
      BY <2>1, <3>1, <3>4, NameFacts DEF Renamed
    <3> QED BY <3>1, <3>6, <3>7
  <2> QED BY <2>2, <2>3, <2>4
<1>7. Right(Seen(y), y.cut, y.moving, c2, K)
  <2>1. Seen(y).fat = x.fat /\ Seen(y).dir = x.dir
    BY <1>2 DEF Seen
  <2> QED BY <1>2, <1>4, <1>5, <1>6, <2>1 DEF Right
<1>8. y.wflag
  BY <1>2 DEF Cleared
<1>9. Good(sync(y), c2, K) /\ Alike(y, sync(y)) /\ sync(y).disk = Seen(y)
  BY <1>2, <1>7, <1>8, SyncGood
<1>10. /\ z.fat = x.fat /\ z.dir = x.dir /\ z.cut = x.cut /\ ~z.moving /\ z.free = x.free
       /\ z.disk.data = x.disk.data /\ Good(z, c2, K)
  BY <1>2, <1>3, <1>9 DEF Alike
<1>11. z.disk.dir = z.dir /\ z.disk.fat = z.fat
  <2>1. z.disk.dir = y.dir /\ z.disk.fat = y.fat
    BY <1>3, <1>9 DEF Seen
  <2> QED BY <1>2, <1>10, <2>1
<1> QED BY <1>10, <1>11 DEF Done, Cleared
-----------------------------------------------------------------------------
\* What f_rename finds and makes before it fills the new entry in with e.
Renaming(v, w, ch, ct, K, f, g, i, j, e) ==
    /\ Making(w, ch, K, f, g, i, j) /\ e = Entry(g, First(ch[f]), Len(ct[f]))
    /\ Shut(v, f, ch[f], ct[f]) /\ g \notin v.cut /\ v.dir[i].name = f /\ v.dir[j].name \in {End, Dde}
    /\ \A k \in 1 .. Slots : k # j => w.dir[k] = v.dir[k]
    /\ w.cut = v.cut /\ w.fat = v.fat /\ w.disk.data = v.disk.data

LEMMA RenameStarts ==
    ASSUME NEW v, NEW fl, NEW ct, NEW subj, NEW st, NEW whole, NEW ch,
           Sound(v, fl, ct, subj, st, whole, ch), NEW f \in Names, NEW g \in Names,
           fl[f] = Closed, fl[g] = Closed, ct[f] # Absent, ct[g] = Absent,
           NEW w0, Quiet(Called(v), w0), NEW i, i = Slot(w0, f),
           NEW w, w = dir_register(w0, g), NEW j, j = Slot(w, g),
           NEW e, e = [w0.dir[i] EXCEPT !.name = g]
    PROVE  Renaming(v, w, ch, ct, Care(v, fl, ct, st, whole, ch, {f, g}), f, g, i, j, e)
<1> DEFINE K == Care(v, fl, ct, st, whole, ch, {f, g})
<1>1. /\ i \in 1 .. Slots /\ w0.dir[i] = Entry(f, First(ch[f]), Len(ct[f])) /\ Shut(v, f, ch[f], ct[f])
  <2>1. Finds(v, w0, ch, ct, Care(v, fl, ct, st, whole, ch, {f}), f, i)
    BY EntryStarts
  <2> QED BY <2>1 DEF Finds
<1>2. w0.dir = v.dir /\ w0.cut = v.cut /\ w0.moving = FALSE /\ w0.fat = v.fat /\ FreeRight(w0)
      /\ w0.disk.data = v.disk.data
  BY CalledBeside DEF Beside
<1>3. /\ Good(w, ch, K) /\ Registered(w0, w, g, j)
      /\ j \in 1 .. Slots /\ w.dir[j] = Entry(g, 0, 0) /\ ch[g] = Nil
      /\ \A k \in 1 .. Slots : k # j => w.dir[k] = v.dir[k]
      /\ v.dir[j].name \in {End, Dde} /\ g \notin v.cut /\ j \notin K.slots
  <2>1. {f, g} \in SUBSET Names /\ g \in {f, g}
    OBVIOUS
  <2> QED BY <2>1, RegisterStarts
<1>4. v.dir[i].name = f /\ v.dir[i].sclust = First(ch[f])
  BY <1>1, <1>2, EntryIs
<1>5. i \notin K.slots
  BY <1>1, <1>4, CareSlots
<1> HIDE DEF K
<1>6. i # j
  BY <1>3, <1>4, NameFacts
<1>7. e = Entry(g, First(ch[f]), Len(ct[f]))
  BY <1>1 DEF Entry
<1>8. w.win = DirSector(j) /\ w.fat = w0.fat /\ w.disk.data = w0.disk.data /\ w.cut = w0.cut
      /\ w.moving = FALSE /\ w.free = w0.free
  BY <1>2, <1>3 DEF Registered
<1>9. FreeRight(w)
  BY <1>2, <1>8 DEF FreeRight
<1>10. w.dir[i].name = f /\ w.dir[i].sclust = First(ch[f]) /\ w.dir[j].name = g
  BY <1>1, <1>3, <1>4, <1>6, EntryIs
<1>11. Making(w, ch, K, f, g, i, j)
  <2>1. f # g
    OBVIOUS
  <2> QED BY <1>1, <1>3, <1>5, <1>6, <1>8, <1>9, <1>10, <2>1 DEF Making
<1>12. Renaming(v, w, ch, ct, K, f, g, i, j, e)
  BY <1>1, <1>2, <1>3, <1>4, <1>7, <1>8, <1>11 DEF Renaming
<1> QED BY <1>12 DEF K
-----------------------------------------------------------------------------
\* What f_rename leaves.
Hands(ct, ct2, f, g) == ct2 = [ct EXCEPT ![g] = ct[f], ![f] = Absent]

LEMMA HandsIs ==
    ASSUME NEW fl, NEW ct, Typed(fl, ct), NEW f \in Names, NEW g \in Names, f # g,
           NEW ct2, Hands(ct, ct2, f, g)
    PROVE  Typed(fl, ct2) /\ ct2[f] = Absent /\ ct2[g] = ct[f] /\ Leaving(fl, fl, ct, ct2, {f, g})
BY DEF Typed, Hands, Leaving

LEMMA RenameTouches ==
    ASSUME NEW v, NEW w, NEW ch, NEW ct, NEW K, NEW f, NEW g, NEW i, NEW j, NEW e,
           Renaming(v, w, ch, ct, K, f, g, i, j, e), NEW c2, Renamed(ch, c2, f, g),
           NEW z, Done(w, z, K, c2, i, j, e)
    PROVE  Touches(v, z, ch, c2, {f, g})
<1> SUFFICES ASSUME NEW h \in Names \ {f, g} PROVE Untouched(v, z, ch, c2, h)
  BY DEF Touches
<1>1. c2[h] = ch[h] /\ (h \in z.cut <=> h \in v.cut)
  BY NameFacts DEF Renamed, Renaming, Done
<1>2. ASSUME NEW k \in 1 .. Slots, v.dir[k].name = h \/ z.dir[k].name = h PROVE z.dir[k] = v.dir[k]
  <2>1. e.name = g
    BY EntryIs DEF Renaming
  <2>2. k # i /\ k # j
    BY <1>2, <2>1, NameFacts DEF Renaming, Done
  <2> QED BY <2>2 DEF Renaming, Done
<1> QED BY <1>1, <1>2 DEF Untouched

LEMMA RenameFiles ==
    ASSUME NEW v, NEW w, NEW ch, NEW ct, NEW K, NEW f, NEW g, NEW i, NEW j, NEW e,
           Renaming(v, w, ch, ct, K, f, g, i, j, e), NEW c2, Renamed(ch, c2, f, g),
           NEW z, Done(w, z, K, c2, i, j, e)
    PROVE  Gone(z, f, c2[f]) /\ Shut(z, g, c2[g], ct[f]) /\ OnDisk(z, f, c2[f]) /\ OnDisk(z, g, c2[g])
<1>1. Making(w, ch, K, f, g, i, j)
  BY DEF Renaming
<1>2. w.dir \in Dirs(AllNames) /\ Unique(w.dir) /\ i \in 1 .. Slots /\ j \in 1 .. Slots /\ f \in Names
      /\ w.dir[i].name = f /\ f # g
  BY <1>1, GoodFacts DEF Making
<1>3. e.name = g
  BY EntryIs DEF Renaming
<1>4. \A k \in 1 .. Slots : z.dir[k].name # f
  <2> SUFFICES ASSUME NEW k \in 1 .. Slots PROVE z.dir[k].name # f
    OBVIOUS
  <2>1. k # i => w.dir[k].name # f
    BY <1>2, OnlySlot
  <2> QED BY <1>2, <1>3, <2>1, NameFacts DEF Done
<1>5. f \notin z.cut /\ g \notin z.cut
  BY DEF Renaming, Shut, Done
<1>6. Gone(z, f, c2[f])
  BY <1>4, <1>5 DEF Gone, Renamed
<1>7. c2[g] = ch[f]
  BY DEF Renamed
<1>8. Shut(z, g, c2[g], ct[f])
  <2>1. Fits(ct[f], c2[g])
    BY <1>7 DEF Renaming, Shut
  <2>2. z.dir[j] = Entry(g, First(c2[g]), Len(ct[f]))
    BY <1>7 DEF Renaming, Done
  <2>3. HasEntry(z, g, c2[g], ct[f])
    BY <1>2, <2>2 DEF HasEntry
  <2> QED BY <1>5, <2>1, <2>3 DEF Shut
<1>9. z.disk.dir = z.dir /\ z.disk.fat = z.fat
  BY DEF Done
<1> QED BY <1>6, <1>8, <1>9 DEF OnDisk

\* f_rename.
LEMMA RenameSound ==
    ASSUME NEW v, NEW fl, NEW ct, NEW subj, NEW st, NEW whole, NEW ch,
           Sound(v, fl, ct, subj, st, whole, ch), NEW f \in Names, NEW g \in Names,
           fl[f] = Closed, ct[f] # Absent, ct[g] = Absent,
           NEW w0, w0 = dir_find(dir_find(Called(v), f), g),
           NEW w, w = dir_register(w0, g),
           NEW u, Fills(w, u, Slot(w, g), [w0.dir[Slot(w0, f)] EXCEPT !.name = g]),
           NEW z, SyncsOff(dir_remove(u, Slot(w0, f)), z),
           NEW ct2, Hands(ct, ct2, f, g)
    PROVE  \E c2 : Sound(z, fl, ct2, {f, g}, st, whole, c2)
<1> DEFINE F == {f, g}
           K == Care(v, fl, ct, st, whole, ch, F)
           i == Slot(w0, f)
           j == Slot(w, g)
           e == [w0.dir[i] EXCEPT !.name = g]
           x == dir_remove(u, i)
<1>1. FileOk(v, g, ch[g], ct[g], fl[g]) /\ Typed(fl, ct) /\ ch[Loose] = Nil
      /\ (~st => Holds(v, ch[f], ct[f], fl[f])) /\ FreeRight(v)
  BY DEF Sound, Resting
<1>2. fl[g] = Closed /\ f # g
  BY <1>1 DEF FileOk
<1>3. Quiet(Called(v), w0)
  <2>1. Quiet(Called(v), dir_find(Called(v), f))
    BY FindStarts
  <2>2. Good(dir_find(Called(v), f), ch, K)
    <3>1. Good(Called(v), ch, K)
      BY CallStarts
    <3> HIDE DEF K
    <3> QED BY <2>1, <3>1 DEF Quiet
  <2>3. Quiet(dir_find(Called(v), f), w0)
    <3> HIDE DEF K
    <3> QED BY <2>2, FindQuiet
  <2> QED BY <2>1, <2>3, QuietTwice
<1>4. Renaming(v, w, ch, ct, K, f, g, i, j, e)
  BY <1>2, <1>3, RenameStarts
<1>5. Fills(w, u, j, e) /\ SyncsOff(x, z) /\ x = dir_remove(u, i)
  OBVIOUS
<1> HIDE DEF K, i, j, e, x, F
<1>6. Making(w, ch, K, f, g, i, j) /\ e = Entry(g, First(ch[f]), Len(ct[f]))
      /\ Shut(v, f, ch[f], ct[f])
  BY <1>4 DEF Renaming
<1>7. e.name = g /\ e.sclust = First(ch[f]) /\ e \in Entries(AllNames)
  <2>1. ct[f] \in Contents /\ Len(ct[f]) \in Nat
    BY <1>6, ContentsFacts DEF Shut, Fits
  <2>2. Good(w, ch, K)
    BY <1>6 DEF Making
  <2>3. Path(w.fat, ch[f])
    BY <2>2, GoodFacts, NameFacts
  <2>4. First(ch[f]) \in {0} \cup Cluster
    BY <2>3, PathFacts, PathMembers
  <2>5. g \in AllNames
    BY DEF AllNames
  <2>6. Entry(g, First(ch[f]), Len(ct[f])) \in Entries(AllNames)
    BY <2>1, <2>4, <2>5 DEF Entry, Entries
  <2> QED BY <1>6, <2>6, EntryIs
<1>8. Filled(w, u, K, ch, i, j, e)
  BY <1>5, <1>6, <1>7, RenameFills
<1>9. Cleared(w, x, K, ch, i, j, e)
  BY <1>5, <1>6, <1>7, <1>8, RenameClears
<1>10. PICK c2 : Renamed(ch, c2, f, g)
  <2>1. ch \in [Holders -> Seq(Cluster)]
    BY <1>6, GoodFacts DEF Making
  <2> QED BY <1>2, <2>1, RenamedExists
<1>11. Done(w, z, K, c2, i, j, e)
  BY <1>5, <1>6, <1>7, <1>9, <1>10, RenameSyncs
<1>12. Touches(v, z, ch, c2, {f, g})
  BY <1>4, <1>10, <1>11, RenameTouches
<1>13. Gone(z, f, c2[f]) /\ Shut(z, g, c2[g], ct[f]) /\ OnDisk(z, f, c2[f]) /\ OnDisk(z, g, c2[g])
  BY <1>4, <1>10, <1>11, RenameFiles
<1>14. Typed(fl, ct2) /\ ct2[f] = Absent /\ ct2[g] = ct[f] /\ Leaving(fl, fl, ct, ct2, {f, g})
  BY <1>1, <1>2, HandsIs
<1>15. Good(z, c2, K) /\ FreeRight(z) /\ ~z.moving /\ c2[Loose] = Nil /\ c2[g] = ch[f]
       /\ z.disk.data = v.disk.data
  <2>1. z.fat = w.fat /\ z.free = w.free /\ ~z.moving /\ Good(z, c2, K) /\ z.disk.data = w.disk.data
    BY <1>11 DEF Done
  <2>2. FreeRight(w)
    BY <1>6 DEF Making
  <2>3. c2[Loose] = Nil /\ c2[g] = ch[f]
    BY <1>1, <1>10, NameFacts DEF Renamed
  <2>4. w.disk.data = v.disk.data
    BY <1>4 DEF Renaming
  <2> QED BY <2>1, <2>2, <2>3, <2>4 DEF FreeRight
<1>16. \A h \in {f, g} : FileOk(z, h, c2[h], ct2[h], fl[h]) /\ OnDisk(z, h, c2[h])
  <2>1. FileOk(z, f, c2[f], ct2[f], fl[f])
    BY <1>13, <1>14 DEF FileOk
  <2>2. FileOk(z, g, c2[g], ct2[g], fl[g])
    BY <1>2, <1>13, <1>14 DEF FileOk
  <2> QED BY <1>13, <2>1, <2>2
<1>17. ~st => \A h \in {f, g} : Holds(z, c2[h], ct2[h], fl[h])
  <2> SUFFICES ASSUME ~st PROVE Holds(z, c2[f], ct2[f], fl[f]) /\ Holds(z, c2[g], ct2[g], fl[g])
    OBVIOUS
  <2>1. Holds(z, c2[f], ct2[f], fl[f])
    BY <1>14 DEF Holds
  <2>2. Holds(v, ch[f], ct[f], Closed)
    BY <1>1
  <2>3. \A y \in Sects(Members(ch[f])) : z.disk.data[y] = v.disk.data[y]
    BY <1>15
  <2>4. Holds(z, ch[f], ct[f], Closed)
    BY <2>2, <2>3, HoldsData, Zenon
  <2> QED BY <1>2, <1>14, <1>15, <2>1, <2>4
<1>18. Ended(z, fl, fl, ct, ct2, c2, st, F, F)
  <2>1. F = {f, g}
    BY DEF F
  <2> QED BY <1>14, <1>15, <1>16, <1>17, <2>1 DEF Ended
<1>19. /\ F \in SUBSET Names /\ F \subseteq F /\ Good(z, c2, Care(v, fl, ct, st, whole, ch, F))
       /\ Touches(v, z, ch, c2, F) /\ Leaving(fl, fl, ct, ct2, F) /\ (st => st)
  BY <1>12, <1>14, <1>15 DEF F, K
<1>20. Sound(z, fl, ct2, F, st, whole, c2)
  BY <1>18, <1>19, CallEnds, SMTT(90)
<1> QED BY <1>20 DEF F
-----------------------------------------------------------------------------
\* A chain has as many clusters as it is long.
LEMMA MembersCount ==
    ASSUME NEW fat, NEW s, Path(fat, s)
    PROVE  Cardinality(Members(s)) = Len(s)
<1> DEFINE n == Len(s)
<1>1. n \in Nat /\ s \in [1 .. n -> Cluster] /\ \A i, j \in 1 .. n : s[i] = s[j] => i = j
  BY PathFacts, PathOnce
<1>2. s \in Bijection(1 .. n, Members(s))
  BY <1>1 DEF Bijection, Injection, Surjection, IsInjective, Members
<1>3. ExistsBijection(1 .. n, Members(s))
  BY <1>2 DEF ExistsBijection
<1>4. IsFiniteSet(1 .. n) /\ Cardinality(1 .. n) = n
  BY <1>1, FS_Interval
<1> QED BY <1>3, <1>4, FS_Bijection

\* How many bytes the clusters of a chain have, as Short counts them.
LEMMA RoomIs ==
    ASSUME NEW n \in Nat
    PROVE  n * CSize * SS = bcs * n
<1>1. CSize \in Nat /\ SS \in Nat
  BY Sizes1
<1> QED BY <1>1 DEF bcs
-----------------------------------------------------------------------------
\* The entry i of the disk d leads to the chain s, which is long enough for it.
Stored(d, i, s) == /\ i \in 1 .. Slots /\ d.dir[i].sclust = First(s) /\ Path(d.fat, s)
                   /\ d.dir[i].size \in Nat

LEMMA StoredIs ==
    ASSUME NEW d, NEW i, NEW s, Stored(d, i, s)
    PROVE  /\ Owned(d, i) = Members(s) /\ ~Dangling(d, i) /\ Chain(d.fat, d.dir[i].sclust) = s
           /\ Short(d, i) <=> bcs * Len(s) < d.dir[i].size
<1>1. Owned(d, i) = Members(s) /\ Chain(d.fat, d.dir[i].sclust) = s
  BY ChainSet, ChainIs DEF Stored, Owned
<1>2. ~Dangling(d, i)
  BY <1>1, PathMembers DEF Stored, Dangling
<1>3. Cardinality(Owned(d, i)) = Len(s) /\ Len(s) \in Nat
  BY <1>1, MembersCount, PathFacts DEF Stored
<1>4. Short(d, i) <=> bcs * Len(s) < d.dir[i].size
  BY <1>3, RoomIs DEF Short
<1> QED BY <1>1, <1>2, <1>4

\* A byte of it.
LEMMA HeldByte ==
    ASSUME NEW d, NEW i, NEW s, Stored(d, i, s),
           NEW x, NEW q, NEW k, NEW r, At(x, q, k, r), x < d.dir[i].size
    PROVE  Held(d, i)[x+1] = d.data[clust2sect(s[q+1]) + k][r]
<1>1. Chain(d.fat, d.dir[i].sclust) = s /\ d.dir[i].size \in Nat
  BY StoredIs DEF Stored
<1>2. x \in Nat /\ q \in Nat /\ k \in Nat /\ r \in Nat /\ r < SS /\ k < CSize /\ x = bcs * q + SS * k + r
      /\ SS * k \in Nat /\ bcs * q \in Nat
  BY AtParts
<1>3. SS \in Nat \ {0} /\ CSize \in Nat \ {0} /\ bcs = CSize * SS
  BY Sizes1
<1>4. x % SS = r /\ x \div SS = CSize * q + k
  <2> DEFINE y == CSize * q + k
  <2>1. y \in Nat /\ x = SS * y + r
    <3>1. CSize * q \in Nat
      BY <1>2, <1>3, Mul
    <3>2. SS * (CSize * q + k) = SS * (CSize * q) + SS * k
      BY <1>2, <1>3, <3>1, Mul
    <3>3. SS * (CSize * q) = bcs * q
      BY <1>2, <1>3
    <3> QED BY <1>2, <3>1, <3>2, <3>3
  <2>2. r \in 0 .. SS-1
    BY <1>2, <1>3
  <2> HIDE DEF y
  <2>3. x \div SS = y /\ x % SS = r
    BY <1>2, <1>3, <2>1, <2>2, DivIs
  <2> QED BY <2>3 DEF y
<1>5. (x \div SS) \div CSize = q /\ (x \div SS) % CSize = k
  <2> DEFINE y == x \div SS
  <2>1. y \in Nat /\ y = CSize * q + k
    BY <1>2, <1>3, <1>4, Mul
  <2>2. k \in 0 .. CSize-1
    BY <1>2, <1>3
  <2> HIDE DEF y
  <2>3. y \div CSize = q /\ y % CSize = k
    <3>1. CSize \in Nat \ {0} /\ q \in Nat
      BY <1>2, <1>3
    <3> QED BY <2>1, <2>2, <3>1, DivIs
  <2> QED BY <2>3 DEF y
<1> DEFINE H(z) == LET y == (z-1) \div SS
                   IN  d.data[clust2sect(s[1 + (y \div CSize)]) + (y % CSize)][(z-1) % SS]
<1>6. Held(d, i) = [z \in 1 .. d.dir[i].size |-> H(z)]
  BY <1>1 DEF Held
<1>7. x+1 \in 1 .. d.dir[i].size /\ (x+1)-1 = x /\ 1 + q = q + 1
  BY <1>1, <1>2
<1>8. H(x+1) = d.data[clust2sect(s[q+1]) + k][r]
  BY <1>4, <1>5, <1>7
<1> HIDE DEF H
<1> QED BY <1>6, <1>7, <1>8

LEMMA HeldList ==
    ASSUME NEW d, NEW i, NEW s, Stored(d, i, s), d.data \in DataAreas, d.dir[i].size <= bcs * Len(s)
    PROVE  Held(d, i) \in Contents /\ Len(Held(d, i)) = d.dir[i].size
<1> DEFINE n == d.dir[i].size
           h == Held(d, i)
<1>1. n \in Nat /\ Len(s) \in Nat /\ s \in Seq(Cluster)
  BY PathFacts DEF Stored
<1>2. DOMAIN h = 1 .. n /\ h = [z \in 1 .. n |-> h[z]]
  BY DEF Held
<1>3. ASSUME NEW z \in 1 .. n PROVE h[z] \in Data \cup {Blank}
  <2> DEFINE x == z-1
  <2>1. x \in Nat /\ x < n /\ x + 1 = z
    BY <1>1
  <2> HIDE DEF x, h
  <2>2. PICK q, k, r : At(x, q, k, r)
    BY <2>1, AtExists
  <2>3. h[z] = d.data[clust2sect(s[q+1]) + k][r]
    BY <2>1, <2>2, HeldByte DEF h
  <2>4. q+1 \in 1 .. Len(s)
    <3>1. x < bcs * Len(s)
      <4>1. bcs * Len(s) \in Nat
        BY <1>1, Sizes1, Mul
      <4> QED BY <1>1, <2>1, <4>1
    <3> QED BY <1>1, <2>2, <3>1, InLength
  <2>5. s[q+1] \in Cluster /\ k \in 0 .. CSize-1 /\ r \in 0 .. SS-1
    BY <1>1, <2>2, <2>4 DEF At
  <2>6. clust2sect(s[q+1]) + k \in DataSector
    BY <2>5, SectorIn
  <2> QED BY <2>3, <2>5, <2>6 DEF DataAreas, Buffers
<1> HIDE DEF h
<1>4. h \in Seq(Data \cup {Blank})
  BY <1>1, <1>2, <1>3, ListOf
<1>5. Len(h) = n
  BY <1>1, <1>2, <1>3, ListOf
<1> QED BY <1>4, <1>5 DEF h, Contents
-----------------------------------------------------------------------------
LEMMA InSectorIs ==
    ASSUME NEW s \in Seq(Cluster), NEW x, NEW X, NEW r, InSector(s, x, X, r)
    PROVE  /\ X \in DataSector /\ X \in Sects(Members(s)) /\ X # -1
           /\ \E q, k : At(x, q, k, r) /\ X = clust2sect(s[q+1]) + k
<1>1. PICK q, k : At(x, q, k, r) /\ q+1 \in 1 .. Len(s) /\ X = clust2sect(s[q+1]) + k
  BY DEF InSector
<1>2. s[q+1] \in Cluster /\ k \in 0 .. CSize-1 /\ s[q+1] \in Members(s)
  BY <1>1, ListFacts DEF At, Members
<1>3. X \in DataSector
  BY <1>1, <1>2, SectorIn
<1>4. X \in Sects(Members(s))
  BY <1>1, <1>2 DEF Sects
<1>5. X # -1
  BY <1>3 DEF DataSector
<1> QED BY <1>1, <1>3, <1>4, <1>5

\* What is on the disk of a file is what the file holds, if its buffer is not newer.
LEMMA HeldAgrees ==
    ASSUME NEW d, NEW i, NEW s, Stored(d, i, s), d.data \in DataAreas,
           NEW c \in Contents, d.dir[i].size = Len(c), Len(c) <= bcs * Len(s),
           NEW x, Holding(x, s, c), ~x.p.dirty, \A y \in Sects(Members(s)) : d.data[y] = x.v.disk.data[y]
    PROVE  Agrees(Held(d, i), c)
<1>1. Len(Held(d, i)) = Len(c) /\ DOMAIN c = 1 .. Len(c) /\ Len(c) \in Nat /\ s \in Seq(Cluster)
      /\ Len(s) \in Nat
  BY HeldList, ContentsFacts, PathFacts DEF Stored
<1>2. ASSUME NEW z \in DOMAIN c, c[z] # Blank PROVE Held(d, i)[z] = c[z]
  <2> DEFINE y == z-1
  <2>1. y \in 0 .. Len(c)-1 /\ y \in Nat /\ y < Len(c) /\ y + 1 = z
    BY <1>1
  <2> HIDE DEF y
  <2>2. PICK q, k, r : At(y, q, k, r)
    BY <2>1, AtExists
  <2>3. Held(d, i)[z] = d.data[clust2sect(s[q+1]) + k][r]
    BY <2>1, <2>2, HeldByte
  <2>4. q+1 \in 1 .. Len(s)
    <3>1. y < bcs * Len(s)
      <4>1. bcs * Len(s) \in Nat
        BY <1>1, Sizes1, Mul
      <4> QED BY <1>1, <2>1, <4>1
    <3> QED BY <1>1, <2>2, <3>1, InLength
  <2> DEFINE X == clust2sect(s[q+1]) + k
  <2>5. InSector(s, y, X, r)
    BY <2>2, <2>4 DEF InSector
  <2>6. X \in Sects(Members(s))
    BY <1>1, <2>5, InSectorIs
  <2> HIDE DEF X
  <2>7. Has(x, X, r, c[z])
    BY <1>2, <2>1, <2>5 DEF Holding
  <2>8. x.v.disk.data[X][r] = c[z] /\ d.data[X] = x.v.disk.data[X]
    BY <2>6, <2>7 DEF Has
  <2> QED BY <2>3, <2>8 DEF X
<1> QED BY <1>1, <1>2 DEF Agrees

LEMMA IdleIs == Idle.dirty = FALSE /\ Idle.dsect = -1
BY DEF Idle

\* A file is from now on what the disk has of it.
LEMMA HeldHolds ==
    ASSUME NEW d, NEW i, NEW s, Stored(d, i, s), d.data \in DataAreas, d.dir[i].size <= bcs * Len(s),
           NEW v, v.disk = d
    PROVE  Holds(v, s, Held(d, i), Closed)
<1> DEFINE c == Held(d, i)
           u == On(v, Idle)
<1>1. u.p.dirty = FALSE /\ u.p.dsect = -1 /\ u.v = v
  BY IdleIs DEF On
<1>2. c \in Contents /\ Len(c) = d.dir[i].size /\ Len(c) \in Nat
  BY HeldList DEF Stored
<1>3. s \in Seq(Cluster)
  BY PathFacts DEF Stored
<1> HIDE DEF c, u
<1>4. ASSUME NEW x \in 0 .. Len(c)-1, NEW X, NEW r, InSector(s, x, X, r) PROVE Has(u, X, r, c[x+1])
  <2>1. X # -1 /\ \E q, k : At(x, q, k, r) /\ X = clust2sect(s[q+1]) + k
    BY <1>3, <1>4, InSectorIs
  <2>2. PICK q, k : At(x, q, k, r) /\ X = clust2sect(s[q+1]) + k
    BY <2>1
  <2>3. x < d.dir[i].size
    BY <1>2
  <2>4. c[x+1] = d.data[X][r]
    BY <2>2, <2>3, HeldByte DEF c
  <2> QED BY <1>1, <2>1, <2>4 DEF Has
<1>5. Holding(u, s, c)
  BY <1>1, <1>4 DEF Holding
<1> QED BY <1>5 DEF Holds, Fil, c, u
-----------------------------------------------------------------------------
LEMMA NothingAlone ==
    ASSUME NEW v, NEW ch, NEW whole
    PROVE  LET K == Alone(v, ch, {}, {}, whole)
           IN  K.slots = {} /\ K.clusters = {} /\ K.sects = {} /\ K.whole = whole
BY NoSects DEF Alone, Chains

\* A volume is mounted.
LEMMA MountedGood ==
    ASSUME NEW d \in Disks(AllNames, DataAreas), NEW ch, NEW whole,
           Layout(d.fat, ch), whole => Covered(d.fat, ch), Unique(d.dir), Heads(d.dir, ch, {}),
           NEW v, v = chk_mounted(d)
    PROVE  /\ Good(v, ch, Alone(v, ch, {}, {}, whole)) /\ FreeRight(v) /\ ~v.moving /\ v.cut = {}
           /\ v.disk = d /\ v.fat = d.fat /\ v.dir = d.dir /\ \A m \in v.images : m.disk = d
<1> DEFINE K == Alone(v, ch, {}, {}, whole)
           m0 == Moment(v, d)
<1>1. /\ v.disk = d /\ v.fat = d.fat /\ v.dir = d.dir /\ v.win = << >> /\ ~v.wflag /\ v.last = 0
      /\ v.free = Unknown /\ v.cut = {} /\ v.moving = FALSE /\ v.images = {m0}
  BY DEF chk_mounted, Moment
<1>2. m0.disk = d /\ m0.cut = {} /\ m0.moving = FALSE
  BY <1>1 DEF Moment
<1>3. v \in Vols
  <2>1. m0 \in Moments(AllNames, DataAreas)
    BY <1>1 DEF Moment, Moments
  <2>2. d.fat \in Fats /\ d.dir \in Dirs(AllNames)
    BY DEF Disks
  <2>3. v = [disk |-> d, fat |-> d.fat, dir |-> d.dir, win |-> << >>, wflag |-> FALSE, last |-> 0,
             free |-> Unknown, cut |-> {}, moving |-> FALSE, images |-> {m0}]
    BY DEF chk_mounted, Moment
  <2>4. << >> \in Sectors
    BY DEF Sectors
  <2> HIDE DEF m0
  <2> QED BY <2>1, <2>2, <2>3, <2>4 DEF Vols, Volumes, Unknown
<1>4. Coherent(v)
  BY <1>1 DEF Coherent
<1>5. K.slots = {} /\ K.clusters = {} /\ K.sects = {} /\ K.whole = whole
  BY NothingAlone
<1> HIDE DEF K, m0
<1>6. Right(d, {}, FALSE, ch, K)
  BY <1>5 DEF Right, Kept
<1>7. Right(Seen(v), v.cut, v.moving, ch, K)
  <2>1. Seen(v).fat = d.fat /\ Seen(v).dir = d.dir
    BY <1>1 DEF Seen
  <2> QED BY <1>1, <1>5, <2>1 DEF Right, Kept
<1>8. Fine(m0, K)
  BY <1>2, <1>6 DEF Fine
<1>9. Good(v, ch, K)
  BY <1>1, <1>3, <1>4, <1>7, <1>8 DEF Good, m0
<1> QED BY <1>1, <1>2, <1>9 DEF K, FreeRight

\* A file of a volume that is mounted is not open.
FileThere(d, f, g, c) ==
    \/ c = Absent /\ g = Nil /\ \A i \in 1 .. Slots : d.dir[i].name # f
    \/ /\ c # Absent /\ Fits(c, g) /\ \E i \in 1 .. Slots : d.dir[i] = Entry(f, First(g), Len(c))
       /\ \A v : v.disk = d => Holds(v, g, c, Closed)

LEMMA MountedSound ==
    ASSUME NEW d \in Disks(AllNames, DataAreas), NEW ch, NEW whole \in BOOLEAN,
           Layout(d.fat, ch), whole => Covered(d.fat, ch), Unique(d.dir), Heads(d.dir, ch, {}), ch[Loose] = Nil,
           NEW v, v = chk_mounted(d), NEW fl, NEW ct, Typed(fl, ct), \A f \in Names : fl[f] = Closed,
           \A f \in Names : FileThere(d, f, ch[f], ct[f]), NEW st
    PROVE  Sound(v, fl, ct, {}, st, whole, ch)
<1>1. /\ Good(v, ch, Alone(v, ch, {}, {}, whole)) /\ FreeRight(v) /\ ~v.moving /\ v.cut = {}
      /\ v.disk = d /\ v.fat = d.fat /\ v.dir = d.dir /\ \A m \in v.images : m.disk = d
  BY MountedGood
<1>2. Resting(v, ch, whole)
  BY <1>1 DEF Resting
<1>3. \A f \in Names : FileOk(v, f, ch[f], ct[f], fl[f])
  BY <1>1 DEF FileThere, FileOk, Gone, Shut, HasEntry
<1>4. \A f \in Names : OnDisk(v, f, ch[f])
  BY <1>1 DEF OnDisk
<1>5. \A f \in Names : Holds(v, ch[f], ct[f], fl[f])
  BY <1>1 DEF FileThere, Holds
<1>6. \A f \in Names : \A m \in v.images : Unmoved(v, m.disk, f, ch[f])
  BY <1>1 DEF Unmoved
<1>7. Bystanders(fl, ct, {}) \subseteq Names
  BY DEF Bystanders
<1> QED BY <1>2, <1>3, <1>4, <1>5, <1>6, <1>7 DEF Sound
-----------------------------------------------------------------------------
NoChains == [h \in Holders |-> Nil]
\* The volume that f_mkfs made.
LEMMA InitSound ==
    ASSUME NEW d, d = f_mkfs([x \in DataSector |-> Bytes(Blank)]), NEW v, v = chk_mounted(d),
           NEW fl, fl = [f \in Names |-> Closed], NEW ct, ct = [f \in Names |-> Absent]
    PROVE  Sound(v, fl, ct, {}, FALSE, TRUE, NoChains)
<1>1. Bytes(Blank) \in Buffers
  BY DEF Bytes, Buffers
<1>2. d.fat = [c \in Cluster |-> 0] /\ d.dir = [i \in 1 .. Slots |-> Entry(End, 0, 0)]
      /\ d.data = [x \in DataSector |-> Bytes(Blank)] /\ d = [fat |-> d.fat, dir |-> d.dir, data |-> d.data]
  BY DEF f_mkfs
<1>3. d \in Disks(AllNames, DataAreas)
  <2>1. d.fat \in Fats
    BY <1>2 DEF Fats, Links
  <2>2. Entry(End, 0, 0) \in Entries(AllNames)
    BY DEF Entry, Entries, AllNames
  <2>3. d.dir \in Dirs(AllNames)
    BY <1>2, <2>2 DEF Dirs
  <2>4. d.data \in DataAreas
    BY <1>1, <1>2 DEF DataAreas
  <2> QED BY <1>2, <2>1, <2>3, <2>4 DEF Disks
<1>4. \A i \in 1 .. Slots : d.dir[i].name = End
  <2>1. Entry(End, 0, 0).name = End
    BY DEF Entry
  <2> QED BY <1>2, <2>1
<1>5. Used(d.dir) = {}
  BY <1>2, <1>4 DEF Used
<1>6. \A h \in Holders : NoChains[h] = Nil
  BY DEF NoChains
<1>7. Layout(d.fat, NoChains)
  <2>1. NoChains \in [Holders -> Seq(Cluster)]
    BY NilIs DEF NoChains
  <2> QED BY <1>6, <2>1, NilIs DEF Layout
<1>8. Covered(d.fat, NoChains)
  BY <1>2 DEF Covered
<1>9. Unique(d.dir) /\ Heads(d.dir, NoChains, {})
  BY <1>5 DEF Unique, Heads
<1>10. Typed(fl, ct)
  BY DEF Typed
<1>11. \A f \in Names : FileThere(d, f, NoChains[f], ct[f])
  BY <1>4, <1>6, NameFacts DEF FileThere
<1>12. \A f \in Names : fl[f] = Closed
  OBVIOUS
<1>13. NoChains[Loose] = Nil
  BY <1>6, NameFacts
<1> QED BY <1>3, <1>7, <1>8, <1>9, <1>10, <1>11, <1>12, <1>13, MountedSound
-----------------------------------------------------------------------------
\* An entry of a disk that is whole leads to a chain.
LEMMA WholeStored ==
    ASSUME NEW d \in Disks(AllNames, DataAreas), NEW c0, Layout(d.fat, c0), Covered(d.fat, c0), Whole(d),
           NEW i \in Used(d.dir)
    PROVE  Stored(d, i, Chain(d.fat, d.dir[i].sclust)) /\ d.dir[i].size <= bcs * Len(Chain(d.fat, d.dir[i].sclust))
<1> DEFINE c == d.dir[i].sclust
<1>1. i \in 1 .. Slots /\ c \in {0} \cup Cluster /\ d.dir[i].size \in Nat /\ d.fat \in Fats
  BY UsedFacts DEF Disks
<1>2. ~Dangling(d, i) /\ ~Short(d, i)
  BY DEF Whole
<1>3. \E s : Path(d.fat, s) /\ First(s) = c
  <2>1. CASE c = 0
    BY <2>1, NilIs
  <2>2. CASE c \in Cluster
    <3>1. d.fat[c] # 0
      BY <1>2, <2>2, ChainFree DEF Dangling, Owned
    <3>2. PICK h \in Holders : c \in Members(c0[h])
      BY <2>2, <3>1 DEF Covered
    <3>3. Path(d.fat, c0[h])
      BY DEF Layout
    <3> QED BY <3>2, <3>3, PathSuffix
  <2> QED BY <1>1, <2>1, <2>2
<1>4. PICK s : Path(d.fat, s) /\ First(s) = c
  BY <1>3
<1>5. Chain(d.fat, c) = s
  BY <1>4, ChainIs
<1>6. Stored(d, i, s)
  BY <1>1, <1>4 DEF Stored
<1>7. ~(bcs * Len(s) < d.dir[i].size)
  BY <1>2, <1>6, StoredIs
<1>8. bcs * Len(s) \in Nat
  BY <1>4, PathFacts, Sizes1, Mul
<1> QED BY <1>1, <1>5, <1>6, <1>7, <1>8

\* The chains of a disk that is whole.
ChainsOf(d) == [h \in Holders |-> IF h \in Names /\ Slot(d, h) # 0
                                    THEN Chain(d.fat, d.dir[Slot(d, h)].sclust) ELSE Nil]

LEMMA WholeChains ==
    ASSUME NEW d \in Disks(AllNames, DataAreas), NEW c0, Layout(d.fat, c0), Covered(d.fat, c0),
           Unique(d.dir), Whole(d)
    PROVE  /\ Layout(d.fat, ChainsOf(d)) /\ Heads(d.dir, ChainsOf(d), {}) /\ ChainsOf(d)[Loose] = Nil
           /\ \A f \in Names : Slot(d, f) = 0 =>
                    ChainsOf(d)[f] = Nil /\ \A i \in 1 .. Slots : d.dir[i].name # f
           /\ \A f \in Names : LET i == Slot(d, f) IN i # 0 =>
                    /\ Stored(d, i, ChainsOf(d)[f]) /\ d.dir[i].name = f /\ i \in Used(d.dir)
                    /\ d.dir[i].size <= bcs * Len(ChainsOf(d)[f])
<1> DEFINE c2 == ChainsOf(d)
<1>1. d.dir \in Dirs(AllNames) /\ d.fat \in Fats /\ DOMAIN d.dir = 1 .. Slots
  BY DEF Disks, Dirs
<1>2. /\ \A f \in Names : Slot(d, f) # 0 => c2[f] = Chain(d.fat, d.dir[Slot(d, f)].sclust)
      /\ \A f \in Names : Slot(d, f) = 0 => c2[f] = Nil
      /\ c2[Loose] = Nil
  BY NameFacts DEF ChainsOf
<1> HIDE DEF c2
<1>3. ASSUME NEW f \in Names, Slot(d, f) # 0
      PROVE  LET i == Slot(d, f) IN
             /\ Stored(d, i, c2[f]) /\ d.dir[i].name = f /\ i \in Used(d.dir)
             /\ d.dir[i].size <= bcs * Len(c2[f])
  <2> DEFINE i == Slot(d, f)
  <2>1. i \in 1 .. Slots /\ d.dir[i].name = f
    BY <1>1, <1>3, SlotIs
  <2>2. i \in Used(d.dir)
    BY <1>1, <2>1, NameFacts DEF Used
  <2>3. c2[f] = Chain(d.fat, d.dir[i].sclust)
    BY <1>2, <1>3
  <2> HIDE DEF i
  <2>4. Stored(d, i, c2[f]) /\ d.dir[i].size <= bcs * Len(c2[f])
    BY <2>2, <2>3, WholeStored
  <2> QED BY <2>1, <2>2, <2>4 DEF i
<1>4. ASSUME NEW f \in Names, Slot(d, f) = 0 PROVE \A i \in 1 .. Slots : d.dir[i].name # f
  BY <1>1, <1>4, SlotIs
<1>5. \A h \in Holders : Path(d.fat, c2[h])
  <2> SUFFICES ASSUME NEW h \in Holders PROVE Path(d.fat, c2[h])
    OBVIOUS
  <2>1. CASE h \in Names /\ Slot(d, h) # 0
    BY <1>3, <2>1 DEF Stored
  <2>2. CASE c2[h] = Nil
    BY <2>2, NilIs
  <2> QED BY <1>2, <2>1, <2>2, NameFacts
<1>6. c2 \in [Holders -> Seq(Cluster)]
  <2>1. \A h \in Holders : c2[h] \in Seq(Cluster)
    BY <1>5, PathFacts
  <2>2. DOMAIN c2 = Holders /\ c2 = [h \in Holders |-> c2[h]]
    BY DEF c2, ChainsOf
  <2> QED BY <2>1, <2>2
<1>7. \A f, g \in Holders : f # g => Members(c2[f]) \cap Members(c2[g]) = {}
  <2> SUFFICES ASSUME NEW f \in Holders, NEW g \in Holders, f # g PROVE Members(c2[f]) \cap Members(c2[g]) = {}
    OBVIOUS
  <2>1. CASE c2[f] = Nil \/ c2[g] = Nil
    BY <2>1, NilIs
  <2>2. CASE f \in Names /\ g \in Names /\ Slot(d, f) # 0 /\ Slot(d, g) # 0
    <3> DEFINE i == Slot(d, f)
               j == Slot(d, g)
    <3>1. Stored(d, i, c2[f]) /\ d.dir[i].name = f /\ i \in Used(d.dir)
      BY <1>3, <2>2
    <3>2. Stored(d, j, c2[g]) /\ d.dir[j].name = g /\ j \in Used(d.dir)
      BY <1>3, <2>2
    <3> HIDE DEF i, j
    <3>3. i # j
      BY <3>1, <3>2
    <3>4. Owned(d, i) \cap Owned(d, j) = {}
      BY <3>1, <3>2, <3>3 DEF Whole, CrossLinked
    <3>5. Owned(d, i) = Members(c2[f]) /\ Owned(d, j) = Members(c2[g])
      BY <3>1, <3>2, StoredIs
    <3> QED BY <3>4, <3>5
  <2> QED BY <1>2, <2>1, <2>2, NameFacts
<1>8. Layout(d.fat, c2)
  BY <1>5, <1>6, <1>7 DEF Layout
<1>9. Heads(d.dir, c2, {})
  <2> SUFFICES ASSUME NEW i \in Used(d.dir) PROVE d.dir[i].sclust = First(c2[d.dir[i].name])
    BY DEF Heads
  <2> DEFINE f == d.dir[i].name
  <2>1. f \in Names /\ i \in 1 .. Slots
    BY <1>1, UsedFacts
  <2> HIDE DEF f
  <2>2. Slot(d, f) = i
    BY <1>1, <2>1, SlotIs DEF f
  <2>3. i # 0
    BY <2>1
  <2>4. Stored(d, i, c2[f])
    BY <1>3, <2>1, <2>2, <2>3
  <2> QED BY <2>4 DEF Stored, f
<1>10. \A f \in Names : Slot(d, f) = 0 => c2[f] = Nil /\ \A i \in 1 .. Slots : d.dir[i].name # f
  BY <1>2, <1>4
<1> QED BY <1>2, <1>3, <1>8, <1>9, <1>10 DEF c2
-----------------------------------------------------------------------------
\* A crash leaves the disk of some moment, which is whole.
LEMMA CrashSound ==
    ASSUME NEW v, NEW fl, NEW ct, NEW subj, NEW st, NEW ch, Sound(v, fl, ct, subj, st, TRUE, ch),
           NEW m \in v.images, NEW d, d = m.disk, Whole(d), NEW w, w = chk_mounted(d),
           NEW fl2, fl2 = [f \in Names |-> Closed],
           NEW ct2, ct2 = [f \in Names |-> LET i == Slot(d, f) IN IF i = 0 THEN Absent ELSE Held(d, i)]
    PROVE  Sound(w, fl2, ct2, {}, st, FALSE, ChainsOf(d))
<1> DEFINE K == Alone(v, ch, {}, {}, TRUE)
           c2 == ChainsOf(d)
<1>1. Good(v, ch, K)
  BY DEF Sound, Resting
<1>2. K.whole = TRUE
  BY DEF Alone
<1> HIDE DEF K
<1>3. d \in Disks(AllNames, DataAreas)
  <2>1. v \in Vols
    BY <1>1 DEF Good
  <2>2. m \in Moments(AllNames, DataAreas)
    BY <2>1 DEF Vols, Volumes
  <2> QED BY <2>2 DEF Moments
<1>4. PICK c0 : Right(d, m.cut, m.moving, c0, K)
  BY <1>1 DEF Good, Fine
<1>5. Layout(d.fat, c0) /\ Covered(d.fat, c0) /\ Unique(d.dir)
  BY <1>2, <1>4 DEF Right
<1>6. /\ Layout(d.fat, c2) /\ Heads(d.dir, c2, {}) /\ c2[Loose] = Nil
      /\ \A f \in Names : Slot(d, f) = 0 =>
               c2[f] = Nil /\ \A i \in 1 .. Slots : d.dir[i].name # f
      /\ \A f \in Names : Slot(d, f) # 0 =>
               /\ Stored(d, Slot(d, f), c2[f]) /\ d.dir[Slot(d, f)].name = f /\ Slot(d, f) \in Used(d.dir)
               /\ d.dir[Slot(d, f)].size <= bcs * Len(c2[f])
  BY <1>3, <1>5, WholeChains
<1> HIDE DEF c2
<1>7. d.data \in DataAreas /\ d.dir \in Dirs(AllNames)
  BY <1>3 DEF Disks
<1>8. \A f \in Names : FileThere(d, f, c2[f], ct2[f]) /\ ct2[f] \in Contents \cup {Absent}
  <2> SUFFICES ASSUME NEW f \in Names PROVE FileThere(d, f, c2[f], ct2[f]) /\ ct2[f] \in Contents \cup {Absent}
    OBVIOUS
  <2>1. CASE Slot(d, f) = 0
    <3>1. ct2[f] = Absent
      BY <2>1
    <3> QED BY <1>6, <2>1, <3>1 DEF FileThere
  <2>2. CASE Slot(d, f) # 0
    <3> DEFINE i == Slot(d, f)
               c == Held(d, i)
    <3>1. ct2[f] = c
      BY <2>2
    <3>2. Stored(d, i, c2[f]) /\ d.dir[i].name = f /\ i \in Used(d.dir) /\ d.dir[i].size <= bcs * Len(c2[f])
      BY <1>6, <2>2
    <3> HIDE DEF i
    <3>3. c \in Contents /\ Len(c) = d.dir[i].size
      BY <1>7, <3>2, HeldList
    <3>4. \A u : u.disk = d => Holds(u, c2[f], c, Closed)
      BY <1>7, <3>2, HeldHolds
    <3>5. d.dir[i] = Entry(f, First(c2[f]), Len(c))
      BY <1>7, <3>2, <3>3 DEF Stored, Entry, Dirs, Entries
    <3>6. i \in 1 .. Slots
      BY <3>2 DEF Stored
    <3> HIDE DEF c
    <3>7. Fits(c, c2[f])
      BY <3>2, <3>3 DEF Fits
    <3>8. c # Absent
      BY <3>3, NotIn
    <3> QED BY <3>1, <3>3, <3>4, <3>5, <3>6, <3>7, <3>8 DEF FileThere
  <2> QED BY <2>1, <2>2
<1>9. Typed(fl2, ct2)
  <2>1. ct2 \in [Names -> Contents \cup {Absent}]
    BY <1>8
  <2>2. fl2 \in [Names -> FilRec \cup {Closed}] /\ \A f \in Names : fl2[f] = Closed
    OBVIOUS
  <2> QED BY <2>1, <2>2 DEF Typed
<1>10. \A f \in Names : fl2[f] = Closed
  OBVIOUS
<1>11. FALSE \in BOOLEAN /\ (FALSE => Covered(d.fat, c2))
  OBVIOUS
<1>12. Sound(w, fl2, ct2, {}, st, FALSE, c2)
  BY <1>3, <1>5, <1>6, <1>8, <1>9, <1>10, <1>11, MountedSound
<1> QED BY <1>12 DEF c2
-----------------------------------------------------------------------------
\* What the disk of a moment has when no file is being renamed or cut.
LEMMA CalmMoment ==
    ASSUME NEW m \in Moments(AllNames, DataAreas), NEW K, Fine(m, K), ~m.moving, m.cut = {}
    PROVE  ~CrossLinked(m.disk) /\ \A i \in Used(m.disk.dir) : ~Dangling(m.disk, i)
<1> DEFINE d == m.disk
<1>1. d.dir \in Dirs(AllNames) /\ m.moving = FALSE
  BY DEF Moments, Disks
<1>2. PICK c0 : Right(d, m.cut, m.moving, c0, K)
  BY DEF Fine
<1>3. Layout(d.fat, c0) /\ Unique(d.dir) /\ Heads(d.dir, c0, {})
  BY <1>1, <1>2 DEF Right
<1> HIDE DEF d
<1>4. ASSUME NEW i \in Used(d.dir)
      PROVE  d.dir[i].name \in Names /\ ~Dangling(d, i) /\ Owned(d, i) \subseteq Members(c0[d.dir[i].name])
  <2> DEFINE f == d.dir[i].name
  <2>1. f \in Names /\ i \in 1 .. Slots /\ d.dir[i].size \in Nat
    BY <1>1, UsedFacts
  <2>2. d.dir[i].sclust \in {0, First(c0[f])}
    BY <1>3 DEF Heads
  <2> HIDE DEF f
  <2>3. Path(d.fat, c0[f])
    BY <1>3, <2>1, NameFacts DEF Layout
  <2>4. CASE d.dir[i].sclust = 0
    <3>1. Stored(d, i, Nil)
      BY <2>1, <2>4, NilIs DEF Stored
    <3>2. Owned(d, i) = {} /\ ~Dangling(d, i)
      BY <3>1, StoredIs, NilIs
    <3> QED BY <2>1, <3>2 DEF f
  <2>5. CASE d.dir[i].sclust = First(c0[f])
    <3>1. Stored(d, i, c0[f])
      BY <2>1, <2>3, <2>5 DEF Stored
    <3> QED BY <2>1, <3>1, StoredIs DEF f
  <2> QED BY <2>2, <2>4, <2>5
<1>5. ASSUME NEW i \in Used(d.dir), NEW j \in Used(d.dir), i # j
      PROVE  Owned(d, i) \cap Owned(d, j) = {}
  <2>1. d.dir[i].name # d.dir[j].name
    BY <1>3, <1>5 DEF Unique
  <2>2. d.dir[i].name \in Holders /\ d.dir[j].name \in Holders
    BY <1>4, NameFacts
  <2>3. Members(c0[d.dir[i].name]) \cap Members(c0[d.dir[j].name]) = {}
    BY <1>3, <2>1, <2>2 DEF Layout
  <2> QED BY <1>4, <2>3
<1> QED BY <1>4, <1>5 DEF CrossLinked, d
-----------------------------------------------------------------------------
\* A file as a disk d has it that was not changed.
LEMMA StillThere ==
    ASSUME NEW d, d.dir \in Dirs(AllNames), d.data \in DataAreas, Unique(d.dir), NEW f \in Names,
           NEW i \in 1 .. Slots, NEW g, NEW c, Fits(c, g), d.dir[i] = Entry(f, First(g), Len(c)), Path(d.fat, g),
           NEW x, Holding(x, g, c), ~x.p.dirty, \A y \in Sects(Members(g)) : d.data[y] = x.v.disk.data[y]
    PROVE  LET k == Slot(d, f)
           IN  k # 0 /\ ~Dangling(d, k) /\ ~Short(d, k) /\ Agrees(Held(d, k), c)
<1>1. d.dir[i].name = f /\ d.dir[i].sclust = First(g) /\ d.dir[i].size = Len(c)
  BY EntryIs
<1>2. Slot(d, f) = i
  BY <1>1, SlotIs
<1>3. c \in Contents /\ Len(c) \in Nat /\ Len(c) <= bcs * Len(g)
  BY ContentsFacts DEF Fits
<1>4. Stored(d, i, g)
  BY <1>1, <1>3 DEF Stored
<1>5. ~Dangling(d, i)
  BY <1>4, StoredIs
<1>6. ~Short(d, i)
  <2>1. bcs * Len(g) \in Nat
    BY PathFacts, Sizes1, Mul
  <2> QED BY <1>1, <1>3, <1>4, <2>1, StoredIs
<1>7. Agrees(Held(d, i), c)
  BY <1>1, <1>3, <1>4, HeldAgrees
<1>8. i # 0
  OBVIOUS
<1> QED BY <1>2, <1>5, <1>6, <1>7, <1>8

\* The entry, the chain and the bytes of a file that was not changed since it was
\* synchronised, as the disk has them.
Written1(v, f, g, c, p) ==
    /\ Fits(c, g) /\ (\E i \in 1 .. Slots : v.dir[i] = Entry(f, First(g), Len(c)) /\ v.disk.dir[i] = v.dir[i])
    /\ Path(v.disk.fat, g)
    /\ Holding(On(v, Fil(p)), g, c) /\ Fil(p).dirty = FALSE

LEMMA SettledIs ==
    ASSUME NEW v, NEW fl, NEW ct, NEW subj, NEW st, NEW whole, NEW ch,
           Sound(v, fl, ct, subj, st, whole, ch), ~st, NEW f \in Names, Settled(fl, ct, f)
    PROVE  Written1(v, f, ch[f], ct[f], fl[f])
<1> DEFINE g == ch[f]
           c == ct[f]
           p == fl[f]
           K == Alone(v, ch, {}, {}, whole)
<1>1. c # Absent /\ (p # Closed => ~p.written)
  BY DEF Settled
<1>2. FileOk(v, f, g, c, p) /\ OnDisk(v, f, g) /\ Holds(v, g, c, p) /\ Good(v, ch, K)
  BY DEF Sound, Resting
<1>3. Path(v.fat, g) /\ v.dir \in Dirs(AllNames)
  <2> HIDE DEF K
  <2> QED BY <1>2, GoodFacts, NameFacts
<1> HIDE DEF g, c, p, K
<1>4. Fits(c, g) /\ \E i \in 1 .. Slots : v.dir[i] = Entry(f, First(g), Len(c))
  <2>1. CASE p = Closed
    BY <1>1, <1>2, <2>1 DEF FileOk, Shut, HasEntry
  <2>2. CASE p # Closed
    <3>1. Opened(v, f, g, c, p)
      BY <1>1, <1>2, <2>2 DEF FileOk
    <3>2. v.dir[p.slot] = Entry(f, First(g), Len(c)) /\ Fits(c, g)
      BY <1>1, <2>2, <3>1 DEF Opened
    <3>3. p.slot \in 1 .. Slots
      BY <3>1, FilFacts DEF Opened
    <3> QED BY <3>2, <3>3
  <2> QED BY <2>1, <2>2
<1>5. PICK i \in 1 .. Slots : v.dir[i] = Entry(f, First(g), Len(c))
  BY <1>4
<1>6. v.disk.dir[i] = v.dir[i]
  BY <1>2, <1>5, EntryIs DEF OnDisk
<1>7. Path(v.disk.fat, g)
  BY <1>2, <1>3, PathFrame DEF OnDisk
<1>8. Holding(On(v, Fil(p)), g, c)
  BY <1>1, <1>2 DEF Holds
<1>9. Fil(p).dirty = FALSE
  <2>1. CASE p = Closed
    BY <2>1, IdleIs DEF Fil
  <2>2. CASE p # Closed
    <3>1. Opened(v, f, g, c, p)
      BY <1>1, <1>2, <2>2 DEF FileOk
    <3>2. p \in FilRec /\ ~p.dirty
      BY <1>1, <2>2, <3>1 DEF Opened
    <3> QED BY <2>2, <3>2 DEF Fil, FilRec
  <2> QED BY <2>1, <2>2
<1> QED BY <1>4, <1>5, <1>6, <1>7, <1>8, <1>9 DEF Written1, g, c, p

\* Such a file is there, on the disk and on each disk that has it as the disk has.
LEMMA SettledThere ==
    ASSUME NEW v, NEW f \in Names, NEW g, NEW c, NEW p, Written1(v, f, g, c, p),
           NEW d \in Disks(AllNames, DataAreas), Unique(d.dir), Unmoved(v, d, f, g)
    PROVE  LET k == Slot(d, f)
           IN  k # 0 /\ ~Dangling(d, k) /\ ~Short(d, k) /\ Agrees(Held(d, k), c)
<1> DEFINE x == On(v, Fil(p))
<1>1. x.p.dirty = FALSE /\ x.v = v /\ Holding(x, g, c) /\ Fits(c, g)
  BY DEF Written1, On
<1>2. PICK i \in 1 .. Slots : v.dir[i] = Entry(f, First(g), Len(c)) /\ v.disk.dir[i] = v.dir[i]
  BY DEF Written1
<1>3. d.dir[i] = Entry(f, First(g), Len(c))
  BY <1>2, EntryIs DEF Unmoved
<1>4. Path(d.fat, g)
  BY PathFrame DEF Unmoved, Written1
<1>5. d.dir \in Dirs(AllNames) /\ d.data \in DataAreas
  BY DEF Disks
<1>6. \A y \in Sects(Members(g)) : d.data[y] = x.v.disk.data[y]
  BY <1>1 DEF Unmoved
<1> HIDE DEF x
<1> QED BY <1>1, <1>3, <1>4, <1>5, <1>6, StillThere
-----------------------------------------------------------------------------
\* The disks a crash may find, and that of the volume.
LEMMA MomentDisk ==
    ASSUME NEW v, NEW ch, NEW K, Good(v, ch, K)
    PROVE  /\ v.disk \in Disks(AllNames, DataAreas) /\ Unique(v.disk.dir)
           /\ \A m \in v.images : /\ m \in Moments(AllNames, DataAreas) /\ Fine(m, K)
                                  /\ m.disk \in Disks(AllNames, DataAreas) /\ Unique(m.disk.dir)
<1>1. v \in Vols /\ Fine(Moment(v, v.disk), K) /\ \A m \in v.images : Fine(m, K)
  BY DEF Good
<1>2. v.disk \in Disks(AllNames, DataAreas) /\ v.images \subseteq Moments(AllNames, DataAreas)
  BY <1>1 DEF Vols, Volumes
<1>3. \A m : Fine(m, K) => Unique(m.disk.dir)
  BY DEF Fine, Right
<1>4. Moment(v, v.disk).disk = v.disk
  BY DEF Moment
<1>5. \A m \in v.images : m.disk \in Disks(AllNames, DataAreas)
  BY <1>2 DEF Moments
<1> QED BY <1>1, <1>2, <1>3, <1>4, <1>5

LEMMA SoundSurvives ==
    ASSUME NEW ch, NEW whole, Sound(vol, fil, content, subject, stale, whole, ch)
    PROVE  BystandersSurvive
<1> SUFFICES ASSUME ~stale, NEW f \in Names, content[f] # Absent, IsOpen(f) => ~fil[f].written
             PROVE  /\ HoldsOn(vol.disk, f)
                    /\ \A m \in vol.images : f \notin subject => HoldsOn(m.disk, f)
  BY DEF BystandersSurvive
<1> DEFINE K == Alone(vol, ch, {}, {}, whole)
<1>1. Settled(fil, content, f)
  BY DEF Settled, IsOpen
<1>2. Written1(vol, f, ch[f], content[f], fil[f])
  BY <1>1, SettledIs
<1>3. Good(vol, ch, K)
  BY DEF Sound, Resting
<1> HIDE DEF K
<1>4. HoldsOn(vol.disk, f)
  <2>1. Unmoved(vol, vol.disk, f, ch[f])
    BY DEF Unmoved
  <2>2. vol.disk \in Disks(AllNames, DataAreas) /\ Unique(vol.disk.dir)
    BY <1>3, MomentDisk
  <2> QED BY <1>2, <2>1, <2>2, SettledThere DEF HoldsOn
<1>5. ASSUME NEW m \in vol.images, f \notin subject PROVE HoldsOn(m.disk, f)
  <2>1. f \in Bystanders(fil, content, subject)
    BY <1>1, <1>5 DEF Bystanders
  <2>2. Unmoved(vol, m.disk, f, ch[f])
    BY <2>1 DEF Sound
  <2>3. m.disk \in Disks(AllNames, DataAreas) /\ Unique(m.disk.dir)
    BY <1>3, MomentDisk
  <2> QED BY <1>2, <2>2, <2>3, SettledThere DEF HoldsOn
<1> QED BY <1>4, <1>5

LEMMA SoundLinks ==
    ASSUME NEW ch, NEW whole, Sound(vol, fil, content, subject, stale, whole, ch)
    PROVE  CrossLinksOnlyInCriticalSections
<1> DEFINE K == Alone(vol, ch, {}, {}, whole)
<1>1. Good(vol, ch, K)
  BY DEF Sound, Resting
<1> HIDE DEF K
<1>2. \A m \in vol.images : m \in Moments(AllNames, DataAreas) /\ Fine(m, K)
  BY <1>1, MomentDisk
<1>3. \A m \in vol.images : ~m.moving /\ m.cut = {} =>
          ~CrossLinked(m.disk) /\ \A i \in Used(m.disk.dir) : ~Dangling(m.disk, i)
  BY <1>2, CalmMoment
<1> QED BY <1>3 DEF CrossLinksOnlyInCriticalSections
-----------------------------------------------------------------------------
\* The clusters of a file are those of its chain.
LEMMA ClaimedIs ==
    ASSUME NEW ch, NEW whole, Sound(vol, fil, content, subject, stale, whole, ch),
           NEW f \in Names, content[f] # Absent
    PROVE  Claimed(f) = Members(ch[f])
<1> DEFINE K == Alone(vol, ch, {}, {}, whole)
<1>1. Good(vol, ch, K) /\ FileOk(vol, f, ch[f], content[f], fil[f])
  BY DEF Sound, Resting
<1> HIDE DEF K
<1>2. Path(vol.fat, ch[f]) /\ vol.dir \in Dirs(AllNames) /\ Unique(vol.dir)
  BY <1>1, GoodFacts, NameFacts
<1>3. ToSet(Chain(vol.fat, First(ch[f]))) = Members(ch[f])
  BY <1>2, ChainSet
<1>4. CASE fil[f] # Closed
  <2>1. fil[f].sclust = First(ch[f])
    BY <1>1, <1>4 DEF FileOk, Opened
  <2> QED BY <1>3, <1>4, <2>1 DEF Claimed, IsOpen
<1>5. CASE fil[f] = Closed
  <2>1. PICK i \in 1 .. Slots : vol.dir[i] = Entry(f, First(ch[f]), Len(content[f]))
    BY <1>1, <1>5 DEF FileOk, Shut, HasEntry
  <2>2. vol.dir[i].name = f /\ vol.dir[i].sclust = First(ch[f])
    BY <2>1, EntryIs
  <2>3. Slot(vol, f) = i
    BY <1>2, <2>2, SlotIs
  <2> QED BY <1>3, <1>5, <2>2, <2>3 DEF Claimed, IsOpen
<1> QED BY <1>4, <1>5

LEMMA SoundAccounts ==
    ASSUME NEW ch, Sound(vol, fil, content, subject, stale, crashed = "no", ch)
    PROVE  Accounting
<1> DEFINE K == Alone(vol, ch, {}, {}, crashed = "no")
           there == {f \in Names : content[f] # Absent}
           taken == {c \in Cluster : vol.fat[c] # 0}
           claimed == UNION {Claimed(f) : f \in there}
<1>1. Good(vol, ch, K) /\ FreeRight(vol) /\ ch[Loose] = Nil
      /\ \A f \in Names : FileOk(vol, f, ch[f], content[f], fil[f])
  BY DEF Sound, Resting
<1>2. K.whole = (crashed = "no")
  BY DEF Alone
<1> HIDE DEF K
<1>3. Layout(vol.fat, ch) /\ (crashed = "no" => Covered(vol.fat, ch))
      /\ \A f \in Holders : Path(vol.fat, ch[f])
  BY <1>1, <1>2, GoodFacts
<1>4. \A f \in there : Claimed(f) = Members(ch[f])
  BY ClaimedIs
<1>5. claimed \subseteq taken
  <2> SUFFICES ASSUME NEW f \in there PROVE Members(ch[f]) \subseteq taken
    BY <1>4
  <2>1. Path(vol.fat, ch[f])
    BY <1>3, NameFacts
  <2> QED BY <2>1, PathMembers
<1>6. ASSUME crashed = "no", NEW c \in taken PROVE c \in claimed
  <2>1. PICK h \in Holders : c \in Members(ch[h])
    BY <1>3, <1>6 DEF Covered
  <2>2. h \in Names
    BY <1>1, <2>1, NilIs, NameFacts
  <2>3. content[h] # Absent
    BY <1>1, <2>1, <2>2, NilIs DEF FileOk, Gone
  <2> QED BY <1>4, <2>1, <2>2, <2>3
<1>7. \A f, g \in there : f # g => Claimed(f) \cap Claimed(g) = {}
  <2> SUFFICES ASSUME NEW f \in there, NEW g \in there, f # g PROVE Members(ch[f]) \cap Members(ch[g]) = {}
    BY <1>4
  <2> QED BY <1>3, NameFacts DEF Layout
<1>8. vol.free # Unknown => vol.free = Cardinality({c \in Cluster : vol.fat[c] = 0})
  BY <1>1 DEF FreeRight, FreeIn
<1> QED BY <1>5, <1>6, <1>7, <1>8 DEF Accounting
-----------------------------------------------------------------------------
\* Between two calls there are chains with which everything is as it is to be.
FilesSound == \E ch : Sound(vol, fil, content, subject, stale, crashed = "no", ch)

LEMMA ReadStep ==
    ASSUME FilesSound, NEW f \in Names, NEW n \in Sizes, f_read(f, n)
    PROVE  FilesSound' /\ ReadsWhatWasWritten'
<1>1. PICK ch : Sound(vol, fil, content, subject, stale, crashed = "no", ch)
  BY DEF FilesSound
<1> DEFINE most == Min({n, fil[f].fsize - fil[f].fptr})
           r == ReadBytes(On(Called(vol), fil[f]), most)
<1>2. /\ fil[f] # Closed /\ subject' = {f} /\ vol' = r.s.v /\ Turned(fil, fil', f, r.s.p)
      /\ read' = [got |-> r.got, wanted |-> SubSeq(content[f], fil[f].fptr+1, fil[f].fptr+most)]
      /\ content' = content /\ stale' = stale /\ crashed' = crashed
  BY DEF f_read, IsOpen, Call, Leaves, Start, Turned
<1>3. n \in Nat
  BY FilesAssumption
<1>4. most = Min({n, fil[f].fsize - fil[f].fptr}) /\ Reads(vol, fil, f, most, r, fil')
  BY <1>2 DEF Reads
<1> HIDE DEF most, r
<1>5. /\ \E c2 : Sound(r.s.v, fil', content, {f}, stale, crashed = "no", c2)
      /\ ~stale => Agrees(r.got, SubSeq(content[f], fil[f].fptr+1, fil[f].fptr+most))
  <2>1. fil[f] # Closed
    BY <1>2
  <2>2. ReadLeaves(r, fil', content, f, stale, crashed = "no",
                   SubSeq(content[f], fil[f].fptr+1, fil[f].fptr+most))
    BY <1>1, <1>3, <1>4, <2>1, ReadSound, SMTT(60)
  <2> QED BY <2>2 DEF ReadLeaves
<1>6. FilesSound'
  BY <1>2, <1>5 DEF FilesSound
<1>7. ReadsWhatWasWritten'
  BY <1>2, <1>5 DEF ReadsWhatWasWritten
<1> QED BY <1>6, <1>7

LEMMA WriteStep ==
    ASSUME FilesSound, NEW f \in Names, NEW n \in Sizes, NEW d \in Data, f_write(f, n, d)
    PROVE  FilesSound' /\ read' = << >>
<1>1. PICK ch : Sound(vol, fil, content, subject, stale, crashed = "no", ch)
  BY DEF FilesSound
<1> DEFINE u == WriteBytes(On(Called(vol), fil[f]), n, d)
           w == [u EXCEPT !.p.fsize = Max({@, u.p.fptr}), !.p.written = TRUE]
<1>2. /\ fil[f] # Closed /\ subject' = {f} /\ vol' = w.v /\ Turned(fil, fil', f, w.p)
      /\ Overwrites2(content, content', f, fil[f].fptr, u.p.fptr, d)
      /\ read' = << >> /\ stale' = stale /\ crashed' = crashed
  BY DEF f_write, Writing, IsOpen, Call, Wrote, Leaves, Start, Turned, Overwrites2
<1>3. n \in Nat
  BY FilesAssumption
<1>4. u = WriteBytes(On(Called(vol), fil[f]), n, d) /\ Marks(u, w)
  BY DEF Marks
<1> HIDE DEF u, w
<1>5. \E c2 : Sound(w.v, fil', content', {f}, stale, crashed = "no", c2)
  <2>1. fil[f] # Closed /\ Turned(fil, fil', f, w.p) /\ Overwrites2(content, content', f, fil[f].fptr, u.p.fptr, d)
    BY <1>2
  <2> QED BY <1>1, <1>3, <1>4, <2>1, WriteSound, SMTT(60)
<1> QED BY <1>2, <1>5 DEF FilesSound

LEMMA SeekStep ==
    ASSUME FilesSound, NEW f \in Names, NEW ofs \in Offsets, f_lseek(f, ofs)
    PROVE  FilesSound' /\ read' = << >>
<1>1. PICK ch : Sound(vol, fil, content, subject, stale, crashed = "no", ch)
  BY DEF FilesSound
<1> DEFINE to == IF fil[f].wr THEN ofs ELSE Min({ofs, fil[f].fsize})
           u == Seek(On(Called(vol), fil[f]), to)
           w == [u EXCEPT !.p.fsize = Max({@, u.p.fptr}), !.p.written = @ \/ u.p.fptr > u.p.fsize]
<1>2. /\ fil[f] # Closed /\ subject' = {f} /\ vol' = w.v /\ Turned(fil, fil', f, w.p)
      /\ Lengthens(content, content', f, u.p)
      /\ read' = << >> /\ stale' = stale /\ crashed' = crashed
  BY DEF f_lseek, IsOpen, Call, Sought, Leaves, Start, Turned, Lengthens
<1>3. to \in Nat /\ (fil[f].wr \/ to <= fil[f].fsize)
  <2>1. ofs \in Nat
    BY FilesAssumption
  <2>2. fil[f].fsize \in Nat
    BY <1>1, <1>2, OpenFacts, FilFacts
  <2>3. Min({ofs, fil[f].fsize}) \in Nat /\ Min({ofs, fil[f].fsize}) <= fil[f].fsize
    BY <2>1, <2>2, MinTwo
  <2> QED BY <2>1, <2>3
<1>4. u = Seek(On(Called(vol), fil[f]), to) /\ Stretches(u, w)
  BY DEF Stretches
<1> HIDE DEF u, w, to
<1>5. \E c2 : Sound(w.v, fil', content', {f}, stale, crashed = "no", c2)
  <2>1. fil[f] # Closed /\ Turned(fil, fil', f, w.p) /\ Lengthens(content, content', f, u.p)
    BY <1>2
  <2> QED BY <1>1, <1>3, <1>4, <2>1, SeekSound, ZenonT(60)
<1> QED BY <1>2, <1>5 DEF FilesSound

LEMMA SyncStep ==
    ASSUME FilesSound, NEW f \in Names, f_sync(f) \/ f_close(f)
    PROVE  FilesSound' /\ read' = << >>
<1>1. PICK ch : Sound(vol, fil, content, subject, stale, crashed = "no", ch)
  BY DEF FilesSound
<1> DEFINE u == SyncFile(On(Called(vol), fil[f]))
<1>2. /\ fil[f] # Closed /\ subject' = {f} /\ vol' = u.v
      /\ \E p \in {u.p, Closed} : Turned(fil, fil', f, p)
      /\ read' = << >> /\ content' = content /\ stale' = stale /\ crashed' = crashed
  BY DEF f_sync, f_close, IsOpen, Call, Leaves, Start, Turned
<1>3. u = SyncFile(On(Called(vol), fil[f]))
  OBVIOUS
<1> HIDE DEF u
<1>4. PICK p \in {u.p, Closed} : Turned(fil, fil', f, p)
  BY <1>2
<1>5. \E c2 : Sound(u.v, fil', content, {f}, stale, crashed = "no", c2)
  <2>1. fil[f] # Closed
    BY <1>2
  <2> QED BY <1>1, <1>3, <1>4, <2>1, SyncSound, SMTT(60)
<1> QED BY <1>2, <1>5 DEF FilesSound
-----------------------------------------------------------------------------
LEMMA UnlinkStep ==
    ASSUME FilesSound, NEW f \in Names, f_unlink(f)
    PROVE  FilesSound' /\ read' = << >>
<1>1. PICK ch : Sound(vol, fil, content, subject, stale, crashed = "no", ch)
  BY DEF FilesSound
<1> DEFINE w == dir_find(Called(vol), f)
           u == sync(Unlinked(w, Slot(w, f)))
<1>2. /\ fil[f] = Closed /\ content[f] # Absent /\ subject' = {f} /\ vol' = u
      /\ Turned(content, content', f, Absent)
      /\ read' = << >> /\ fil' = fil /\ stale' = stale /\ crashed' = crashed
  BY DEF f_unlink, IsOpen, Call, Turned
<1>3. w = dir_find(Called(vol), f) /\ u = sync(Unlinked(w, Slot(w, f)))
  OBVIOUS
<1> HIDE DEF u, w
<1>4. \E c2 : Sound(u, fil, content', {f}, stale, crashed = "no", c2)
  <2>1. fil[f] = Closed /\ content[f] # Absent /\ Turned(content, content', f, Absent)
    BY <1>2
  <2> QED BY <1>1, <1>3, <2>1, UnlinkSound, SMTT(60)
<1> QED BY <1>2, <1>4 DEF FilesSound

LEMMA RenameStep ==
    ASSUME FilesSound, NEW f \in Names, NEW g \in Names, f_rename(f, g)
    PROVE  FilesSound' /\ read' = << >>
<1>1. PICK ch : Sound(vol, fil, content, subject, stale, crashed = "no", ch)
  BY DEF FilesSound
<1> DEFINE w0 == dir_find(dir_find(Called(vol), f), g)
           w == dir_register(w0, g)
           u == [put_entry(w, Slot(w, g), [w0.dir[Slot(w0, f)] EXCEPT !.name = g]) EXCEPT !.moving = TRUE]
<1>2. /\ fil[f] = Closed /\ content[f] # Absent /\ content[g] = Absent /\ subject' = {f, g}
      /\ SyncsOff(dir_remove(u, Slot(w0, f)), vol') /\ Hands(content, content', f, g)
      /\ read' = << >> /\ fil' = fil /\ stale' = stale /\ crashed' = crashed
  BY DEF f_rename, IsOpen, Call, SyncsOff, Hands
<1>3. w0 = dir_find(dir_find(Called(vol), f), g) /\ w = dir_register(w0, g)
      /\ Fills(w, u, Slot(w, g), [w0.dir[Slot(w0, f)] EXCEPT !.name = g])
  BY DEF Fills
<1> HIDE DEF u, w, w0
<1>4. \E c2 : Sound(vol', fil, content', {f, g}, stale, crashed = "no", c2)
  <2>1. fil[f] = Closed /\ content[f] # Absent /\ content[g] = Absent
        /\ SyncsOff(dir_remove(u, Slot(w0, f)), vol') /\ Hands(content, content', f, g)
    BY <1>2
  <2> QED BY <1>1, <1>3, <2>1, RenameSound, SMTT(60)
<1> QED BY <1>2, <1>4 DEF FilesSound

LEMMA GetfreeStep ==
    ASSUME FilesSound, f_getfree
    PROVE  FilesSound' /\ read' = << >>
<1>1. PICK ch : Sound(vol, fil, content, subject, stale, crashed = "no", ch)
  BY DEF FilesSound
<1> DEFINE v == Called(vol)
           w == [Visited(v, [k \in 1 .. Clusters |-> FatSector(k+1)])
                     EXCEPT !.free = Cardinality({c \in Cluster : v.fat[c] = 0})]
<1>2. /\ subject' = {} /\ vol' \in {v, w}
      /\ read' = << >> /\ fil' = fil /\ content' = content /\ stale' = stale /\ crashed' = crashed
  BY DEF f_getfree, Call
<1>3. Sound(v, fil, content, {}, stale, crashed = "no", ch) /\ Sound(w, fil, content, {}, stale, crashed = "no", ch)
  BY <1>1, GetfreeSound
<1> HIDE DEF v, w
<1> QED BY <1>2, <1>3 DEF FilesSound
-----------------------------------------------------------------------------
LEMMA MarkFreshIs ==
    ASSUME NEW w, w.dir \in Dirs(AllNames), NEW i \in 1 .. Slots, NEW mode, NEW b \in BOOLEAN,
           NEW p, p = [wr |-> mode # "read", written |-> b, dirty |-> FALSE,
                 slot |-> i, sclust |-> w.dir[i].sclust, fsize |-> w.dir[i].size,
                 fptr |-> 0, clust |-> 0, dsect |-> -1, buf |-> Bytes(Blank)]
    PROVE  Fresh(p, w, i, b)
<1> DEFINE wr == mode # "read"
<1>1. wr \in BOOLEAN /\ p = FilOf(w, i, wr, b)
  BY DEF FilOf
<1> HIDE DEF wr
<1> QED BY <1>1, FreshIs

\* The entry i is overwritten, and p opened for it.
Anew(w, u, i, p, fl, fl2, ct, ct2, f) ==
    /\ u = Overwrites(w, f, i) /\ Fresh(p, u, i, TRUE)
    /\ Turned(fl, fl2, f, p) /\ Turned(ct, ct2, f, Nil)

LEMMA AnewSound ==
    ASSUME NEW v, NEW fl, NEW ct, NEW subj, NEW st, NEW whole, NEW ch,
           Sound(v, fl, ct, subj, st, whole, ch), NEW f \in Names,
           NEW w, NEW i, Prepared(v, w, ch, Care(v, fl, ct, st, whole, ch, {f}), f, i),
           NEW u, NEW p, NEW fl2, NEW ct2, Anew(w, u, i, p, fl, fl2, ct, ct2, f)
    PROVE  \E c2 : Sound(u, fl2, ct2, {f}, st, whole, c2)
<1>1. u = Overwrites(w, f, i)
  BY DEF Anew
<1>2. Fresh(p, u, i, TRUE)
  BY DEF Anew
<1>3. Turned(fl, fl2, f, p)
  BY DEF Anew
<1>4. Turned(ct, ct2, f, Nil)
  BY DEF Anew
<1> QED BY <1>1, <1>2, <1>3, <1>4, OverSound

\* f_open of a new file, or of one that is overwritten.
LEMMA OverStep ==
    ASSUME FilesSound, NEW f \in Names, fil[f] = Closed,
           NEW w, NEW i, \A ch : Sound(vol, fil, content, subject, stale, crashed = "no", ch) =>
               Prepared(vol, w, ch, Care(vol, fil, content, stale, crashed = "no", ch, {f}), f, i),
           NEW u, u = Overwrites(w, f, i),
           NEW p, i \in 1 .. Slots /\ u.dir \in Dirs(AllNames) => Fresh(p, u, i, TRUE),
           NEW fl2, Turned(fil, fl2, f, p), NEW ct2, Turned(content, ct2, f, Nil)
    PROVE  \E c2 : Sound(u, fl2, ct2, {f}, stale, crashed = "no", c2)
<1>1. PICK ch : Sound(vol, fil, content, subject, stale, crashed = "no", ch)
  BY DEF FilesSound
<1> DEFINE K == Care(vol, fil, content, stale, crashed = "no", ch, {f})
<1>2. Prepared(vol, w, ch, K, f, i)
  BY <1>1
<1> HIDE DEF K
<1>3. i \in 1 .. Slots /\ Bare(w, u, ch, K, f, i, Entry(f, 0, 0))
  <2>1. Entitled(w, ch, K, f, i)
    BY <1>2 DEF Prepared
  <2> QED BY <2>1, OverwritesBare DEF Entitled
<1>4. u.dir \in Dirs(AllNames)
  BY <1>3, GoodFacts DEF Bare
<1>5. Fresh(p, u, i, TRUE)
  BY <1>3, <1>4
<1>6. Prepared(vol, w, ch, Care(vol, fil, content, stale, crashed = "no", ch, {f}), f, i)
  BY <1>2 DEF K
<1>7. Anew(w, u, i, p, fil, fl2, content, ct2, f)
  BY <1>5 DEF Anew
<1> DEFINE whole == crashed = "no"
<1>8. /\ Sound(vol, fil, content, subject, stale, whole, ch)
      /\ Prepared(vol, w, ch, Care(vol, fil, content, stale, whole, ch, {f}), f, i)
  BY <1>1, <1>6
<1> HIDE DEF whole
<1>9. \E c2 : Sound(u, fl2, ct2, {f}, stale, whole, c2)
  BY <1>7, <1>8, AnewSound
<1> QED BY <1>9 DEF whole

\* What f_open does, in its three cases.
Sees(w, p, i, mode, b) ==
    p = [wr |-> mode # "read", written |-> b, dirty |-> FALSE,
         slot |-> i, sclust |-> w.dir[i].sclust, fsize |-> w.dir[i].size,
         fptr |-> 0, clust |-> 0, dsect |-> -1, buf |-> Bytes(Blank)]

OpensNone(v, f) == Slot(v, f) = 0 /\ vol' = v /\ fil' = fil /\ content' = content
OpensOld(v, f, mode) ==
    /\ Slot(v, f) # 0 /\ vol' = v /\ content' = content
    /\ \E p : Sees(v, p, Slot(v, f), mode, FALSE) /\ Turned(fil, fil', f, p)

OpensOver(v, w, f, mode) ==
    /\ IF Slot(v, f) = 0 THEN w = dir_register(v, f) ELSE w = v
    /\ vol' = Overwrites(w, f, Slot(w, f)) /\ Turned(content, content', f, Nil)
    /\ \E p : Sees(vol', p, Slot(w, f), mode, TRUE) /\ Turned(fil, fil', f, p)

LEMMA OpenCases ==
    ASSUME NEW f \in Names, NEW mode, f_open(f, mode), NEW v, v = dir_find(Called(vol), f)
    PROVE  /\ fil[f] = Closed /\ subject' = {f} /\ read' = << >> /\ stale' = stale /\ crashed' = crashed
           /\ OpensNone(v, f) \/ OpensOld(v, f, mode) \/ \E w : OpensOver(v, w, f, mode)
<1> DEFINE new == Slot(v, f) = 0
           w == IF new THEN dir_register(v, f) ELSE v
           i == Slot(w, f)
           cl == w.dir[i].sclust
           emptied == put_entry(w, i, Entry(f, 0, 0))
           freed == [remove_chain(emptied, cl) EXCEPT !.last = cl - 1]
           overwrite == new \/ mode = "create"
           u == CASE ~overwrite -> w
                  [] overwrite /\ cl = 0 -> emptied
                  [] OTHER -> move_window(freed, DirSector(i))
           p == [wr |-> mode # "read", written |-> overwrite, dirty |-> FALSE,
                 slot |-> i, sclust |-> u.dir[i].sclust, fsize |-> u.dir[i].size,
                 fptr |-> 0, clust |-> 0, dsect |-> -1, buf |-> Bytes(Blank)]
<1>1. /\ fil[f] = Closed /\ subject' = {f} /\ read' = << >> /\ stale' = stale /\ crashed' = crashed
  BY DEF f_open, IsOpen, Call
<1>2. IF new /\ mode = "read"
        THEN vol' = v /\ UNCHANGED <<fil, content>>
        ELSE /\ vol' = u /\ fil' = [fil EXCEPT ![f] = p]
             /\ content' = IF overwrite THEN [content EXCEPT ![f] = << >>] ELSE content
  <2>1. vol' = vol' /\ LET z == dir_find(Called(vol), f) IN z = v
    OBVIOUS
  <2> QED BY Zenon DEF f_open
<1>3. CASE new /\ mode = "read"
  <2>1. OpensNone(v, f)
    BY <1>2, <1>3 DEF OpensNone
  <2> QED BY <1>1, <2>1
<1>4. CASE ~(new /\ mode = "read") /\ ~overwrite
  <2>1. w = v /\ u = v /\ i = Slot(v, f) /\ Slot(v, f) # 0 /\ overwrite = FALSE
    BY <1>4
  <2>2. Sees(v, p, i, mode, FALSE)
    BY <2>1 DEF Sees
  <2>3. vol' = u /\ Turned(fil, fil', f, p) /\ content' = content
    BY <1>2, <1>4 DEF Turned
  <2> HIDE DEF p, u, i, overwrite, w
  <2>4. OpensOld(v, f, mode)
    BY <2>1, <2>2, <2>3 DEF OpensOld
  <2> QED BY <1>1, <2>4
<1>5. CASE ~(new /\ mode = "read") /\ overwrite
  <2>1. u = Overwrites(w, f, i)
    BY <1>5 DEF Overwrites
  <2>2. IF Slot(v, f) = 0 THEN w = dir_register(v, f) ELSE w = v
    OBVIOUS
  <2>3. Sees(u, p, i, mode, TRUE)
    BY <1>5 DEF Sees
  <2>4. vol' = u /\ Turned(fil, fil', f, p) /\ Turned(content, content', f, Nil)
    BY <1>2, <1>5 DEF Turned, Nil
  <2>5. i = Slot(w, f)
    OBVIOUS
  <2> HIDE DEF p, u, i, overwrite, w
  <2>6. OpensOver(v, w, f, mode)
    BY <2>1, <2>2, <2>3, <2>4, <2>5 DEF OpensOver
  <2> QED BY <1>1, <2>6
<1> QED BY <1>3, <1>4, <1>5

LEMMA OpenStep ==
    ASSUME FilesSound, NEW f \in Names, NEW mode, f_open(f, mode)
    PROVE  FilesSound' /\ read' = << >>
<1>1. PICK ch : Sound(vol, fil, content, subject, stale, crashed = "no", ch)
  BY DEF FilesSound
<1> DEFINE v == dir_find(Called(vol), f)
<1>2. /\ fil[f] = Closed /\ subject' = {f} /\ read' = << >> /\ stale' = stale /\ crashed' = crashed
      /\ OpensNone(v, f) \/ OpensOld(v, f, mode) \/ \E w : OpensOver(v, w, f, mode)
  BY OpenCases
<1>3. v = dir_find(Called(vol), f)
  OBVIOUS
<1> HIDE DEF v
<1>4. CASE OpensNone(v, f)
  <2>1. Slot(v, f) = 0
    BY <1>4 DEF OpensNone
  <2>2. Sound(v, fil, content, {f}, stale, crashed = "no", ch)
    BY <1>1, <1>2, <1>3, <2>1, OpenNone
  <2> QED BY <1>2, <1>4, <2>2 DEF OpensNone, FilesSound
<1>5. CASE OpensOld(v, f, mode)
  <2>1. Slot(v, f) # 0 /\ vol' = v /\ content' = content
    BY <1>5 DEF OpensOld
  <2>2. PICK p : Sees(v, p, Slot(v, f), mode, FALSE) /\ Turned(fil, fil', f, p)
    BY <1>5 DEF OpensOld
  <2>3. Slot(v, f) \in 1 .. Slots /\ v.dir \in Dirs(AllNames)
    <3> DEFINE i == Slot(v, f)
               K == Care(vol, fil, content, stale, crashed = "no", ch, {f})
    <3>1. i = Slot(v, f) /\ i # 0 /\ fil[f] = Closed
      BY <1>2, <2>1
    <3> HIDE DEF i
    <3>2. Prepared(vol, v, ch, K, f, i)
      BY <1>1, <1>3, <3>1, OldPrepared
    <3> HIDE DEF K
    <3>3. Good(v, ch, K) /\ i \in 1 .. Slots
      BY <3>2 DEF Prepared, Entitled
    <3> QED BY <3>1, <3>3, GoodFacts
  <2>4. Fresh(p, v, Slot(v, f), FALSE)
    BY <2>2, <2>3, MarkFreshIs DEF Sees
  <2>5. Sound(v, fil', content, {f}, stale, crashed = "no", ch)
    <3>1. fil[f] = Closed /\ Slot(v, f) # 0 /\ Turned(fil, fil', f, p)
      BY <1>2, <2>1, <2>2
    <3> QED BY <1>1, <1>3, <2>4, <3>1, OpenKeeps, ZenonT(60)
  <2> QED BY <1>2, <2>1, <2>5 DEF FilesSound
<1>6. ASSUME NEW w, OpensOver(v, w, f, mode) PROVE FilesSound'
  <2> DEFINE i == Slot(w, f)
  <2>1. vol' = Overwrites(w, f, i) /\ Turned(content, content', f, Nil)
    BY <1>6 DEF OpensOver
  <2>2. PICK p : Sees(vol', p, i, mode, TRUE) /\ Turned(fil, fil', f, p)
    BY <1>6 DEF OpensOver
  <2>3. i \in 1 .. Slots /\ vol'.dir \in Dirs(AllNames) => Fresh(p, vol', i, TRUE)
    BY <2>2, MarkFreshIs DEF Sees
  <2>4. i = Slot(w, f) /\ fil[f] = Closed
    BY <1>2
  <2>5. ASSUME NEW c1, Sound(vol, fil, content, subject, stale, crashed = "no", c1)
        PROVE  Prepared(vol, w, c1, Care(vol, fil, content, stale, crashed = "no", c1, {f}), f, i)
    <3> HIDE DEF i
    <3>1. CASE Slot(v, f) = 0
      <4>1. w = dir_register(v, f)
        BY <1>6, <3>1 DEF OpensOver
      <4> QED BY <1>3, <2>4, <2>5, <3>1, <4>1, NewPrepared
    <3>2. CASE Slot(v, f) # 0
      <4>1. w = v
        BY <1>6, <3>2 DEF OpensOver
      <4>2. i # 0
        BY <2>4, <3>2, <4>1
      <4> QED BY <1>3, <2>4, <2>5, <4>1, <4>2, OldPrepared
    <3> QED BY <3>1, <3>2
  <2> HIDE DEF i
  <2>6. \E c2 : Sound(vol', fil', content', {f}, stale, crashed = "no", c2)
    BY <2>1, <2>2, <2>3, <2>4, <2>5, OverStep, ZenonT(60)
  <2> QED BY <1>2, <2>6 DEF FilesSound
<1> QED BY <1>2, <1>4, <1>5, <1>6
-----------------------------------------------------------------------------
\* What f_truncate does to the volume v, the files fl and st, in its three cases;
\* p is the FIL that f gets.
CutsAll(v, w, fl, fl2, st, st2, f) ==
    /\ fl[f].fptr = 0
    /\ \E u, p : /\ CutBy(Called(v), u, f) /\ w = remove_chain(u, fl[f].sclust)
                 /\ Shortened(fl[f], p, 0) /\ Turned(fl, fl2, f, p)
                 /\ StaleBy(st, st2, fl[f], ToSet(Chain(u.fat, fl[f].sclust)))

CutsEnd(v, w, fl, fl2, st, st2, f) ==
    /\ fl[f].fptr > 0 /\ w = seek_fat(Called(v), fl[f].clust) /\ Lasts(st, st2)
    /\ \E p : Shortened(fl[f], p, fl[f].sclust) /\ Turned(fl, fl2, f, p)

CutsPart(v, w, fl, fl2, st, st2, f) ==
    /\ fl[f].fptr > 0
    /\ \E v1, n, p :
          /\ v1 = seek_fat(Called(v), fl[f].clust) /\ n = v1.fat[fl[f].clust] /\ n # Eoc
          /\ w = remove_chain(put_fat(v1, fl[f].clust, Eoc), n)
          /\ Shortened(fl[f], p, fl[f].sclust) /\ Turned(fl, fl2, f, p)
          /\ StaleBy(st, st2, fl[f], ToSet(Chain(v1.fat, n)))

Cuts3(v, w, fl, fl2, st, st2, f) ==
    \/ CutsAll(v, w, fl, fl2, st, st2, f) \/ CutsEnd(v, w, fl, fl2, st, st2, f)
    \/ CutsPart(v, w, fl, fl2, st, st2, f)

Truncates(v, w, fl, fl2, ct, ct2, st, st2, f) ==
    /\ fl[f] # Closed /\ fl[f].fptr < fl[f].fsize /\ Shortens(ct, ct2, f, fl[f].fptr)
    /\ Cuts3(v, w, fl, fl2, st, st2, f)

\* The first case, when the files are sound before.
FromAll(v, w, fl, fl2, ct, ct2, subj, st, st2, whole, ch, f, u, p) ==
    /\ Sound(v, fl, ct, subj, st, whole, ch) /\ f \in Names
    /\ AllCut(v, w, fl, fl2, ct, ct2, st, st2, f, u, p)

LEMMA FromAllSound ==
    ASSUME NEW v, NEW fl, NEW ct, NEW subj, NEW st, NEW whole, NEW ch, NEW f, NEW w, NEW fl2, NEW ct2, NEW st2,
           NEW u, NEW p, FromAll(v, w, fl, fl2, ct, ct2, subj, st, st2, whole, ch, f, u, p)
    PROVE  \E c2 : Sound(w, fl2, ct2, {f}, st2, whole, c2)
<1>1. /\ Sound(v, fl, ct, subj, st, whole, ch) /\ f \in Names
      /\ AllCut(v, w, fl, fl2, ct, ct2, st, st2, f, u, p)
  BY DEF FromAll
<1> QED BY <1>1, TruncateAll

LEMMA TruncateSound ==
    ASSUME NEW v, NEW fl, NEW ct, NEW subj, NEW st, NEW whole, NEW ch,
           Sound(v, fl, ct, subj, st, whole, ch), NEW f \in Names,
           NEW w, NEW fl2, NEW ct2, NEW st2, Truncates(v, w, fl, fl2, ct, ct2, st, st2, f)
    PROVE  \E c2 : Sound(w, fl2, ct2, {f}, st2, whole, c2)
<1>0. fl[f] # Closed /\ fl[f].fptr < fl[f].fsize /\ Shortens(ct, ct2, f, fl[f].fptr)
  BY DEF Truncates
<1>1. CASE CutsAll(v, w, fl, fl2, st, st2, f)
  <2>1. fl[f].fptr = 0 /\ Shortens(ct, ct2, f, 0)
    <3>1. fl[f].fptr = 0
      BY <1>1 DEF CutsAll
    <3> QED BY <1>0, <3>1
  <2>2. PICK u, p : /\ CutBy(Called(v), u, f) /\ w = remove_chain(u, fl[f].sclust)
                    /\ Shortened(fl[f], p, 0) /\ Turned(fl, fl2, f, p)
                    /\ StaleBy(st, st2, fl[f], ToSet(Chain(u.fat, fl[f].sclust)))
    BY <1>1 DEF CutsAll
  <2>3. AllCut(v, w, fl, fl2, ct, ct2, st, st2, f, u, p)
    BY <1>0, <2>1, <2>2 DEF AllCut
  <2>4. FromAll(v, w, fl, fl2, ct, ct2, subj, st, st2, whole, ch, f, u, p)
    BY <2>3 DEF FromAll
  <2> QED BY <2>4, FromAllSound
<1>2. CASE CutsEnd(v, w, fl, fl2, st, st2, f)
  <2>1. fl[f].fptr > 0 /\ w = seek_fat(Called(v), fl[f].clust) /\ Lasts(st, st2)
    BY <1>2 DEF CutsEnd
  <2>2. PICK p : Shortened(fl[f], p, fl[f].sclust) /\ Turned(fl, fl2, f, p)
    BY <1>2 DEF CutsEnd
  <2>3. EndCut(v, w, fl, fl2, ct, ct2, st, st2, f, p)
    BY <1>0, <2>1, <2>2 DEF EndCut
  <2> QED BY <2>3, TruncateEnd
<1>3. CASE CutsPart(v, w, fl, fl2, st, st2, f)
  <2>1. fl[f].fptr > 0
    BY <1>3 DEF CutsPart
  <2>2. PICK v1, n, p :
          /\ v1 = seek_fat(Called(v), fl[f].clust) /\ n = v1.fat[fl[f].clust] /\ n # Eoc
          /\ w = remove_chain(put_fat(v1, fl[f].clust, Eoc), n)
          /\ Shortened(fl[f], p, fl[f].sclust) /\ Turned(fl, fl2, f, p)
          /\ StaleBy(st, st2, fl[f], ToSet(Chain(v1.fat, n)))
    BY <1>3 DEF CutsPart
  <2>3. FromPart(v, w, fl, fl2, ct, ct2, subj, st, st2, whole, ch, f, v1, n, p)
    BY <1>0, <2>1, <2>2 DEF FromPart
  <2> QED BY <2>3, TruncatePart
<1> QED BY <1>1, <1>2, <1>3 DEF Truncates, Cuts3
-----------------------------------------------------------------------------
LEMMA TruncateCases ==
    ASSUME NEW f \in Names, f_truncate(f), fil[f] \in FilRec
    PROVE  /\ fil[f] # Closed /\ fil[f].fptr < fil[f].fsize /\ subject' = {f} /\ read' = << >> /\ crashed' = crashed
           /\ Shortens(content, content', f, fil[f].fptr)
           /\ Cuts3(vol, vol', fil, fil', stale, stale', f)
<1> DEFINE p == [fil[f] EXCEPT !.fsize = fil[f].fptr, !.written = TRUE]
           v == CutAt(Called(vol), p, f)
           next == Behind(v, p)
           s == CutOff(v, p)
           freed == SectorsOf(Chain(v.fat, next))
<1>1. /\ fil[f] # Closed /\ fil[f].fptr < fil[f].fsize /\ subject' = {f} /\ read' = << >> /\ crashed' = crashed
      /\ Shortens(content, content', f, fil[f].fptr)
  BY DEF f_truncate, Writing, IsOpen, Call, Shortens
<1>2. /\ vol' = s.v /\ fil' = [fil EXCEPT ![f] = s.p]
      /\ stale' = (stale \/ (p.dirty /\ p.dsect \in freed))
  BY DEF f_truncate, Leaves
<1>3. /\ p.fptr = fil[f].fptr /\ p.clust = fil[f].clust /\ p.sclust = fil[f].sclust
      /\ p.dirty = fil[f].dirty /\ p.dsect = fil[f].dsect /\ fil[f].fptr \in Nat
  BY DEF FilRec
<1> DEFINE p0 == [p EXCEPT !.sclust = 0]
<1>4. Shortened(fil[f], p, fil[f].sclust) /\ Shortened(fil[f], p0, 0)
  BY ShortenedIs
<1>5. freed = Sects(ToSet(Chain(v.fat, next)))
  BY DEF Sects, SectorsOf
<1>6. v = CutAt(Called(vol), p, f) /\ next = Behind(v, p) /\ s = CutOff(v, p) /\ p0 = [p EXCEPT !.sclust = 0]
  OBVIOUS
<1> HIDE DEF p, v, next, s, freed, p0
<1>7. StaleBy(stale, stale', fil[f], ToSet(Chain(v.fat, next))) /\ Lasts(stale, stale')
  <2>1. stale' = (stale \/ (fil[f].dirty /\ fil[f].dsect \in freed))
    BY <1>2, <1>3, Zenon
  <2>2. stale' = (stale \/ (fil[f].dirty /\ fil[f].dsect \in Sects(ToSet(Chain(v.fat, next)))))
    BY <1>5, <2>1, Zenon
  <2> QED BY <2>2, Zenon DEF StaleBy, Lasts
<1>8. CASE fil[f].fptr = 0
  <2>1. CutBy(Called(vol), v, f)
    BY <1>3, <1>6, <1>8 DEF CutBy, CutAt
  <2>2. next = fil[f].sclust
    BY <1>3, <1>6, <1>8 DEF Behind
  <2>3. s = On(remove_chain(v, next), p0)
    <3>1. s = On(remove_chain(v, next), [p EXCEPT !.sclust = 0])
      BY <1>3, <1>6, <1>8 DEF CutOff
    <3> QED BY <1>6, <3>1
  <2>4. vol' = remove_chain(v, fil[f].sclust) /\ Turned(fil, fil', f, p0)
    BY <1>2, <2>2, <2>3 DEF On, Turned
  <2>5. CutsAll(vol, vol', fil, fil', stale, stale', f)
    BY <1>4, <1>7, <1>8, <2>1, <2>2, <2>4 DEF CutsAll
  <2> QED BY <1>1, <2>5 DEF Cuts3
<1>9. CASE fil[f].fptr # 0
  <2>1. v = seek_fat(Called(vol), fil[f].clust) /\ next = v.fat[fil[f].clust] /\ fil[f].fptr > 0
    BY <1>3, <1>6, <1>9 DEF CutAt, Behind
  <2>2. CASE next = Eoc
    <3>1. s = On(v, p)
      BY <1>3, <1>6, <1>9, <2>2 DEF CutOff
    <3>2. vol' = seek_fat(Called(vol), fil[f].clust) /\ Turned(fil, fil', f, p)
      BY <1>2, <2>1, <3>1 DEF On, Turned
    <3>3. CutsEnd(vol, vol', fil, fil', stale, stale', f)
      BY <1>4, <1>7, <2>1, <3>2 DEF CutsEnd
    <3> QED BY <1>1, <3>3 DEF Cuts3
  <2>3. CASE next # Eoc
    <3>1. s = On(remove_chain(put_fat(v, p.clust, Eoc), next), p)
      BY <1>3, <1>6, <1>9, <2>3 DEF CutOff
    <3>2. s = On(remove_chain(put_fat(v, fil[f].clust, Eoc), next), p)
      BY <1>3, <3>1
    <3>3. vol' = remove_chain(put_fat(v, fil[f].clust, Eoc), next) /\ Turned(fil, fil', f, p)
      BY <1>2, <3>2 DEF On, Turned
    <3>4. CutsPart(vol, vol', fil, fil', stale, stale', f)
      BY <1>4, <1>7, <2>1, <2>3, <3>3 DEF CutsPart
    <3> QED BY <1>1, <3>4 DEF Cuts3
  <2> QED BY <2>2, <2>3
<1> QED BY <1>8, <1>9
-----------------------------------------------------------------------------
LEMMA TruncateStep ==
    ASSUME FilesSound, NEW f \in Names, f_truncate(f)
    PROVE  FilesSound' /\ read' = << >>
<1>1. PICK ch : Sound(vol, fil, content, subject, stale, crashed = "no", ch)
  BY DEF FilesSound
<1>2. fil[f] # Closed
  BY DEF f_truncate, Writing, IsOpen
<1>3. fil[f] \in FilRec
  BY <1>1, <1>2, OpenFacts
<1>4. /\ fil[f].fptr < fil[f].fsize /\ subject' = {f} /\ read' = << >> /\ crashed' = crashed
      /\ Shortens(content, content', f, fil[f].fptr) /\ Cuts3(vol, vol', fil, fil', stale, stale', f)
  BY <1>3, TruncateCases
<1> DEFINE whole == crashed = "no"
<1>5. Sound(vol, fil, content, subject, stale, whole, ch) /\ whole' = whole
  BY <1>1, <1>4
<1> HIDE DEF whole
<1>6. \E c2 : Sound(vol', fil', content', {f}, stale', whole, c2)
  <2>1. Truncates(vol, vol', fil, fil', content, content', stale, stale', f)
    BY <1>2, <1>4 DEF Truncates
  <2> QED BY <1>5, <2>1, TruncateSound
<1>7. \E c2 : Sound(vol', fil', content', {f}, stale', crashed = "no", c2)
  BY <1>6 DEF whole
<1> QED BY <1>4, <1>7 DEF FilesSound
-----------------------------------------------------------------------------
\* A crash that leaves the structure whole.
LEMMA CrashStep ==
    ASSUME FilesSound, Crash
    PROVE  /\ crashed' \in {"whole", "broken"} /\ read' = << >>
           /\ crashed' # "broken" => FilesSound'
<1>1. crashed = "no" /\ subject' = {} /\ read' = << >> /\ stale' = stale /\ fil' = [f \in Names |-> Closed]
  BY DEF Crash
<1>2. PICK ch : Sound(vol, fil, content, subject, stale, TRUE, ch)
  BY <1>1 DEF FilesSound
<1>3. PICK m \in vol.images :
          /\ vol' = chk_mounted(m.disk)
          /\ crashed' = IF Whole(m.disk) THEN "whole" ELSE "broken"
          /\ content' = [f \in Names |->
                LET i == Slot(m.disk, f)
                IN  IF i = 0 \/ ~Whole(m.disk) THEN Absent ELSE Held(m.disk, i)]
  BY DEF Crash
<1>4. ASSUME crashed' # "broken" PROVE FilesSound'
  <2> DEFINE d == m.disk
             ct2 == [f \in Names |-> LET i == Slot(d, f) IN IF i = 0 THEN Absent ELSE Held(d, i)]
  <2>1. Whole(d) /\ crashed' = "whole"
    BY <1>3, <1>4
  <2>2. content' = ct2
    BY <1>3, <2>1
  <2>3. d = m.disk /\ vol' = chk_mounted(d)
    BY <1>3
  <2>4. content' = [f \in Names |-> LET i == Slot(d, f) IN IF i = 0 THEN Absent ELSE Held(d, i)]
    BY <2>2
  <2> HIDE DEF d, ct2
  <2>5. Sound(vol', fil', content', {}, stale, FALSE, ChainsOf(d))
    <3> DEFINE w == chk_mounted(d)
    <3>1. /\ w = chk_mounted(d) /\ Whole(d) /\ d = m.disk /\ m \in vol.images
          /\ fil' = [f \in Names |-> Closed] /\ vol' = w
      BY <1>1, <2>1, <2>3
    <3> HIDE DEF w
    <3>2. Sound(w, fil', content', {}, stale, FALSE, ChainsOf(d))
      BY <1>2, <2>4, <3>1, CrashSound
    <3> QED BY <3>1, <3>2
  <2>6. (crashed' = "no") = FALSE
    BY <2>1
  <2> QED BY <1>1, <2>5, <2>6 DEF FilesSound
<1> QED BY <1>1, <1>3, <1>4
-----------------------------------------------------------------------------
\* The inductive invariant of the files.  After a crash that broke the structure
\* nothing is said, and nothing is called any more.
Ends3 == crashed \in {"no", "whole", "broken"}
FilesInv == Ends3 /\ (crashed # "broken" => FilesSound) /\ ReadsWhatWasWritten

LEMMA InitFiles == Init => FilesInv
<1> SUFFICES ASSUME Init PROVE FilesInv
  OBVIOUS
<1>1. /\ vol = chk_mounted(f_mkfs([x \in DataSector |-> Bytes(Blank)]))
      /\ fil = [f \in Names |-> Closed] /\ content = [f \in Names |-> Absent]
      /\ subject = {} /\ read = << >> /\ stale = FALSE /\ crashed = "no"
  BY DEF Init
<1> DEFINE d == f_mkfs([x \in DataSector |-> Bytes(Blank)])
<1>2. d = f_mkfs([x \in DataSector |-> Bytes(Blank)]) /\ vol = chk_mounted(d)
  BY <1>1
<1> HIDE DEF d
<1>3. Sound(vol, fil, content, {}, FALSE, TRUE, NoChains)
  BY <1>1, <1>2, InitSound
<1>4. (crashed = "no") = TRUE
  BY <1>1
<1>5. FilesSound
  BY <1>1, <1>3, <1>4 DEF FilesSound
<1> QED BY <1>1, <1>5 DEF FilesInv, Ends3, ReadsWhatWasWritten

LEMMA NoRead ==
    ASSUME read' = << >>
    PROVE  ReadsWhatWasWritten'
BY DEF ReadsWhatWasWritten

\* A call that keeps crashed as it is.
LEMMA CalledKeeps ==
    ASSUME FilesInv, crashed' = crashed, FilesSound', ReadsWhatWasWritten'
    PROVE  FilesInv'
BY DEF FilesInv, Ends3

LEMMA NextFiles == FilesInv /\ [Next]_vars => FilesInv'
<1> SUFFICES ASSUME FilesInv, [Next]_vars PROVE FilesInv'
  OBVIOUS
<1>0. crashed # "broken" => FilesSound
  BY DEF FilesInv
<1>1. ASSUME NEW f \in Names, NEW mode, f_open(f, mode) PROVE FilesInv'
  <2>1. crashed # "broken" /\ crashed' = crashed
    BY <1>1 DEF f_open, Call
  <2> QED BY <1>0, <1>1, <2>1, OpenStep, NoRead, CalledKeeps
<1>2. ASSUME NEW f \in Names, NEW n \in Sizes, f_read(f, n) PROVE FilesInv'
  <2>1. crashed # "broken" /\ crashed' = crashed
    BY <1>2 DEF f_read, Call
  <2> QED BY <1>0, <1>2, <2>1, ReadStep, CalledKeeps
<1>3. ASSUME NEW f \in Names, NEW n \in Sizes, NEW d \in Data, f_write(f, n, d) PROVE FilesInv'
  <2>1. crashed # "broken" /\ crashed' = crashed
    BY <1>3 DEF f_write, Call
  <2> QED BY <1>0, <1>3, <2>1, WriteStep, NoRead, CalledKeeps
<1>4. ASSUME NEW f \in Names, NEW ofs \in Offsets, f_lseek(f, ofs) PROVE FilesInv'
  <2>1. crashed # "broken" /\ crashed' = crashed
    BY <1>4 DEF f_lseek, Call
  <2> QED BY <1>0, <1>4, <2>1, SeekStep, NoRead, CalledKeeps
<1>5. ASSUME NEW f \in Names, f_truncate(f) PROVE FilesInv'
  <2>1. crashed # "broken" /\ crashed' = crashed
    BY <1>5 DEF f_truncate, Call
  <2> QED BY <1>0, <1>5, <2>1, TruncateStep, NoRead, CalledKeeps
<1>6. ASSUME NEW f \in Names, f_sync(f) \/ f_close(f) PROVE FilesInv'
  <2>1. crashed # "broken" /\ crashed' = crashed
    BY <1>6 DEF f_sync, f_close, Call
  <2> QED BY <1>0, <1>6, <2>1, SyncStep, NoRead, CalledKeeps
<1>7. ASSUME NEW f \in Names, f_unlink(f) PROVE FilesInv'
  <2>1. crashed # "broken" /\ crashed' = crashed
    BY <1>7 DEF f_unlink, Call
  <2> QED BY <1>0, <1>7, <2>1, UnlinkStep, NoRead, CalledKeeps
<1>8. ASSUME NEW f \in Names, NEW g \in Names, f_rename(f, g) PROVE FilesInv'
  <2>1. crashed # "broken" /\ crashed' = crashed
    BY <1>8 DEF f_rename, Call
  <2> QED BY <1>0, <1>8, <2>1, RenameStep, NoRead, CalledKeeps
<1>9. CASE f_getfree
  <2>1. crashed # "broken" /\ crashed' = crashed
    BY <1>9 DEF f_getfree, Call
  <2> QED BY <1>0, <1>9, <2>1, GetfreeStep, NoRead, CalledKeeps
<1>10. CASE Crash
  <2>1. crashed = "no"
    BY <1>10 DEF Crash
  <2>2. crashed' \in {"whole", "broken"} /\ read' = << >> /\ (crashed' # "broken" => FilesSound')
    BY <1>0, <1>10, <2>1, CrashStep
  <2> QED BY <2>2, NoRead DEF FilesInv, Ends3
<1>11. CASE UNCHANGED vars
  <2>1. /\ vol' = vol /\ fil' = fil /\ content' = content /\ subject' = subject /\ read' = read
        /\ stale' = stale /\ crashed' = crashed
    BY <1>11 DEF vars
  <2>2. FilesSound' = FilesSound /\ ReadsWhatWasWritten' = ReadsWhatWasWritten
    BY <2>1 DEF FilesSound, ReadsWhatWasWritten
  <2> QED BY <1>0, <2>1, <2>2 DEF FilesInv, Ends3
<1>12. CASE Next
  <2>1. \/ \E f \in Names :
             \/ \E mode \in {"read", "always", "create"} : f_open(f, mode)
             \/ \E n \in Sizes : f_read(f, n) \/ \E d \in Data : f_write(f, n, d)
             \/ \E ofs \in Offsets : f_lseek(f, ofs)
             \/ f_truncate(f) \/ f_sync(f) \/ f_close(f) \/ f_unlink(f)
             \/ \E g \in Names : f_rename(f, g)
        \/ f_getfree \/ Crash
    BY <1>12 DEF Next
  <2> QED BY <1>1, <1>2, <1>3, <1>4, <1>5, <1>6, <1>7, <1>8, <1>9, <1>10, <2>1
<1> QED BY <1>11, <1>12

LEMMA FilesInvImplies ==
    ASSUME FilesInv
    PROVE  ReadsWhatWasWritten /\ BystandersSurvive /\ CrossLinksOnlyInCriticalSections /\ Accounting
<1>1. CASE crashed = "broken"
  BY <1>1 DEF FilesInv, BystandersSurvive, CrossLinksOnlyInCriticalSections, Accounting
<1>2. CASE crashed # "broken"
  <2>1. PICK ch : Sound(vol, fil, content, subject, stale, crashed = "no", ch)
    BY <1>2 DEF FilesInv, FilesSound
  <2>2. Accounting
    BY <2>1, SoundAccounts
  <2> DEFINE whole == crashed = "no"
  <2>3. Sound(vol, fil, content, subject, stale, whole, ch)
    BY <2>1
  <2> HIDE DEF whole
  <2>4. BystandersSurvive
    BY <2>3, SoundSurvives
  <2>5. CrossLinksOnlyInCriticalSections
    BY <2>3, SoundLinks
  <2> QED BY <2>2, <2>4, <2>5 DEF FilesInv
<1> QED BY <1>1, <1>2


\* What the calls of the library have to preserve: until a crash has broken the
\* structure there is a chain of clusters for every file such that the table, the
\* entries, the buffers of the open files and every disk a crash may find agree
\* with what the program wrote (f_open to f_getfree, and f_mount after a crash).
THEOREM FilesInvariant == Spec => []FilesInv
<1> QED BY InitFiles, NextFiles, PTL DEF Spec

\* f_read returns the bytes that f_write put at that place of that file, for any
\* sizes, any number of open files and after a crash that left the volume whole,
\* unless f_truncate kept the buffer of a sector that it freed.
THEOREM ReadsWhatWasWrittenHolds == Spec => []ReadsWhatWasWritten
<1>1. FilesInv => ReadsWhatWasWritten
  BY FilesInvImplies
<1> QED BY <1>1, FilesInvariant, PTL

\* A file that is not open for writing keeps its entry, its chain and its bytes on
\* the disk, at every moment of every call about other files.
THEOREM BystandersSurviveHolds == Spec => []BystandersSurvive
<1>1. FilesInv => BystandersSurvive
  BY FilesInvImplies
<1> QED BY <1>1, FilesInvariant, PTL

\* Whatever the moment of the crash, no cluster is in two chains or free under an
\* entry, except while f_rename has both entries or between an f_truncate to
\* nothing and the f_sync that writes the entry.
THEOREM CrossLinksHold == Spec => []CrossLinksOnlyInCriticalSections
<1>1. FilesInv => CrossLinksOnlyInCriticalSections
  BY FilesInvImplies
<1> QED BY <1>1, FilesInvariant, PTL

\* free_clust, which remove_chain and create_chain keep up to date, is the number of
\* free entries of the table, and no taken cluster is lost or shared by two files.
THEOREM AccountingHolds == Spec => []Accounting
<1>1. FilesInv => Accounting
  BY FilesInvImplies
<1> QED BY <1>1, FilesInvariant, PTL
=============================================================================
