--------------------------- MODULE ExecPipe_proofs ---------------------------
(***************************************************************************)
(* Proofs about module ExecPipe, for pipes and read buffers of any size    *)
(* and output of any length.                                               *)
(***************************************************************************)
EXTENDS ExecPipe, SequenceTheorems, WellFoundedInduction, TLAPS

Byte == Nat

\* Where the bytes are: until the reading begins all that was written is in
\* the pipe; from then on it is in the result and the pipe, in that order,
\* unless a NUL cut something off.
Flow == /\ pc \in {"start", "wait"} => written = pipe
        /\ pc \in {"read", "done"} =>
              /\ "caller" \notin writers
              /\ Nul \notin ToSet(written) =>
                    result \in Seq(Byte) /\ written = result \o pipe
        /\ pc = "done" => writers = {} /\ pipe = << >>

\* The bytes of r stand in this order in the first t bytes of w.
Ordered(r, w, t) ==
    /\ \A i \in 1 .. Len(r) : r[i] # Nul /\ \E a \in 1 .. t : w[a] = r[i]
    /\ \A i, j \in 1 .. Len(r) : i < j =>
           \E a, b \in 1 .. t : a < b /\ w[a] = r[i] /\ w[b] = r[j]

\* Of the first t bytes of w, r has all but those lost by a NUL.
Covers(r, w, t) ==
    \A b \in 1 .. t : \/ \E i \in 1 .. Len(r) : r[i] = w[b]
                      \/ \E a \in 1 .. b : b - a < ReadSize /\ w[a] = Nul

\* s is what w has behind the first t bytes.
Behind(s, w, t) == Len(w) = t + Len(s) /\ \A k \in 1 .. Len(s) : w[t+k] = s[k]

\* The first t bytes have been read.
ReadTo(t, r, s, w) == Ordered(r, w, t) /\ Covers(r, w, t) /\ Behind(s, w, t)

\* The result has what has been read but for what NULs have lost.
Kept == pc \in {"read", "done"} =>
            result \in Seq(Byte) /\ \E t \in Nat : ReadTo(t, result, pipe, written)

\* Each turn of the loop starts with a cleared buffer.
EInv == /\ TypeOK /\ Flow /\ Kept
        /\ pipe \in Seq(Byte) /\ written \in Seq(Byte)
        /\ todo \in [{"command", "late"} -> Seq(Byte)]
        /\ buffer = Cleared
        /\ ToSet(pipe) \subseteq ToSet(written)

-----------------------------------------------------------------------------
LEMMA Sizes == PipeSize \in Nat \ {0} /\ ReadSize \in Nat \ {0}
               /\ MaxOutput \in Nat /\ MaxLate \in Nat
BY PipeAssumption

LEMMA ClearedType == Len(Cleared) = ReadSize+1 /\ Last(Cleared) = Nul
BY Sizes DEF Cleared, Last, Nul

LEMMA OutputsType ==
    ASSUME NEW from \in Nat, NEW most \in Nat, NEW s \in Outputs(from, most)
    PROVE  s \in Seq(Byte)
<1>1. PICK n \in 0 .. most, nuls \in SUBSET (1 .. most) :
          s = [i \in 1 .. n |-> IF i \in nuls THEN Nul ELSE from + i]
  BY DEF Outputs
<1> QED BY <1>1 DEF Byte, Nul

LEMMA InitEInv == Init => EInv
<1> SUFFICES ASSUME Init PROVE EInv
  OBVIOUS
<1>1. todo \in [{"command", "late"} -> Seq(Byte)]
  <2>1. todo.command \in Seq(Byte) /\ todo.late \in Seq(Byte)
    BY Sizes, OutputsType DEF Init
  <2>2. DOMAIN todo = {"command", "late"} /\ todo = [p \in {"command", "late"} |-> todo[p]]
    BY DEF Init
  <2> QED BY <2>1, <2>2
<1>2. Len(pipe) <= PipeSize /\ pipe \in Seq(Byte) /\ written \in Seq(Byte)
  BY Sizes DEF Init
<1> QED BY <1>1, <1>2, ClearedType DEF Init, EInv, TypeOK, Flow, Kept, ExitCodes

-----------------------------------------------------------------------------
LEMMA MinIsLeast ==
    ASSUME NEW T \in SUBSET Nat, T # {}
    PROVE  Min(T) \in T /\ \A y \in T : Min(T) <= y
<1>1. PICK x \in T : \A y \in T : ~(<<y, x>> \in OpToRel(<, Nat))
  BY WFMin, NatLessThanWellFounded, Zenon
<1>2. \A y \in T : ~(y < x)
  BY <1>1, Zenon DEF OpToRel
<1>3. \E z \in T : \A y \in T : z <= y
  BY <1>2
<1> QED BY <1>3, Zenon DEF Min

\* What the buffer holds of the next n bytes of s, as a C string: the bytes
\* before the first NUL among them.
Chunk(s, n) == CString([i \in 1 .. ReadSize+1 |-> IF i <= n THEN s[i] ELSE Cleared[i]])

LEMMA ChunkIs ==
    ASSUME NEW s \in Seq(Byte), NEW n \in 1 .. ReadSize, n <= Len(s)
    PROVE  \E m \in 0 .. n : /\ Chunk(s, n) = SubSeq(s, 1, m)
                             /\ \A i \in 1 .. m : s[i] # Nul
                             /\ m < n => s[m+1] = Nul
<1> DEFINE b == [i \in 1 .. ReadSize+1 |-> IF i <= n THEN s[i] ELSE Cleared[i]]
           I == {i \in 1 .. Len(b) : b[i] = Nul}
           l == Min(I)
           m == l - 1
<1>1. Len(s) \in Nat /\ \A i \in 1 .. Len(s) : s[i] \in Byte
  BY LenProperties, ElementOfSeq
<1>2. Len(b) = ReadSize + 1 /\ n+1 \in 1 .. ReadSize+1 /\ Nul \in Byte
  BY Sizes DEF Nul, Byte
<1>3. /\ \A i \in 1 .. n : b[i] = s[i] /\ i \in 1 .. Len(s)
      /\ \A i \in n+1 .. ReadSize+1 : b[i] = Nul
  BY <1>1, <1>2, Sizes DEF Cleared
<1> HIDE DEF b
<1>4. I \in SUBSET Nat /\ n+1 \in I
  BY <1>2, <1>3
<1>5. l \in I /\ \A i \in I : l <= i
  <2> HIDE DEF I
  <2> QED BY <1>4, MinIsLeast
<1>6. /\ l \in 1 .. n+1 /\ m \in 0 .. n /\ b[l] = Nul
      /\ \A i \in 1 .. m : i \in 1 .. Len(b) /\ i \notin I
  <2>1. l \in Nat /\ l \in 1 .. Len(b) /\ b[l] = Nul /\ l <= n+1 /\ n \in Nat
    BY <1>4, <1>5, Sizes
  <2> HIDE DEF b, l
  <2>2. l \in 1 .. n+1 /\ m \in 0 .. n
    BY <2>1
  <2>3. ASSUME NEW i \in 1 .. m PROVE i \in 1 .. Len(b) /\ i \notin I
    <3>1. i \in Nat /\ ~(l <= i) /\ i \in 1 .. Len(b)
      BY <1>2, <2>1, <2>2
    <3> HIDE DEF I, m
    <3> QED BY <1>5, <3>1, Zenon
  <2> QED BY <2>1, <2>2, <2>3
<1> HIDE DEF l
<1>7. FirstNul(b) = l
  <2>1. I # {}
    BY <1>4
  <2> QED BY <2>1, Zenon DEF FirstNul, SelectInSeq, l, I
<1>8. CString(b) = SubSeq(b, 1, m)
  <2>1. l # 0
    BY <1>6
  <2> QED BY <1>7, <2>1 DEF CString
<1>9. \A i \in 1 .. m : b[i] = s[i] /\ s[i] # Nul /\ i \in 1 .. Len(s)
  BY <1>3, <1>6
<1>10. m < n => s[m+1] = Nul
  BY <1>3, <1>6
<1> HIDE DEF m
<1>11. SubSeq(b, 1, m) = SubSeq(s, 1, m)
  <2>1. \A i \in 1 .. m : b[i] = s[i] /\ b[i] \in Byte
    BY <1>1, <1>9
  <2>2. SubSeq(b, 1, m) \in Seq(Byte) /\ Len(SubSeq(b, 1, m)) = m
        /\ \A i \in 1 .. m : SubSeq(b, 1, m)[i] = b[i]
    BY <2>1, <1>6, SubSeqProperties
  <2>3. SubSeq(s, 1, m) \in Seq(Byte) /\ Len(SubSeq(s, 1, m)) = m
        /\ \A i \in 1 .. m : SubSeq(s, 1, m)[i] = s[i]
    BY <1>1, <1>9, <1>6, SubSeqProperties
  <2> QED BY <2>1, <2>2, <2>3, SeqEqual
<1>12. Chunk(s, n) = SubSeq(s, 1, m)
  BY <1>8, <1>11 DEF Chunk, b
<1> QED BY <1>6, <1>9, <1>10, <1>12

\* A chunk without a NUL comes out of the buffer whole.
LEMMA ChunkIsWhole ==
    ASSUME NEW s \in Seq(Byte), Nul \notin ToSet(s), NEW n \in 1 .. ReadSize, n <= Len(s)
    PROVE  Chunk(s, n) = SubSeq(s, 1, n)
<1>1. PICK m \in 0 .. n : Chunk(s, n) = SubSeq(s, 1, m) /\ (m < n => s[m+1] = Nul)
  BY ChunkIs
<1>2. CASE m < n
  <2>1. Len(s) \in Nat /\ m+1 \in 1 .. Len(s)
    BY <1>2, Sizes, LenProperties
  <2> QED BY <1>1, <1>2, <2>1 DEF ToSet
<1>3. CASE m = n
  BY <1>1, <1>3
<1> QED BY <1>2, <1>3

-----------------------------------------------------------------------------
LEMMA Regroup ==
    ASSUME NEW a \in Seq(Byte), NEW b \in Seq(Byte), NEW c \in Seq(Byte)
    PROVE  (a \o b) \o c = a \o (b \o c)
BY ConcatAssociative

LEMMA AppendLast ==
    ASSUME NEW a \in Seq(Byte), NEW b \in Seq(Byte), NEW c \in Byte
    PROVE  Append(a \o b, c) = a \o Append(b, c)
<1>1. a \o b \in Seq(Byte) /\ <<c>> \in Seq(Byte)
  OBVIOUS
<1>2. Append(a \o b, c) = (a \o b) \o <<c>> /\ Append(b, c) = b \o <<c>>
  BY <1>1, AppendIsConcat
<1>3. (a \o b) \o <<c>> = a \o (b \o <<c>>)
  BY <1>1, Regroup
<1> QED BY <1>2, <1>3

\* A read moves bytes from the pipe's front to the result's end.
LEMMA Moves ==
    ASSUME NEW r \in Seq(Byte), NEW s \in Seq(Byte), NEW n \in 1 .. Len(s)
    PROVE  /\ (r \o SubSeq(s, 1, n)) \o SubSeq(s, n+1, Len(s)) = r \o s
           /\ r \o SubSeq(s, 1, n) \in Seq(Byte)
           /\ SubSeq(s, n+1, Len(s)) \in Seq(Byte)
           /\ Len(SubSeq(s, n+1, Len(s))) <= Len(s)
           /\ ToSet(SubSeq(s, n+1, Len(s))) \subseteq ToSet(s)
<1>1. Len(s) \in Nat /\ \A i \in 1 .. Len(s) : s[i] \in Byte
  BY LenProperties, ElementOfSeq
<1>2. SubSeq(s, 1, n) \in Seq(Byte)
  BY <1>1, SubSeqProperties
<1>3. /\ SubSeq(s, n+1, Len(s)) \in Seq(Byte)
      /\ Len(SubSeq(s, n+1, Len(s))) = Len(s) - n
      /\ \A i \in 1 .. Len(s) - n : SubSeq(s, n+1, Len(s))[i] = s[n+i]
  BY <1>1
<1>4. SubSeq(s, 1, n) \o SubSeq(s, n+1, Len(s)) = s
  BY <1>1, <1>2, <1>3
<1>5. (r \o SubSeq(s, 1, n)) \o SubSeq(s, n+1, Len(s))
        = r \o (SubSeq(s, 1, n) \o SubSeq(s, n+1, Len(s)))
  BY <1>2, <1>3, Regroup, ZenonT(60)
<1>6. ToSet(SubSeq(s, n+1, Len(s))) \subseteq ToSet(s)
  <2>1. \A i \in 1 .. Len(s) - n : n+i \in 1 .. Len(s)
    BY <1>1
  <2> QED BY <1>1, <1>3, <2>1 DEF ToSet
<1>7. r \o SubSeq(s, 1, n) \in Seq(Byte)
  BY <1>2
<1>8. Len(SubSeq(s, n+1, Len(s))) <= Len(s)
  BY <1>1, <1>3
<1> QED BY <1>3, <1>4, <1>5, <1>6, <1>7, <1>8, Zenon

LEMMA Appended ==
    ASSUME NEW s \in Seq(Byte), NEW c \in Byte
    PROVE  /\ Append(s, c) \in Seq(Byte) /\ Len(Append(s, c)) = Len(s) + 1
           /\ ToSet(Append(s, c)) = ToSet(s) \cup {c}
<1>1. Len(s) \in Nat /\ Append(s, c) \in Seq(Byte) /\ Len(Append(s, c)) = Len(s) + 1
      /\ Append(s, c)[Len(s)+1] = c /\ \A i \in 1 .. Len(s) : Append(s, c)[i] = s[i]
  OBVIOUS
<1>2. 1 .. Len(s)+1 = (1 .. Len(s)) \cup {Len(s)+1}
  BY <1>1
<1> QED BY <1>1, <1>2 DEF ToSet

\* The first read of all, and one of n bytes of which m come before a NUL.
LEMMA NothingRead ==
    ASSUME NEW w \in Seq(Byte)
    PROVE  ReadTo(0, << >>, w, w)
<1>1. Len(w) \in Nat /\ Len(<< >>) = 0 /\ 1 .. 0 = {} /\ \A k \in 1 .. Len(w) : 0+k = k
  BY LenProperties
<1> QED BY <1>1 DEF ReadTo, Ordered, Covers, Behind

LEMMA MoreRead ==
    ASSUME NEW r \in Seq(Byte), NEW s \in Seq(Byte), NEW w \in Seq(Byte), NEW t \in Nat,
           ReadTo(t, r, s, w), NEW n \in 1 .. Len(s), n <= ReadSize,
           NEW m \in 0 .. n, \A i \in 1 .. m : s[i] # Nul, m < n => s[m+1] = Nul
    PROVE  ReadTo(t+n, r \o SubSeq(s, 1, m), SubSeq(s, n+1, Len(s)), w)
<1> DEFINE c == SubSeq(s, 1, m)
           q == r \o c
           u == SubSeq(s, n+1, Len(s))
           l == Len(r)
<1>1. Len(s) \in Nat /\ l \in Nat /\ \A i \in 1 .. Len(s) : s[i] \in Byte
  BY LenProperties, ElementOfSeq
<1>2. c \in Seq(Byte) /\ Len(c) = m /\ \A i \in 1 .. m : c[i] = s[i]
  <2>1. \A i \in 1 .. m : s[i] \in Byte
    BY <1>1
  <2> QED BY <2>1, <1>1, SubSeqProperties
<1>3. u \in Seq(Byte) /\ Len(u) = Len(s) - n /\ \A k \in 1 .. Len(s) - n : u[k] = s[n+k]
  BY <1>1
<1>4. /\ q \in Seq(Byte) /\ Len(q) = l + m
      /\ \A i \in 1 .. l : q[i] = r[i]
      /\ \A i \in 1 .. m : q[l+i] = s[i]
  <2> HIDE DEF c
  <2>1. q \in Seq(Byte) /\ Len(q) = l + m
        /\ \A i \in 1 .. l + m : q[i] = IF i <= l THEN r[i] ELSE c[i - l]
    <3>1. c \in Seq(Byte) /\ r \in Seq(Byte)
      BY <1>2
    <3>2. q \in Seq(Byte) /\ Len(q) = Len(r) + Len(c)
          /\ \A i \in 1 .. Len(r) + Len(c) : q[i] = IF i <= Len(r) THEN r[i] ELSE c[i - Len(r)]
      BY <3>1, ConcatProperties, Zenon
    <3> HIDE DEF q
    <3> QED BY <1>2, <3>2
  <2> HIDE DEF q, l
  <2>2. \A i \in 1 .. l : q[i] = r[i]
    BY <1>1, <2>1
  <2>3. ASSUME NEW i \in 1 .. m PROVE q[l+i] = s[i]
    <3>1. l+i \in 1 .. l+m /\ ~(l+i <= l) /\ (l+i) - l = i
      BY <1>1
    <3>2. q[l+i] = c[(l+i) - l]
      BY <2>1, <3>1
    <3> QED BY <1>2, <3>1, <3>2
  <2> QED BY <2>1, <2>2, <2>3
<1> HIDE DEF q, u, c, l
<1>5. Behind(s, w, t) /\ \A k \in 1 .. Len(s) : w[t+k] = s[k]
  BY DEF ReadTo, Behind
<1>6. Behind(u, w, t+n)
  <2>1. Len(w) = (t+n) + Len(u)
    BY <1>1, <1>3, <1>5 DEF Behind
  <2>2. ASSUME NEW k \in 1 .. Len(u) PROVE w[(t+n)+k] = u[k]
    <3>1. n+k \in 1 .. Len(s) /\ k \in 1 .. Len(s) - n /\ t+(n+k) = (t+n)+k
      BY <1>1, <1>3
    <3> QED BY <1>3, <1>5, <3>1
  <2> QED BY <2>1, <2>2 DEF Behind
<1>7. \A i \in 1 .. m : t+i \in 1 .. t+n /\ t+i > t /\ w[t+i] = q[l+i] /\ q[l+i] # Nul
  <2> SUFFICES ASSUME NEW i \in 1 .. m
               PROVE  t+i \in 1 .. t+n /\ t+i > t /\ w[t+i] = q[l+i] /\ q[l+i] # Nul
    OBVIOUS
  <2>1. i \in 1 .. Len(s) /\ t+i \in 1 .. t+n /\ t+i > t
    BY <1>1
  <2> QED BY <1>4, <1>5, <2>1
<1>8. ASSUME NEW i \in 1 .. l+m
      PROVE  i \in 1 .. l \/ \E k \in 1 .. m : i = l+k
  <2>1. CASE i > l
    <3>1. i - l \in 1 .. m /\ i = l + (i - l)
      BY <1>1, <2>1
    <3> QED BY <3>1
  <2> QED BY <1>1, <2>1
<1>9. Ordered(q, w, t+n)
  <2>1. /\ \A i \in 1 .. l : r[i] # Nul /\ \E a \in 1 .. t : w[a] = r[i]
        /\ \A i, j \in 1 .. l : i < j =>
               \E a, b \in 1 .. t : a < b /\ w[a] = r[i] /\ w[b] = r[j]
    BY DEF ReadTo, Ordered, l
  <2>2. \A a \in 1 .. t : a \in 1 .. t+n /\ \A k \in 1 .. m : a < t+k
    BY <1>7
  <2>3. ASSUME NEW i \in 1 .. l+m
        PROVE  q[i] # Nul /\ \E a \in 1 .. t+n : w[a] = q[i]
    <3>1. CASE i \in 1 .. l
      BY <1>4, <2>1, <2>2, <3>1, SMTT(30)
    <3>2. CASE \E k \in 1 .. m : i = l+k
      BY <1>7, <3>2
    <3> QED BY <1>8, <3>1, <3>2
  <2>4. ASSUME NEW i \in 1 .. l+m, NEW j \in 1 .. l+m, i < j
        PROVE  \E a, b \in 1 .. t+n : a < b /\ w[a] = q[i] /\ w[b] = q[j]
    <3>1. CASE i \in 1 .. l /\ j \in 1 .. l
      <4>1. PICK a \in 1 .. t, b \in 1 .. t : a < b /\ w[a] = r[i] /\ w[b] = r[j]
        BY <2>1, <2>4, <3>1
      <4>2. a \in 1 .. t+n /\ b \in 1 .. t+n /\ q[i] = r[i] /\ q[j] = r[j]
        BY <1>4, <2>2, <3>1
      <4> QED BY <4>1, <4>2
    <3>2. ASSUME i \in 1 .. l, NEW k \in 1 .. m, j = l+k
          PROVE  \E a, b \in 1 .. t+n : a < b /\ w[a] = q[i] /\ w[b] = q[j]
      <4>1. PICK a \in 1 .. t : w[a] = r[i]
        BY <2>1, <3>2
      <4>2. a \in 1 .. t+n /\ a < t+k /\ q[i] = r[i]
        BY <1>4, <2>2, <3>2
      <4>3. t+k \in 1 .. t+n /\ w[t+k] = q[j]
        BY <1>7, <3>2
      <4> QED BY <4>1, <4>2, <4>3
    <3>3. ASSUME NEW h \in 1 .. m, i = l+h, NEW k \in 1 .. m, j = l+k
          PROVE  \E a, b \in 1 .. t+n : a < b /\ w[a] = q[i] /\ w[b] = q[j]
      <4>1. t+h \in 1 .. t+n /\ w[t+h] = q[i] /\ t+k \in 1 .. t+n /\ w[t+k] = q[j]
        BY <1>7, <3>3
      <4>2. t+h < t+k
        BY <1>1, <2>4, <3>3
      <4> QED BY <4>1, <4>2
    <3>4. ~(j \in 1 .. l /\ \E h \in 1 .. m : i = l+h)
      BY <1>1, <2>4
    <3>5. (i \in 1 .. l \/ \E k \in 1 .. m : i = l+k) /\ (j \in 1 .. l \/ \E k \in 1 .. m : j = l+k)
      BY <1>8
    <3> QED BY <3>1, <3>2, <3>3, <3>4, <3>5, Zenon
  <2> QED BY <1>4, <2>3, <2>4 DEF Ordered
<1>10. Covers(q, w, t+n)
  <2>1. \A b \in 1 .. t : \/ \E i \in 1 .. l : r[i] = w[b]
                          \/ \E a \in 1 .. b : b - a < ReadSize /\ w[a] = Nul
    BY DEF ReadTo, Covers, l
  <2> SUFFICES ASSUME NEW b \in 1 .. t+n
               PROVE  \/ \E i \in 1 .. l+m : q[i] = w[b]
                      \/ \E a \in 1 .. b : b - a < ReadSize /\ w[a] = Nul
    BY <1>4 DEF Covers
  <2>2. CASE b \in 1 .. t
    <3>1. \A i \in 1 .. l : i \in 1 .. l+m
      BY <1>1
    <3> QED BY <1>4, <2>1, <2>2, <3>1
  <2>3. CASE b - t \in 1 .. m
    <3> DEFINE k == b - t
    <3>1. t+k = b /\ l+k \in 1 .. l+m
      BY <1>1, <2>3
    <3>2. w[t+k] = q[l+k]
      BY <1>7, <2>3
    <3> QED BY <3>1, <3>2
  <2>4. CASE b - t \in m+1 .. n
    <3>1. m < n /\ m+1 \in 1 .. Len(s) /\ t+(m+1) \in 1 .. b /\ b - (t+(m+1)) < ReadSize
      BY <1>1, <2>4, Sizes
    <3>2. w[t+(m+1)] = Nul
      BY <1>5, <3>1
    <3> QED BY <3>1, <3>2
  <2>5. b \in 1 .. t \/ b - t \in 1 .. m \/ b - t \in m+1 .. n
    OBVIOUS
  <2> QED BY <2>2, <2>3, <2>4, <2>5
<1> QED BY <1>6, <1>9, <1>10 DEF ReadTo, q, u, c

\* What is written comes behind what has been read.
LEMMA WrittenBehind ==
    ASSUME NEW r \in Seq(Byte), NEW s \in Seq(Byte), NEW w \in Seq(Byte), NEW t \in Nat,
           ReadTo(t, r, s, w), NEW c \in Byte
    PROVE  ReadTo(t, r, Append(s, c), Append(w, c))
<1> DEFINE u == Append(s, c)
           v == Append(w, c)
<1>1. /\ Len(s) \in Nat /\ Len(u) = Len(s) + 1 /\ u[Len(s)+1] = c
      /\ \A k \in 1 .. Len(s) : u[k] = s[k]
  OBVIOUS
<1>2. /\ Len(w) \in Nat /\ Len(v) = Len(w) + 1 /\ v[Len(w)+1] = c
      /\ \A k \in 1 .. Len(w) : v[k] = w[k]
  OBVIOUS
<1> HIDE DEF u, v
<1>3. Len(w) = t + Len(s) /\ \A k \in 1 .. Len(s) : w[t+k] = s[k]
  BY DEF ReadTo, Behind
<1>4. \A a \in 1 .. t : v[a] = w[a] /\ \A b \in 1 .. a : b \in 1 .. t
  BY <1>1, <1>2, <1>3
<1>5. Ordered(r, v, t)
  <2>1. Ordered(r, w, t)
    BY DEF ReadTo
  <2> QED BY <1>4, <2>1, SMTT(30) DEF Ordered
<1>6. Covers(r, v, t)
  <2>1. Covers(r, w, t)
    BY DEF ReadTo
  <2> SUFFICES ASSUME NEW b \in 1 .. t
               PROVE  \/ \E i \in 1 .. Len(r) : r[i] = v[b]
                      \/ \E a \in 1 .. b : b - a < ReadSize /\ v[a] = Nul
    BY DEF Covers
  <2>2. \/ \E i \in 1 .. Len(r) : r[i] = w[b]
        \/ \E a \in 1 .. b : b - a < ReadSize /\ w[a] = Nul
    BY <2>1 DEF Covers
  <2> QED BY <1>4, <2>2
<1>7. Behind(u, v, t)
  <2>1. ASSUME NEW k \in 1 .. Len(u) PROVE v[t+k] = u[k]
    <3>1. CASE k \in 1 .. Len(s)
      <4>1. t+k \in 1 .. Len(w)
        BY <1>1, <1>3, <3>1
      <4> QED BY <1>1, <1>2, <1>3, <3>1, <4>1
    <3>2. CASE k = Len(s)+1
      <4>1. t+k = Len(w)+1
        BY <1>1, <1>3, <3>2
      <4> QED BY <1>1, <1>2, <3>2, <4>1
    <3> QED BY <1>1, <3>1, <3>2
  <2> QED BY <1>1, <1>2, <1>3, <2>1 DEF Behind
<1> QED BY <1>5, <1>6, <1>7 DEF ReadTo, u, v

LEMMA StepEInv == EInv /\ [Next]_vars => EInv'
<1> SUFFICES ASSUME EInv, [Next]_vars PROVE EInv'
  OBVIOUS
<1> USE DEF EInv
<1>1. CASE StartFails
  BY <1>1 DEF StartFails, TypeOK, Flow, Kept, Cleared
<1>2. CASE Start
  BY <1>2 DEF Start, TypeOK, Flow, Kept, Cleared
<1>3. CASE Collect
  <2>1. code' \in ExitCodes
    BY <1>3 DEF Collect, CommandEnded
  <2>2. << >> \in Seq(Byte) /\ << >> \o pipe = pipe
    OBVIOUS
  <2>3. Kept'
    <3>1. written = pipe /\ ReadTo(0, << >>, written, written)
      BY <1>3, NothingRead DEF Collect, Flow
    <3>2. result' = << >> /\ pipe' = pipe /\ written' = written
      BY <1>3 DEF Collect
    <3> QED BY <2>2, <3>1, <3>2 DEF Kept
  <2> QED BY <1>3, <2>1, <2>2, <2>3 DEF Collect, Closed, TypeOK, Flow, Cleared
<1>4. CASE Read
  <2>1. PICK n \in 1 .. ReadSize :
            /\ n <= Len(pipe)
            /\ result' = result \o Chunk(pipe, n)
            /\ buffer' = Cleared
            /\ pipe' = SubSeq(pipe, n+1, Len(pipe))
    BY <1>4, Zenon DEF Read, AfterAppend, Chunk
  <2> DEFINE s == SubSeq(pipe, n+1, Len(pipe))
  <2>2. n \in 1 .. Len(pipe) /\ pc = "read"
    BY <1>4, <2>1 DEF Read
  <2>3. s \in Seq(Byte) /\ Len(s) <= Len(pipe) /\ ToSet(s) \subseteq ToSet(pipe)
    BY <2>2, Moves, EmptySeq
  <2> HIDE DEF s
  <2>5. Nul \notin ToSet(written) => result' \in Seq(Byte) /\ written = result' \o pipe'
    <3> SUFFICES ASSUME Nul \notin ToSet(written)
                 PROVE  result' \in Seq(Byte) /\ written = result' \o pipe'
      OBVIOUS
    <3>1. Nul \notin ToSet(pipe) /\ result \in Seq(Byte) /\ written = result \o pipe
      BY <2>2 DEF Flow
    <3>2. result' = result \o SubSeq(pipe, 1, n)
      BY <2>1, <2>2, <3>1, ChunkIsWhole
    <3>3. /\ (result \o SubSeq(pipe, 1, n)) \o s = result \o pipe
          /\ result \o SubSeq(pipe, 1, n) \in Seq(Byte)
      BY <2>2, <3>1, Moves DEF s
    <3> QED BY <2>1, <3>1, <3>2, <3>3 DEF s
  <2>6. /\ UNCHANGED <<pc, code, writers, todo, written>>
        /\ buffer' = Cleared /\ pipe' = s
    BY <1>4, <2>1 DEF Read, s
  <2>7. Len(pipe') <= PipeSize
    <3>1. Len(s) \in Nat /\ Len(pipe) \in Nat
      BY <2>3
    <3> QED BY <2>3, <2>6, <3>1, Sizes DEF TypeOK
  <2>8. TypeOK'
    BY <2>6, <2>7 DEF TypeOK, Cleared
  <2>9. Flow'
    BY <2>2, <2>5, <2>6 DEF Flow
  <2>10. Kept'
    <3>1. PICK t \in Nat : ReadTo(t, result, pipe, written)
      BY <2>2 DEF Kept
    <3>2. PICK m \in 0 .. n : /\ Chunk(pipe, n) = SubSeq(pipe, 1, m)
                              /\ \A i \in 1 .. m : pipe[i] # Nul
                              /\ m < n => pipe[m+1] = Nul
      BY <2>1, ChunkIs
    <3>3. result \in Seq(Byte) /\ n <= ReadSize
      BY <2>2, Sizes DEF Kept
    <3>4. ReadTo(t+n, result \o SubSeq(pipe, 1, m), SubSeq(pipe, n+1, Len(pipe)), written)
      <4>1. /\ pipe \in Seq(Byte) /\ written \in Seq(Byte) /\ result \in Seq(Byte)
            /\ n \in 1 .. Len(pipe) /\ n <= ReadSize /\ t \in Nat /\ m \in 0 .. n
            /\ ReadTo(t, result, pipe, written)
            /\ \A i \in 1 .. m : pipe[i] # Nul
            /\ m < n => pipe[m+1] = Nul
        <5>1. pipe \in Seq(Byte) /\ written \in Seq(Byte)
          OBVIOUS
        <5>2. result \in Seq(Byte) /\ n <= ReadSize
          BY <3>3
        <5>3. n \in 1 .. Len(pipe) /\ t \in Nat /\ m \in 0 .. n
          BY <2>2
        <5> HIDE DEF EInv
        <5> QED BY <3>1, <3>2, <5>1, <5>2, <5>3, Zenon
      <4> QED BY <4>1, MoreRead
    <3>5. result \o SubSeq(pipe, 1, m) \in Seq(Byte)
      <4>1. \A i \in 1 .. m : i \in 1 .. Len(pipe) /\ pipe[i] \in Byte
        BY <2>2, ElementOfSeq
      <4>2. SubSeq(pipe, 1, m) \in Seq(Byte)
        BY <4>1, SubSeqProperties
      <4> QED BY <3>3, <4>2
    <3>6. result' = result \o SubSeq(pipe, 1, m) /\ written' = written /\ t+n \in Nat
      BY <2>1, <2>6, <3>2
    <3> QED BY <2>1, <3>4, <3>5, <3>6 DEF Kept
  <2> QED BY <2>3, <2>6, <2>8, <2>9, <2>10 DEF Cleared
<1>5. CASE ReadBroken
  BY <1>5 DEF ReadBroken, TypeOK, Flow, Kept, Cleared
<1>6. ASSUME NEW p \in {"command", "late"}, Write(p) PROVE EInv'
  <2>1. /\ todo[p] \in Seq(Byte) /\ todo[p] # << >>
        /\ p \in writers /\ Len(pipe) < PipeSize
        /\ pipe' = Append(pipe, Head(todo[p]))
        /\ written' = Append(written, Head(todo[p]))
        /\ todo' = [todo EXCEPT ![p] = Tail(@)]
        /\ UNCHANGED <<pc, code, buffer, result, writers, stays>>
    BY <1>6 DEF Write
  <2>2. Head(todo[p]) \in Byte /\ Tail(todo[p]) \in Seq(Byte)
    BY <2>1, HeadTailProperties
  <2>3. todo' \in [{"command", "late"} -> Seq(Byte)]
    BY <2>1, <2>2
  <2>4. /\ pipe' \in Seq(Byte) /\ written' \in Seq(Byte) /\ Len(pipe') = Len(pipe) + 1
        /\ ToSet(pipe') = ToSet(pipe) \cup {Head(todo[p])}
        /\ ToSet(written') = ToSet(written) \cup {Head(todo[p])}
    BY <2>1, <2>2, Appended
  <2>5. Flow'
    <3>1. pc # "done"
      BY <2>1 DEF Flow
    <3>2. pc = "read" => "caller" \notin writers
      BY DEF Flow
    <3>3. ASSUME pc = "read", Nul \notin ToSet(written')
          PROVE  result' \in Seq(Byte) /\ written' = result' \o pipe'
      <4>1. result \in Seq(Byte) /\ written = result \o pipe
        BY <2>4, <3>3 DEF Flow
      <4>2. Append(result \o pipe, Head(todo[p])) = result \o Append(pipe, Head(todo[p]))
        BY <2>2, <4>1, AppendLast
      <4> QED BY <2>1, <4>1, <4>2
    <3>4. pc \in {"start", "wait"} => written' = pipe'
      BY <2>1 DEF Flow
    <3> QED BY <2>1, <3>1, <3>2, <3>3, <3>4 DEF Flow
  <2>6. TypeOK'
    <3>1. Len(pipe) \in Nat
      OBVIOUS
    <3>2. Len(pipe') <= PipeSize
      BY <2>1, <2>4, <3>1, Sizes
    <3> QED BY <2>1, <3>2 DEF TypeOK
  <2>7. Kept'
    <3>1. CASE pc \in {"read", "done"}
      <4>1. result \in Seq(Byte) /\ \E t \in Nat : ReadTo(t, result, pipe, written)
        BY <3>1 DEF Kept
      <4> QED BY <2>1, <2>2, <4>1, WrittenBehind DEF Kept
    <3>2. CASE pc \notin {"read", "done"}
      BY <2>1, <3>2 DEF Kept
    <3> QED BY <3>1, <3>2
  <2> QED BY <2>1, <2>3, <2>4, <2>5, <2>6, <2>7 DEF Cleared
<1>7. ASSUME NEW p \in {"command", "late"}, Exit(p) PROVE EInv'
  BY <1>7 DEF Exit, TypeOK, Flow, Kept, Cleared
<1>8. CASE UNCHANGED vars
  BY <1>8 DEF vars, TypeOK, Flow, Kept, Cleared
<1> QED BY <1>1, <1>2, <1>3, <1>4, <1>5, <1>6, <1>7, <1>8 DEF Next, Caller, Process

-----------------------------------------------------------------------------
\* The caller reads into a buffer that ends in a zero byte, the pipe never
\* holds more than it can, and the exit code that is collected is one of a
\* process that has ended (exec.c:74-96).
THEOREM TypeCorrect == Spec => []TypeOK
<1>1. EInv => TypeOK
  BY DEF EInv
<1> QED BY InitEInv, StepEInv, <1>1, PTL DEF Spec

\* What is returned is the output in the order it was written, all of it but for
\* what NULs take with them, whatever the sizes of the pipe and the buffer, however
\* the reads cut it and whoever writes on after the command ended (exec.c:83-98).
THEOREM OutputReturned == Spec => []ResultIsOutput
<1>1. EInv => ResultIsOutput
  <2> SUFFICES ASSUME EInv, pc = "done" PROVE ResultIsOutput
    BY DEF ResultIsOutput
  <2>1. /\ writers = {} /\ pipe = << >> /\ result \in Seq(Byte) /\ written \in Seq(Byte)
        /\ Nul \notin ToSet(written) => written = result \o pipe
    BY DEF EInv, Flow, Kept
  <2>2. result \o << >> = result /\ Len(<< >>) = 0
    BY <2>1
  <2>3. PICK t \in Nat : ReadTo(t, result, pipe, written)
    BY DEF EInv, Kept
  <2>4. /\ Len(written) = t /\ Len(result) \in Nat
        /\ DOMAIN written = 1 .. t /\ DOMAIN result = 1 .. Len(result)
    BY <2>1, <2>2, <2>3 DEF ReadTo, Behind
  <2>5. /\ \A i \in 1 .. Len(result) : result[i] # Nul /\ \E a \in 1 .. t : written[a] = result[i]
        /\ \A i, j \in 1 .. Len(result) : i < j =>
               \E a, b \in 1 .. t : a < b /\ written[a] = result[i] /\ written[b] = result[j]
    BY <2>3 DEF ReadTo, Ordered
  <2>6. \A b \in 1 .. t : \/ \E i \in 1 .. Len(result) : result[i] = written[b]
                          \/ \E a \in 1 .. b : b - a < ReadSize /\ written[a] = Nul
    BY <2>3 DEF ReadTo, Covers
  <2>7. ToSet(result) \subseteq ToSet(written) \ {Nul}
    BY <2>4, <2>5 DEF ToSet
  <2>8. \A b \in 1 .. t : \/ written[b] \in ToSet(result)
                          \/ \E a \in 1 .. b : b - a < ReadSize /\ written[a] = Nul
    BY <2>4, <2>6 DEF ToSet
  <2>9. Nul \notin ToSet(written) => result = written
    BY <2>1, <2>2
  <2>10. \A i, j \in DOMAIN result : i < j =>
             \E a, b \in DOMAIN written :
                 a < b /\ written[a] = result[i] /\ written[b] = result[j]
    <3> SUFFICES ASSUME NEW i \in DOMAIN result, NEW j \in DOMAIN result, i < j
                 PROVE  \E a, b \in DOMAIN written :
                            a < b /\ written[a] = result[i] /\ written[b] = result[j]
      OBVIOUS
    <3>1. i \in 1 .. Len(result) /\ j \in 1 .. Len(result)
      BY <2>4
    <3>2. PICK a \in 1 .. t, b \in 1 .. t :
              a < b /\ written[a] = result[i] /\ written[b] = result[j]
      BY <2>5, <3>1
    <3> QED BY <2>4, <3>2
  <2> QED BY <2>1, <2>4, <2>7, <2>8, <2>9, <2>10, Zenon DEF ResultIsOutput
<1> QED BY InitEInv, StepEInv, <1>1, PTL DEF Spec
=============================================================================
