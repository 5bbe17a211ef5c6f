-------------------------- MODULE HexFile_proofs --------------------------
(***************************************************************************)
(* Facts about module HexFile, for address spaces and segments of any size *)
(* and lists of any blocks: what AddBlock and Store do to a list, what     *)
(* memory a list makes, and the sum that TotalLength is.  Before them, the *)
(* facts about least numbers, folds and numbers that wrap that they and    *)
(* the proofs about the modules built on HexFile rest on.                  *)
(***************************************************************************)
EXTENDS HexFile, SequenceTheorems, WellFoundedInduction, TLAPS

\* There is no library theorem without an operator parameter that gives a
\* least number, so that it is taken from the well-founded order.
LEMMA LeastNatural ==
    ASSUME NEW T \in SUBSET Nat, T # {}
    PROVE  \E x \in T : \A y \in T : x <= y
<1>1. PICK x \in T : \A y \in T : ~(<<y, x>> \in OpToRel(<, Nat))
  BY WFMin, NatLessThanWellFounded, Zenon
<1>2. \A y \in T : ~(y < x)
  BY <1>1, Zenon DEF OpToRel
<1> QED BY <1>2

LEMMA MinIsLeast ==
    ASSUME NEW T \in SUBSET Nat, T # {}
    PROVE  Min(T) \in T /\ \A y \in T : Min(T) <= y
<1>1. \E x \in T : \A y \in T : x <= y
  BY LeastNatural
<1> QED BY <1>1, Zenon DEF Min

LEMMA GreatestBelow ==
    ASSUME NEW n \in Nat, NEW T \in SUBSET (1 .. n), T # {}
    PROVE  \E x \in T : \A y \in T : y <= x
<1> DEFINE U == {n - y : y \in T}
<1>1. U \in SUBSET Nat /\ U # {}
  <2>1. \A y \in T : y \in Nat /\ n - y \in Nat
    OBVIOUS
  <2> QED BY <2>1
<1>2. PICK u \in U : \A w \in U : u <= w
  BY <1>1, LeastNatural
<1>3. PICK x \in T : u = n - x
  BY <1>2
<1>4. \A y \in T : n - x <= n - y
  BY <1>2, <1>3
<1> QED BY <1>4


LEMMA MaxIsGreatest ==
    ASSUME NEW n \in Nat, NEW T \in SUBSET (1 .. n), T # {}
    PROVE  Max(T) \in T /\ \A y \in T : y <= Max(T)
<1>1. \E x \in T : \A y \in T : x >= y
  <2>1. PICK x \in T : \A y \in T : y <= x
    BY GreatestBelow
  <2>2. \A y \in T : x >= y
    BY <2>1
  <2> QED BY <2>2
<1>2. Max(T) \in T /\ \A y \in T : Max(T) >= y
  BY <1>1, Zenon DEF Max
<1> QED BY <1>2

-----------------------------------------------------------------------------
\* The list that is left when an element is put in at a place.
LEMMA Inserted ==
    ASSUME NEW E, NEW s \in Seq(E), NEW e \in E, NEW i \in 1 .. Len(s)+1
    PROVE  LET t == InsertAt(s, i, e)
           IN  /\ t \in Seq(E) /\ Len(t) = Len(s) + 1 /\ t[i] = e
               /\ \A j \in 1 .. i-1 : t[j] = s[j]
               /\ \A j \in i+1 .. Len(s)+1 : t[j] = s[j-1]
<1> DEFINE p == SubSeq(s, 1, i-1)
           q == SubSeq(s, i, Len(s))
           u == p \o <<e>>
           t == u \o q
<1>1. Len(s) \in Nat /\ i \in Nat
  BY LenProperties
<1>2. /\ p \in Seq(E) /\ Len(p) = i-1 /\ \A j \in 1 .. i-1 : p[j] = s[j]
      /\ q \in Seq(E) /\ Len(q) = Len(s)-i+1
      /\ \A j \in 1 .. Len(s)-i+1 : q[j] = s[i+j-1]
  BY <1>1
<1> HIDE DEF p, q
<1>3. /\ u \in Seq(E) /\ Len(u) = i /\ u[i] = e
      /\ \A j \in 1 .. i-1 : u[j] = s[j]
  <2>1. <<e>> \in Seq(E) /\ Len(<<e>>) = 1 /\ <<e>>[1] = e
    OBVIOUS
  <2>2. /\ u \in Seq(E) /\ Len(u) = (i-1) + 1
        /\ \A j \in 1 .. (i-1) + 1 : u[j] = IF j <= i-1 THEN p[j] ELSE <<e>>[j - (i-1)]
    BY <1>2, <2>1, ConcatProperties
  <2>3. i \in 1 .. (i-1) + 1 /\ ~(i <= i-1) /\ i - (i-1) = 1
    BY <1>1
  <2> HIDE DEF u
  <2>4. u[i] = e
    BY <2>1, <2>2, <2>3
  <2> QED BY <1>1, <1>2, <2>2, <2>4, SMTT(30)
<1>9. i \in Nat /\ Len(s)-i+1 \in Nat /\ i + (Len(s)-i+1) = Len(s)+1
  BY <1>1
<1> HIDE DEF u
<1>4. /\ t \in Seq(E) /\ Len(t) = Len(s) + 1
      /\ \A j \in 1 .. i : t[j] = u[j]
      /\ \A j \in 1 .. Len(q) : t[i+j] = q[j]
  <2>1. /\ t \in Seq(E) /\ Len(t) = Len(u) + Len(q)
        /\ \A j \in 1 .. Len(u) + Len(q) : t[j] = IF j <= Len(u) THEN u[j] ELSE q[j - Len(u)]
    BY <1>2, <1>3, ConcatProperties
  <2> HIDE DEF t
  <2>2. Len(t) = Len(s) + 1 /\ \A j \in 1 .. i : t[j] = u[j]
    BY <1>2, <1>3, <1>9, <2>1
  <2>3. ASSUME NEW j \in 1 .. Len(q)
        PROVE  t[i+j] = q[j]
    <3>1. i+j \in 1 .. Len(u) + Len(q) /\ ~(i+j <= Len(u)) /\ (i+j) - Len(u) = j
      BY <1>2, <1>3, <1>9
    <3> QED BY <2>1, <3>1
  <2> QED BY <2>1, <2>2, <2>3
<1>5. InsertAt(s, i, e) = t
  BY DEF InsertAt, u, p, q
<1>6. \A j \in 1 .. i-1 : t[j] = s[j]
  BY <1>1, <1>3, <1>4
<1>7. \A j \in i+1 .. Len(s)+1 : t[j] = s[j-1]
  <2> SUFFICES ASSUME NEW j \in i+1 .. Len(s)+1 PROVE t[j] = s[j-1]
    OBVIOUS
  <2>1. j-i \in 1 .. Len(q) /\ j = i + (j-i) /\ j-i \in 1 .. Len(s)-i+1 /\ i+(j-i)-1 = j-1
    BY <1>1, <1>2
  <2>2. t[i+(j-i)] = q[j-i] /\ q[j-i] = s[i+(j-i)-1]
    BY <1>2, <1>4, <2>1
  <2> QED BY <2>1, <2>2
<1>8. t[i] = e
  BY <1>1, <1>3, <1>4
<1> HIDE DEF t
<1> QED BY <1>4, <1>5, <1>6, <1>7, <1>8

-----------------------------------------------------------------------------
\* Numbers that wrap at w.
LEMMA WrapIs ==
    ASSUME NEW w \in Nat \ {0}, NEW x \in Nat
    PROVE  x % w \in 0 .. w-1 /\ x \div w \in Nat /\ x = w * (x \div w) + (x % w)
OBVIOUS

LEMMA WrapUnique ==
    ASSUME NEW w \in Nat \ {0}, NEW q \in Nat, NEW r \in 0 .. w-1
    PROVE  (w * q + r) % w = r
OBVIOUS

LEMMA WrapTwice ==
    ASSUME NEW w \in Nat \ {0}, NEW x \in Nat, NEW k \in Nat
    PROVE  ((x % w) + k) % w = (x + k) % w
<1> DEFINE q == x \div w
           r == x % w
           p == (r + k) \div w
           m == (r + k) % w
<1>1. r \in Nat /\ q \in Nat /\ x = w * q + r
  BY WrapIs
<1> HIDE DEF q, r
<1>2. m \in 0 .. w-1 /\ p \in Nat /\ r + k = w * p + m
  <2>1. r + k \in Nat
    BY <1>1
  <2> QED BY <2>1, WrapIs
<1> HIDE DEF p, m
<1>3. w * q + w * p = w * (q + p) /\ w * q \in Int /\ w * p \in Int /\ q + p \in Nat
  BY <1>1, <1>2
<1>4. x + k = w * (q + p) + m
  BY <1>1, <1>2, <1>3
<1>5. (w * (q + p) + m) % w = m
  BY <1>2, <1>3, WrapUnique
<1> QED BY <1>4, <1>5 DEF m, r

\* A number that wraps at a multiple of s keeps its remainder.
LEMMA WrapMultiple ==
    ASSUME NEW s \in Nat \ {0}, NEW k \in Nat, NEW r \in Nat
    PROVE  (s * k + r) % s = r % s
<1> DEFINE m == r % s
           j == r \div s
<1>1. m \in 0 .. s-1 /\ j \in Nat /\ r = s * j + m
  BY WrapIs
<1> HIDE DEF m, j
<1>2. k + j \in Nat /\ s * k \in Int /\ s * j \in Int /\ s * k + s * j = s * (k + j)
  BY <1>1
<1>3. s * k + r = s * (k + j) + m
  BY <1>1, <1>2
<1>4. (s * (k + j) + m) % s = m
  BY <1>1, <1>2, WrapUnique
<1> QED BY <1>3, <1>4 DEF m

LEMMA WrapNested ==
    ASSUME NEW s \in Nat \ {0}, NEW w \in Nat \ {0}, w % s = 0, NEW x \in Nat
    PROVE  (x % w) % s = x % s
<1> DEFINE q == w \div s
           p == x \div w
           r == x % w
<1>1. q \in Nat /\ w = s * q + (w % s)
  BY WrapIs
<1>2. p \in Nat /\ r \in Nat /\ x = w * p + r
  BY WrapIs
<1> HIDE DEF q, p, r
<1>3. s * q \in Int /\ w = s * q
  BY <1>1
<1>4. q * p \in Nat /\ w * p = s * (q * p)
  BY <1>1, <1>2, <1>3
<1>5. x = s * (q * p) + r
  BY <1>2, <1>4
<1>6. (s * (q * p) + r) % s = r % s
  BY <1>2, <1>4, WrapMultiple
<1> QED BY <1>5, <1>6 DEF r

LEMMA WrapSmall ==
    ASSUME NEW w \in Nat \ {0}, NEW x \in 0 .. w-1
    PROVE  x % w = x
OBVIOUS

\* What was added is what the difference says, as far as it did not wrap.
LEMMA WrapBack ==
    ASSUME NEW w \in Nat \ {0}, NEW x \in 0 .. w-1, NEW k \in Nat
    PROVE  (((x + k) % w) - x) % w = k % w
<1> DEFINE m == k % w
           p == k \div w
<1>1. m \in 0 .. w-1 /\ p \in Nat /\ k = w * p + m
  BY WrapIs
<1>2. (x + k) % w = (x + m) % w
  <2>1. x \in Nat
    OBVIOUS
  <2>2. ((k % w) + x) % w = (k + x) % w
    BY <2>1, WrapTwice
  <2> QED BY <2>2, <1>1
<1> HIDE DEF m, p
<1>3. CASE x + m < w
  <2>1. (x + m) % w = x + m
    BY <1>1, <1>3
  <2>2. (x + m) - x = m /\ m % w = m
    BY <1>1
  <2> QED BY <1>2, <2>1, <2>2 DEF m
<1>4. CASE x + m >= w
  <2>1. (x + m) % w = x + m - w
    BY <1>1, <1>4
  <2>2. (x + m - w) - x = m - w /\ (m - w) % w = m
    BY <1>1
  <2> QED BY <1>2, <2>1, <2>2 DEF m
<1> QED BY <1>1, <1>3, <1>4

LEMMA WrapInjective ==
    ASSUME NEW w \in Nat \ {0}, NEW x \in 0 .. w-1,
           NEW k \in 0 .. w-1, NEW m \in 0 .. w-1, (x + k) % w = (x + m) % w
    PROVE  k = m
<1>1. k % w = k /\ m % w = m
  OBVIOUS
<1>2. (((x + k) % w) - x) % w = k /\ (((x + m) % w) - x) % w = m
  BY <1>1, WrapBack, SMTT(30)
<1> QED BY <1>2

-----------------------------------------------------------------------------
\* The folds of the community modules are recursive functions on sets.  That
\* there is one for every list of steps g is shown here, as the library's
\* theorem takes an operator.
IsFold(f, n, base, g) ==
    \A s \in SUBSET (1 .. n) : f[s] = IF s = {} THEN base ELSE g[Max(s)][f[s \ {Max(s)}]]

LEMMA FoldStep ==
    ASSUME NEW m \in Nat \ {0}, NEW V, NEW base \in V, NEW g, g[m] \in [V -> V],
           NEW f \in [SUBSET (1 .. m-1) -> V], IsFold(f, m-1, base, g)
    PROVE  \E h \in [SUBSET (1 .. m) -> V] : IsFold(h, m, base, g)
<1> DEFINE h == [s \in SUBSET (1 .. m) |-> IF m \in s THEN g[m][f[s \ {m}]] ELSE f[s]]
<1>1. \A s \in SUBSET (1 .. m) : s \ {m} \in SUBSET (1 .. m-1)
  OBVIOUS
<1>2. \A s \in SUBSET (1 .. m) : m \notin s => s \in SUBSET (1 .. m-1)
  OBVIOUS
<1>3. \A s \in SUBSET (1 .. m-1) : f[s] \in V
  OBVIOUS
<1>4. h \in [SUBSET (1 .. m) -> V]
  BY <1>1, <1>2, <1>3
<1>5. ASSUME NEW s \in SUBSET (1 .. m)
      PROVE  h[s] = IF s = {} THEN base ELSE g[Max(s)][h[s \ {Max(s)}]]
  <2>1. CASE s = {}
    <3>1. {} \in SUBSET (1 .. m-1) /\ {} \in SUBSET (1 .. m)
      OBVIOUS
    <3>2. f[{}] = base
      BY <3>1 DEF IsFold
    <3> QED BY <2>1, <3>1, <3>2
  <2>2. CASE s # {} /\ m \in s
    <3>1. Max(s) \in s /\ \A y \in s : y <= Max(s)
      BY <2>2, MaxIsGreatest
    <3>2. Max(s) = m
      BY <2>2, <3>1
    <3>3. h[s] = g[m][f[s \ {m}]]
      BY <2>2
    <3>4. h[s \ {m}] = f[s \ {m}]
      <4>1. s \ {m} \in SUBSET (1 .. m) /\ m \notin s \ {m}
        OBVIOUS
      <4> QED BY <4>1
    <3> HIDE DEF h
    <3> QED BY <2>2, <3>2, <3>3, <3>4
  <2>3. CASE s # {} /\ m \notin s
    <3> DEFINE x == Max(s)
    <3>1. x \in s
      BY <2>3, MaxIsGreatest
    <3> HIDE DEF x
    <3>2. s \in SUBSET (1 .. m-1) /\ s \ {x} \in SUBSET (1 .. m-1) /\ s \ {x} \in SUBSET (1 .. m)
          /\ m \notin s \ {x}
      BY <1>2, <2>3
    <3>3. f[s] = g[x][f[s \ {x}]]
      BY <2>3, <3>2 DEF IsFold, x
    <3>4. h[s] = f[s] /\ h[s \ {x}] = f[s \ {x}]
      BY <2>3, <3>2
    <3> HIDE DEF h
    <3> QED BY <2>3, <3>3, <3>4 DEF x
  <2> QED BY <2>1, <2>2, <2>3
<1>6. IsFold(h, m, base, g)
  <2> HIDE DEF h
  <2> QED BY <1>5 DEF IsFold
<1> HIDE DEF h
<1> QED BY <1>4, <1>6

LEMMA FoldExists ==
    ASSUME NEW n \in Nat, NEW V, NEW base \in V, NEW g \in [1 .. n -> [V -> V]]
    PROVE  \E f \in [SUBSET (1 .. n) -> V] : IsFold(f, n, base, g)
<1> DEFINE P(m) == \E f \in [SUBSET (1 .. m) -> V] : IsFold(f, m, base, g)
           T == {m \in 0 .. n : ~P(m)}
<1> SUFFICES ASSUME ~P(n) PROVE FALSE
  OBVIOUS
<1> HIDE DEF P
<1>1. T \in SUBSET Nat /\ n \in T
  OBVIOUS
<1>2. PICK m \in T : \A y \in T : m <= y
  <2> HIDE DEF T
  <2> QED BY <1>1, LeastNatural
<1>3. m \in 0 .. n /\ ~P(m)
  BY <1>2
<1> USE DEF P
<1>4. CASE m = 0
  <2> DEFINE f == [s \in SUBSET (1 .. 0) |-> base]
  <2>1. f \in [SUBSET (1 .. 0) -> V] /\ \A s \in SUBSET (1 .. 0) : s = {} /\ f[s] = base
    <3>1. 1 .. 0 = {}
      OBVIOUS
    <3>2. \A s \in SUBSET (1 .. 0) : s = {}
      BY <3>1
    <3> QED BY <3>2
  <2> HIDE DEF f
  <2>2. IsFold(f, 0, base, g)
    BY <2>1 DEF IsFold
  <2> QED BY <1>3, <1>4, <2>1, <2>2
<1>5. CASE m # 0
  <2>1. m \in Nat \ {0} /\ m-1 \in 0 .. n /\ ~(m <= m-1) /\ m \in 1 .. n
    BY <1>3, <1>5
  <2>2. m-1 \notin T
    BY <1>2, <2>1
  <2>3. P(m-1)
    BY <2>1, <2>2
  <2>4. g[m] \in [V -> V]
    BY <2>1
  <2>5. PICK f \in [SUBSET (1 .. m-1) -> V] : IsFold(f, m-1, base, g)
    BY <2>3
  <2>6. P(m)
    BY <2>1, <2>4, <2>5, FoldStep
  <2> QED BY <1>3, <2>6
<1> QED BY <1>4, <1>5

\* What holds at 0 and passes from each number to the next holds up to n.
LEMMA Stepwise ==
    ASSUME NEW n \in Nat, NEW T \in SUBSET (0 .. n), 0 \in T,
           \A m \in 1 .. n : m-1 \in T => m \in T
    PROVE  \A m \in 0 .. n : m \in T
<1> DEFINE U == {m \in 0 .. n : m \notin T}
<1> SUFFICES ASSUME U # {} PROVE FALSE
  OBVIOUS
<1>1. PICK m \in U : \A y \in U : m <= y
  <2>1. U \in SUBSET Nat
    OBVIOUS
  <2> HIDE DEF U
  <2> QED BY <2>1, LeastNatural
<1>2. m \in 1 .. n /\ m-1 \in 0 .. n /\ ~(m <= m-1)
  OBVIOUS
<1>3. m-1 \in T
  BY <1>1, <1>2
<1> QED BY <1>2, <1>3

\* A fold as the list of the values it goes through.
Runs(p, n, base, g) == p[0] = base /\ \A m \in 1 .. n : p[m] = g[m][p[m-1]]

LEMMA FoldPrefix ==
    ASSUME NEW n \in Nat, NEW V, NEW base \in V, NEW g \in [1 .. n -> [V -> V]]
    PROVE  \E p \in [0 .. n -> V] : Runs(p, n, base, g)
<1>1. PICK f \in [SUBSET (1 .. n) -> V] : IsFold(f, n, base, g)
  BY FoldExists
<1> DEFINE p == [m \in 0 .. n |-> f[1 .. m]]
<1>2. \A m \in 0 .. n : 1 .. m \in SUBSET (1 .. n)
  OBVIOUS
<1>3. p \in [0 .. n -> V]
  BY <1>2
<1>4. p[0] = base
  <2>1. 1 .. 0 = {} /\ {} \in SUBSET (1 .. n)
    OBVIOUS
  <2>2. f[{}] = base
    BY <1>1, <2>1 DEF IsFold
  <2>3. p[0] = f[1 .. 0]
    OBVIOUS
  <2> QED BY <2>1, <2>2, <2>3
<1>5. ASSUME NEW m \in 1 .. n
      PROVE  p[m] = g[m][p[m-1]]
  <2> DEFINE s == 1 .. m
  <2>1. m \in Nat \ {0} /\ m-1 \in 0 .. n /\ m \in 0 .. n /\ m \in s /\ s # {}
        /\ s \in SUBSET (1 .. n)
    BY SMTT(30)
  <2>4. s \ {m} = 1 .. m-1
    OBVIOUS
  <2>2. Max(s) = m
    <3>1. Max(s) \in s /\ \A y \in s : y <= Max(s)
      <4>1. s \in SUBSET (1 .. n)
        BY <2>1
      <4> HIDE DEF s
      <4> QED BY <2>1, MaxIsGreatest
    <3>2. m <= Max(s)
      BY <2>1, <3>1
    <3> QED BY <2>1, <3>1, <3>2
  <2> HIDE DEF s
  <2>3. f[s] = g[m][f[s \ {m}]]
    BY <1>1, <2>1, <2>2 DEF IsFold
  <2> QED BY <2>1, <2>3, <2>4 DEF s
<1> HIDE DEF p
<1> QED BY <1>3, <1>4, <1>5 DEF Runs
-----------------------------------------------------------------------------
BlockType == [addr : Address, data : Seq(Int)]

\* The bytes of a block, and of a list, each with the address it goes to.  A
\* list in which blocks overlap has two bytes for one address.
BytesOf(b) == {<<(b.addr + k) % W, b.data[k+1]>> : k \in 0 .. Len32(b)-1}
Bytes(bs) == UNION {BytesOf(bs[i]) : i \in 1 .. Len(bs)}

-----------------------------------------------------------------------------
LEMMA Sizes == /\ W \in Nat \ {0} /\ S \in Nat \ {0} /\ S <= W
               /\ W \div S \in Nat /\ W = S * (W \div S)
<1>1. W \in Nat \ {0} /\ S \in Nat \ {0} /\ W % S = 0
  BY SizesAssumption
<1>2. W \div S \in Nat /\ W = S * (W \div S) + (W % S)
  BY <1>1, WrapIs
<1>3. W = S * (W \div S)
  <2> DEFINE q == W \div S
  <2>1. q \in Nat /\ W = S * q + (W % S) /\ S * q \in Int
    BY <1>1, <1>2
  <2> HIDE DEF q
  <2>2. W = S * q
    BY <1>1, <2>1
  <2> QED BY <2>2 DEF q
<1>4. S <= W
  <2> DEFINE q == W \div S
  <2>1. q \in Nat /\ W = S * q
    BY <1>2, <1>3
  <2> HIDE DEF q
  <2>2. q # 0
    BY <1>1, <2>1
  <2>3. S <= S * q
    BY <1>1, <2>1, <2>2
  <2> QED BY <2>1, <2>3
<1> QED BY <1>1, <1>2, <1>3, <1>4

LEMMA ListBlocks ==
    ASSUME NEW bs \in Seq(BlockType)
    PROVE  /\ Len(bs) \in Nat /\ DOMAIN bs = 1 .. Len(bs)
           /\ \A i \in 1 .. Len(bs) :
                 /\ bs[i] \in BlockType /\ bs[i].addr \in Address /\ bs[i].data \in Seq(Int)
                 /\ Len32(bs[i]) = Len(bs[i].data) /\ Len32(bs[i]) \in Nat
                 /\ End(bs[i]) \in Address
<1>1. Len(bs) \in Nat /\ DOMAIN bs = 1 .. Len(bs)
  BY LenProperties
<1>2. ASSUME NEW i \in 1 .. Len(bs)
      PROVE  /\ bs[i] \in BlockType /\ bs[i].addr \in Address /\ bs[i].data \in Seq(Int)
             /\ Len32(bs[i]) = Len(bs[i].data) /\ Len32(bs[i]) \in Nat
             /\ End(bs[i]) \in Address
  <2>1. bs[i] \in BlockType
    BY ElementOfSeq
  <2>2. bs[i].addr \in Address /\ bs[i].data \in Seq(Int)
    BY <2>1 DEF BlockType
  <2>3. Len32(bs[i]) = Len(bs[i].data) /\ Len32(bs[i]) \in Nat
    BY <2>2 DEF Len32
  <2>4. bs[i].addr + Len32(bs[i]) \in Nat
    BY <2>2, <2>3, SizesAssumption DEF Address
  <2>5. End(bs[i]) \in Address
    BY <2>4, Sizes, WrapIs DEF End, Address
  <2> QED BY <2>1, <2>2, <2>3, <2>5
<1> QED BY <1>1, <1>2

LEMMA InsertedBlock ==
    ASSUME NEW bs \in Seq(BlockType), NEW b \in BlockType, NEW i \in 1 .. Len(bs)+1
    PROVE  LET cs == InsertAt(bs, i, b)
           IN  /\ cs \in Seq(BlockType) /\ Len(cs) = Len(bs) + 1 /\ cs[i] = b
               /\ \A j \in 1 .. i-1 : cs[j] = bs[j]
               /\ \A j \in i+1 .. Len(bs)+1 : cs[j] = bs[j-1]
BY Inserted

\* The same with the place counted from 0, as InsertIndex has it.
LEMMA BlockPutIn ==
    ASSUME NEW bs \in Seq(BlockType), NEW b \in BlockType, NEW k \in 0 .. Len(bs)
    PROVE  LET t == InsertAt(bs, k+1, b)
           IN  /\ t \in Seq(BlockType) /\ Len(t) = Len(bs) + 1 /\ t[k+1] = b
               /\ \A j \in 1 .. k : t[j] = bs[j]
               /\ \A j \in k+2 .. Len(bs)+1 : t[j] = bs[j-1]
<1> DEFINE l == k+1
<1>1. Len(bs) \in Nat /\ k \in Nat /\ l \in 1 .. Len(bs)+1 /\ l-1 = k /\ l+1 = k+2
  BY LenProperties
<1> HIDE DEF l
<1>2. LET t == InsertAt(bs, l, b)
      IN  /\ t \in Seq(BlockType) /\ Len(t) = Len(bs) + 1 /\ t[l] = b
          /\ \A j \in 1 .. l-1 : t[j] = bs[j]
          /\ \A j \in l+1 .. Len(bs)+1 : t[j] = bs[j-1]
  BY <1>1, InsertedBlock
<1> QED BY <1>1, <1>2, Zenon DEF l

\* What the two searches of AddBlock find.
LEMMA AppendsAt ==
    ASSUME NEW bs \in Seq(BlockType), bs # << >>, NEW a \in Address
    PROVE  LET i == AppendIndex(bs, a)
           IN  /\ i \in 0 .. Len(bs)
               /\ i > 0 => End(bs[i]) = a
               /\ i = 0 => \/ End(bs[Len(bs)]) < a
                           \/ \A j \in 1 .. Len(bs) : End(bs[j]) # a
<1> DEFINE T == {j \in 1 .. Len(bs) : End(bs[j]) = a}
           n == Len(bs)
           i == AppendIndex(bs, a)
<1>1. n \in Nat \ {0} /\ End(bs[n]) \in Int /\ a \in Int
  BY ListBlocks, EmptySeq, Sizes DEF Address
<1>2. i = CASE End(bs[n]) = a -> n
            [] End(bs[n]) < a -> 0
            [] OTHER -> IF T # {} THEN Min(T) ELSE 0
  BY Zenon DEF AppendIndex, SelectInSeq, Last
<1>3. T # {} => Min(T) \in T
  <2>1. T \in SUBSET Nat
    BY <1>1
  <2> QED BY <2>1, MinIsLeast
<1>4. CASE End(bs[n]) = a
  BY <1>1, <1>2, <1>4
<1>5. CASE End(bs[n]) # a /\ End(bs[n]) < a
  BY <1>1, <1>2, <1>5
<1>6. CASE End(bs[n]) # a /\ ~(End(bs[n]) < a)
  <2>1. i = IF T # {} THEN Min(T) ELSE 0
    BY <1>2, <1>6
  <2> HIDE DEF i
  <2>2. CASE T = {}
    BY <2>1, <2>2 DEF i
  <2>3. CASE T # {}
    <3>1. i \in T
      BY <1>3, <2>1, <2>3
    <3> QED BY <3>1, <1>1 DEF i
  <2> QED BY <2>2, <2>3
<1> QED BY <1>4, <1>5, <1>6

LEMMA InsertsAt ==
    ASSUME NEW bs \in Seq(BlockType), NEW a \in Address
    PROVE  LET k == InsertIndex(bs, a)
           IN  /\ k \in 0 .. Len(bs)
               /\ k > 0 => End(bs[k]) < a
               /\ \A j \in k+1 .. Len(bs) : ~(End(bs[j]) < a)
<1> DEFINE T == {j \in 1 .. Len(bs) : End(bs[j]) < a}
           k == InsertIndex(bs, a)
<1>1. Len(bs) \in Nat
  BY ListBlocks
<1>2. k = IF T # {} THEN Max(T) ELSE 0
  BY Zenon DEF InsertIndex, SelectLastInSeq
<1>3. T \in SUBSET (1 .. Len(bs))
  OBVIOUS
<1>4. CASE T = {}
  BY <1>1, <1>2, <1>4
<1>5. CASE T # {}
  <2>1. Max(T) \in T /\ \A y \in T : y <= Max(T)
    BY <1>1, <1>3, <1>5, MaxIsGreatest
  <2>2. k = Max(T)
    BY <1>2, <1>5
  <2> HIDE DEF k
  <2>3. k \in T /\ \A y \in T : y <= k
    BY <2>1, <2>2
  <2> QED BY <1>1, <2>3 DEF k
<1> QED BY <1>4, <1>5

LEMMA DataReplaced ==
    ASSUME NEW b \in BlockType, NEW x
    PROVE  [b EXCEPT !.data = x] = Block(b.addr, x)
BY DEF BlockType, Block

\* How AddBlock ends.
LEMMA AddBlockCases ==
    ASSUME NEW bs \in Seq(BlockType), NEW a \in Address, NEW d \in Seq(Int)
    PROVE  LET i == AppendIndex(bs, a)
               k == InsertIndex(bs, a)
               r == AddBlock(bs, a, d)
           IN  \/ bs = << >> /\ r = [how |-> "added", blocks |-> <<Block(a, d)>>]
               \/ /\ bs # << >> /\ i \in 1 .. Len(bs) /\ bs[i].data \o d = << >>
                  /\ r = [how |-> "crash", blocks |-> bs]
               \/ /\ bs # << >> /\ i \in 1 .. Len(bs)
                  /\ r = [how |-> "added",
                          blocks |-> [bs EXCEPT ![i] = Block(bs[i].addr, bs[i].data \o d)]]
               \/ /\ bs # << >> /\ i = 0 /\ Overlaps(bs, k, a, Len(d))
                  /\ r = [how |-> "overlap", blocks |-> bs]
               \/ /\ bs # << >> /\ i = 0 /\ ~Overlaps(bs, k, a, Len(d))
                  /\ r = [how |-> "added", blocks |-> InsertAt(bs, k+1, Block(a, d))]
<1> DEFINE i == AppendIndex(bs, a)
           k == InsertIndex(bs, a)
           r == AddBlock(bs, a, d)
<1>1. CASE bs = << >>
  BY <1>1 DEF AddBlock
<1>2. CASE bs # << >>
  <2>1. i \in 0 .. Len(bs) /\ Len(bs) \in Nat
    BY <1>2, AppendsAt, ListBlocks
  <2>2. r = CASE i > 0 /\ NothingAsked(bs[i].data, d) ->
                     [how |-> "crash", blocks |-> bs]
              [] i > 0 /\ ~NothingAsked(bs[i].data, d) ->
                     [how |-> "added", blocks |-> [bs EXCEPT ![i].data = @ \o d]]
              [] i = 0 /\ Overlaps(bs, k, a, Len(d)) ->
                     [how |-> "overlap", blocks |-> bs]
              [] OTHER -> [how |-> "added",
                           blocks |-> InsertAt(bs, k+1, Block(a, d))]
    BY <1>2, Zenon DEF AddBlock
  <2>3. ASSUME i > 0
        PROVE  [bs EXCEPT ![i].data = @ \o d]
                  = [bs EXCEPT ![i] = Block(bs[i].addr, bs[i].data \o d)]
    <3> HIDE DEF i
    <3>1. i \in 1 .. Len(bs)
      BY <2>1, <2>3
    <3>2. bs[i] \in BlockType
      BY <3>1, ListBlocks
    <3>3. [bs[i] EXCEPT !.data = bs[i].data \o d] = Block(bs[i].addr, bs[i].data \o d)
      BY <3>2, DataReplaced
    <3> QED BY <3>3
  <2> HIDE DEF i, k, r
  <2>4. i > 0 <=> i \in 1 .. Len(bs)
    BY <2>1
  <2>5. CASE i > 0 /\ bs[i].data \o d = << >>
    <3>1. r = [how |-> "crash", blocks |-> bs]
      BY <2>2, <2>5 DEF NothingAsked
    <3> QED BY <1>2, <2>4, <2>5, <3>1 DEF r, i, k
  <2>6. CASE i > 0 /\ bs[i].data \o d # << >>
    <3>1. r = [how |-> "added", blocks |-> [bs EXCEPT ![i].data = @ \o d]]
      BY <2>2, <2>6 DEF NothingAsked
    <3>2. r = [how |-> "added",
               blocks |-> [bs EXCEPT ![i] = Block(bs[i].addr, bs[i].data \o d)]]
      BY <2>3, <2>6, <3>1 DEF i
    <3> QED BY <1>2, <2>4, <2>6, <3>2 DEF r, i, k
  <2>7. CASE ~(i > 0)
    <3>1. i = 0
      BY <2>1, <2>7
    <3>2. CASE Overlaps(bs, k, a, Len(d))
      <4>1. r = [how |-> "overlap", blocks |-> bs]
        BY <2>2, <2>7, <3>1, <3>2
      <4> QED BY <1>2, <3>1, <3>2, <4>1 DEF r, i, k
    <3>3. CASE ~Overlaps(bs, k, a, Len(d))
      <4>1. r = [how |-> "added", blocks |-> InsertAt(bs, k+1, Block(a, d))]
        BY <2>2, <2>7, <3>1, <3>3
      <4> QED BY <1>2, <3>1, <3>3, <4>1 DEF r, i, k
    <3> QED BY <3>2, <3>3
  <2> QED BY <2>5, <2>6, <2>7
<1> QED BY <1>1, <1>2

\* A block that is lengthened has the bytes it had and those of a block behind
\* it.
LEMMA LongerBytes ==
    ASSUME NEW b \in BlockType, NEW d \in Seq(Int)
    PROVE  /\ Block(b.addr, b.data \o d) \in BlockType
           /\ BytesOf(Block(b.addr, b.data \o d))
                 = BytesOf(b) \cup BytesOf(Block(End(b), d))
<1> DEFINE n == Len(b.data)
           c == Block(b.addr, b.data \o d)
           e == Block(End(b), d)
<1>1. b.addr \in Nat /\ b.data \in Seq(Int) /\ n \in Nat /\ Len(d) \in Nat /\ W \in Nat \ {0}
  BY Sizes DEF BlockType, Address
<1>2. /\ b.data \o d \in Seq(Int) /\ Len(b.data \o d) = n + Len(d)
      /\ \A j \in 1 .. n + Len(d) : (b.data \o d)[j] = IF j <= n THEN b.data[j] ELSE d[j-n]
  BY <1>1, ConcatProperties
<1>3. c \in BlockType
  BY <1>1, <1>2 DEF BlockType, Block
<1>4. BytesOf(c) = {<<(b.addr + k) % W, (b.data \o d)[k+1]>> : k \in 0 .. (n + Len(d)) - 1}
  <2>1. Len32(c) = n + Len(d) /\ c.addr = b.addr /\ c.data = b.data \o d
    BY <1>2 DEF Block, Len32
  <2> DEFINE F(x, y, l) == {<<(x + k) % W, y[k+1]>> : k \in 0 .. l-1}
  <2>2. BytesOf(c) = F(c.addr, c.data, Len32(c))
    BY Zenon DEF BytesOf
  <2>3. F(c.addr, c.data, Len32(c)) = F(b.addr, b.data \o d, n + Len(d))
    <3> HIDE DEF F, c, n
    <3> QED BY <2>1
  <2> QED BY <2>2, <2>3
<1>5. BytesOf(b) = {<<(b.addr + k) % W, b.data[k+1]>> : k \in 0 .. n - 1}
  BY DEF BytesOf, Len32
<1>6. BytesOf(e) = {<<(End(b) + m) % W, d[m+1]>> : m \in 0 .. Len(d) - 1}
  BY DEF BytesOf, Block, Len32
<1>7. \A m \in Nat : (End(b) + m) % W = (b.addr + n + m) % W
  <2> SUFFICES ASSUME NEW m \in Nat PROVE (End(b) + m) % W = (b.addr + n + m) % W
    OBVIOUS
  <2> DEFINE x == b.addr + n
  <2>1. x \in Nat /\ End(b) = x % W
    BY <1>1 DEF End, Len32
  <2> HIDE DEF x
  <2>2. ((x % W) + m) % W = (x + m) % W
    BY <1>1, <2>1, WrapTwice
  <2> QED BY <2>1, <2>2 DEF x
<1> DEFINE u == b.data \o d
<1>8. /\ \A k \in 0 .. n-1 : u[k+1] = b.data[k+1]
      /\ \A m \in 0 .. Len(d)-1 : u[n+m+1] = d[m+1]
  <2> HIDE DEF n, u
  <2>1. \A j \in 1 .. n + Len(d) : u[j] = IF j <= n THEN b.data[j] ELSE d[j-n]
    BY <1>2 DEF u
  <2>2. ASSUME NEW k \in 0 .. n-1
        PROVE  u[k+1] = b.data[k+1]
    <3>1. k+1 \in 1 .. n + Len(d) /\ k+1 <= n
      BY <1>1
    <3> QED BY <2>1, <3>1
  <2>3. ASSUME NEW m \in 0 .. Len(d)-1
        PROVE  u[n+m+1] = d[m+1]
    <3> DEFINE j == n+m+1
    <3>1. j \in 1 .. n + Len(d) /\ ~(j <= n) /\ j-n = m+1
      BY <1>1
    <3> HIDE DEF j
    <3>2. u[j] = d[j-n]
      BY <2>1, <3>1
    <3> QED BY <3>1, <3>2 DEF j
  <2> QED BY <2>2, <2>3
<1> HIDE DEF n, c, e, u
<1>9. BytesOf(c) \subseteq BytesOf(b) \cup BytesOf(e)
  <2> SUFFICES ASSUME NEW k \in 0 .. (n + Len(d)) - 1
               PROVE  <<(b.addr + k) % W, u[k+1]>> \in BytesOf(b) \cup BytesOf(e)
    BY <1>4 DEF u
  <2>1. CASE k < n
    BY <1>1, <1>5, <1>8, <2>1
  <2>2. CASE k >= n
    <3> DEFINE m == k - n
    <3>1. m \in 0 .. Len(d)-1 /\ k = n + m
      BY <1>1, <2>2
    <3> HIDE DEF m
    <3>2. (b.addr + k) % W = (End(b) + m) % W /\ u[k+1] = d[m+1]
      BY <1>1, <1>7, <1>8, <3>1, SMTT(30)
    <3> QED BY <1>6, <3>1, <3>2
  <2> QED BY <1>1, <2>1, <2>2
<1>10. BytesOf(b) \subseteq BytesOf(c)
  <2> SUFFICES ASSUME NEW k \in 0 .. n - 1
               PROVE  <<(b.addr + k) % W, b.data[k+1]>> \in BytesOf(c)
    BY <1>5
  <2>1. k \in 0 .. (n + Len(d)) - 1 /\ u[k+1] = b.data[k+1]
    BY <1>1, <1>8
  <2> QED BY <1>4, <2>1 DEF u
<1>11. BytesOf(e) \subseteq BytesOf(c)
  <2> SUFFICES ASSUME NEW m \in 0 .. Len(d) - 1
               PROVE  <<(End(b) + m) % W, d[m+1]>> \in BytesOf(c)
    BY <1>6
  <2> DEFINE k == n + m
  <2>1. k \in 0 .. (n + Len(d)) - 1 /\ u[k+1] = d[m+1] /\ (End(b) + m) % W = (b.addr + k) % W
    <3>1. m \in Nat /\ n + m \in 0 .. (n + Len(d)) - 1
      BY <1>1
    <3>2. b.addr + n + m = b.addr + (n + m)
      BY <1>1
    <3>4. (End(b) + m) % W = (b.addr + n + m) % W
      BY <1>7, <3>1, Zenon
    <3>3. u[n+m+1] = d[m+1] /\ n+m+1 = (n+m)+1
      BY <1>1, <1>8, <3>1
    <3> QED BY <3>1, <3>2, <3>3, <3>4
  <2> HIDE DEF k
  <2> QED BY <1>4, <2>1 DEF u
<1> QED BY <1>3, <1>9, <1>10, <1>11 DEF c, e

LEMMA AddedBytes ==
    ASSUME NEW bs \in Seq(BlockType), NEW a \in Address, NEW d \in Seq(Int)
    PROVE  LET r == AddBlock(bs, a, d)
           IN  /\ r.blocks \in Seq(BlockType) /\ r.how \in {"added", "overlap", "crash"}
               /\ r.how # "added" => r.blocks = bs
               /\ r.how = "added" => Bytes(r.blocks) = Bytes(bs) \cup BytesOf(Block(a, d))
<1> DEFINE i == AppendIndex(bs, a)
           k == InsertIndex(bs, a)
           r == AddBlock(bs, a, d)
           b == Block(a, d)
<1>1. b \in BlockType
  BY DEF Block, BlockType
<1>2. Len(bs) \in Nat
  BY ListBlocks
<1> HIDE DEF b
<1>3. CASE bs = << >> /\ r = [how |-> "added", blocks |-> <<b>>]
  <2>1. r.blocks = <<b>> /\ r.how = "added"
    BY <1>3
  <2>2. <<b>> \in Seq(BlockType) /\ Len(<<b>>) = 1 /\ <<b>>[1] = b
    BY <1>1
  <2>3. Bytes(<<b>>) = BytesOf(b) /\ Bytes(bs) = {}
    BY <1>3, <2>2 DEF Bytes
  <2> QED BY <2>1, <2>2, <2>3 DEF b
<1>4. CASE bs # << >> /\ r = [how |-> "crash", blocks |-> bs]
  BY <1>4
<1>5. CASE bs # << >> /\ r = [how |-> "overlap", blocks |-> bs]
  BY <1>5
<1>6. CASE /\ bs # << >> /\ i \in 1 .. Len(bs)
           /\ r = [how |-> "added",
                   blocks |-> [bs EXCEPT ![i] = Block(bs[i].addr, bs[i].data \o d)]]
  <2> DEFINE c == Block(bs[i].addr, bs[i].data \o d)
             cs == [bs EXCEPT ![i] = c]
  <2>1. bs[i] \in BlockType /\ i \in 1 .. Len(bs)
    BY <1>6, ListBlocks
  <2>2. End(bs[i]) = a
    BY <1>6, <2>1, <1>2, AppendsAt
  <2>3. c \in BlockType /\ BytesOf(c) = BytesOf(bs[i]) \cup BytesOf(b)
    BY <2>1, <2>2, LongerBytes DEF b
  <2> HIDE DEF c, i
  <2>4. cs \in Seq(BlockType) /\ Len(cs) = Len(bs) /\ cs[i] = c
        /\ \A j \in 1 .. Len(bs) : j # i => cs[j] = bs[j]
    BY <2>1, <2>3, ExceptSeq
  <2> HIDE DEF cs
  <2>5. Bytes(cs) = Bytes(bs) \cup BytesOf(b)
    <3>1. \A j \in 1 .. Len(bs) : BytesOf(cs[j]) \subseteq Bytes(bs) \cup BytesOf(b)
      <4> SUFFICES ASSUME NEW j \in 1 .. Len(bs)
                   PROVE  BytesOf(cs[j]) \subseteq Bytes(bs) \cup BytesOf(b)
        OBVIOUS
      <4>1. BytesOf(bs[j]) \subseteq Bytes(bs)
        BY DEF Bytes
      <4>2. CASE j = i
        BY <2>3, <2>4, <4>1, <4>2
      <4>3. CASE j # i
        BY <2>4, <4>1, <4>3
      <4> QED BY <4>2, <4>3
    <3>2. \A j \in 1 .. Len(bs) : BytesOf(bs[j]) \subseteq Bytes(cs)
      <4> SUFFICES ASSUME NEW j \in 1 .. Len(bs)
                   PROVE  BytesOf(bs[j]) \subseteq Bytes(cs)
        OBVIOUS
      <4>1. BytesOf(cs[j]) \subseteq Bytes(cs)
        BY <2>4 DEF Bytes
      <4>2. CASE j = i
        BY <2>3, <2>4, <4>1, <4>2
      <4>3. CASE j # i
        BY <2>4, <4>1, <4>3
      <4> QED BY <4>2, <4>3
    <3>3. BytesOf(b) \subseteq Bytes(cs)
      <4>1. BytesOf(cs[i]) \subseteq Bytes(cs)
        BY <2>1, <2>4 DEF Bytes
      <4> QED BY <2>3, <2>4, <4>1
    <3> QED BY <2>4, <3>1, <3>2, <3>3 DEF Bytes
  <2>6. r.blocks = cs /\ r.how = "added"
    BY <1>6 DEF cs, c, i
  <2> HIDE DEF r
  <2> QED BY <2>4, <2>5, <2>6 DEF r, b
<1>7. CASE bs # << >> /\ r = [how |-> "added", blocks |-> InsertAt(bs, k+1, b)]
  <2> DEFINE cs == InsertAt(bs, k+1, b)
  <2>1. k \in 0 .. Len(bs) /\ k+1 \in 1 .. Len(bs)+1
    BY <1>2, InsertsAt
  <2>2. /\ cs \in Seq(BlockType) /\ Len(cs) = Len(bs) + 1 /\ cs[k+1] = b
        /\ \A j \in 1 .. k : cs[j] = bs[j]
        /\ \A j \in k+2 .. Len(bs)+1 : cs[j] = bs[j-1]
    <3> HIDE DEF k
    <3> QED BY <1>1, <2>1, BlockPutIn
  <2> HIDE DEF cs, k
  <2>3. Bytes(cs) = Bytes(bs) \cup BytesOf(b)
    <3>1. \A j \in 1 .. Len(bs)+1 : BytesOf(cs[j]) \subseteq Bytes(bs) \cup BytesOf(b)
      <4> SUFFICES ASSUME NEW j \in 1 .. Len(bs)+1
                   PROVE  BytesOf(cs[j]) \subseteq Bytes(bs) \cup BytesOf(b)
        OBVIOUS
      <4>1. CASE j <= k
        <5>1. j \in 1 .. k /\ j \in 1 .. Len(bs)
          BY <1>2, <2>1, <4>1
        <5> QED BY <2>2, <5>1 DEF Bytes
      <4>2. CASE j = k+1
        BY <2>2, <4>2
      <4>3. CASE j > k+1
        <5>1. j \in k+2 .. Len(bs)+1 /\ j-1 \in 1 .. Len(bs)
          BY <1>2, <2>1, <4>3
        <5> QED BY <2>2, <5>1 DEF Bytes
      <4> QED BY <2>1, <4>1, <4>2, <4>3
    <3>2. \A j \in 1 .. Len(bs) : BytesOf(bs[j]) \subseteq Bytes(cs)
      <4> SUFFICES ASSUME NEW j \in 1 .. Len(bs)
                   PROVE  BytesOf(bs[j]) \subseteq Bytes(cs)
        OBVIOUS
      <4>1. CASE j <= k
        <5>1. j \in 1 .. k /\ j \in 1 .. Len(cs)
          BY <1>2, <2>1, <2>2, <4>1
        <5> QED BY <2>2, <5>1 DEF Bytes
      <4>2. CASE j > k
        <5>1. j+1 \in k+2 .. Len(bs)+1 /\ j+1 \in 1 .. Len(cs) /\ (j+1)-1 = j
          BY <1>2, <2>1, <2>2, <4>2
        <5>2. cs[j+1] = bs[j]
          BY <2>2, <5>1
        <5> QED BY <5>1, <5>2 DEF Bytes
      <4> QED BY <2>1, <4>1, <4>2
    <3>3. BytesOf(b) \subseteq Bytes(cs)
      BY <2>1, <2>2 DEF Bytes
    <3> QED BY <2>2, <3>1, <3>2, <3>3 DEF Bytes
  <2>4. r.blocks = cs /\ r.how = "added"
    BY <1>7 DEF cs, k
  <2> HIDE DEF r
  <2> QED BY <2>2, <2>3, <2>4 DEF r, b
<1> QED BY <1>3, <1>4, <1>5, <1>6, <1>7, AddBlockCases DEF b

-----------------------------------------------------------------------------
HexType == [blocks : Seq(BlockType), total : Int, eof : BOOLEAN,
            mode : {"linear", "segmented"}, base : {x \in Nat : x + S <= W}, start : Int]

\* A base record and an end record leave the list alone.
LEMMA HexUpdated ==
    ASSUME NEW h \in HexType, NEW m \in {"linear", "segmented"},
           NEW x \in Nat, x + S <= W
    PROVE  /\ [h EXCEPT !.eof = TRUE] \in HexType
           /\ [h EXCEPT !.eof = TRUE].blocks = h.blocks
           /\ [h EXCEPT !.eof = TRUE].total = h.total
           /\ [h EXCEPT !.base = x, !.mode = m] \in HexType
           /\ [h EXCEPT !.base = x, !.mode = m].blocks = h.blocks
           /\ [h EXCEPT !.base = x, !.mode = m].total = h.total
<1>1. x \in {y \in Nat : y + S <= W}
  OBVIOUS
<1> DEFINE B == {y \in Nat : y + S <= W}
<1> HIDE DEF B
<1>2. h \in [blocks : Seq(BlockType), total : Int, eof : BOOLEAN,
               mode : {"linear", "segmented"}, base : B, start : Int]
  BY DEF HexType, B
<1>3. x \in B
  BY <1>1 DEF B
<1> QED BY <1>2, <1>3 DEF HexType, B

\* A record that is split at the top of memory, as StoreLinear splits it.
LEMMA SplitBytes ==
    ASSUME NEW a \in Address, NEW d \in Seq(Int), a + Len(d) > W
    PROVE  LET s == W - a
           IN  /\ SubSeq(d, 1, s) \in Seq(Int) /\ SubSeq(d, s+1, Len(d)) \in Seq(Int)
               /\ SubSeq(d, 1, s) # << >> /\ SubSeq(d, s+1, Len(d)) # << >>
               /\ BytesOf(Block(a, d)) = BytesOf(Block(a, SubSeq(d, 1, s)))
                                         \cup BytesOf(Block(0, SubSeq(d, s+1, Len(d))))
<1> DEFINE s == W - a
           p == SubSeq(d, 1, s)
           q == SubSeq(d, s+1, Len(d))
<1>1. a \in Nat /\ Len(d) \in Nat /\ s \in Nat \ {0} /\ s < Len(d) /\ a + s = W /\ W \in Nat \ {0}
  BY SizesAssumption DEF Address
<1> HIDE DEF s
<1>2. p \in Seq(Int) /\ q \in Seq(Int) /\ Len(p) = s /\ Len(q) = Len(d) - s
  BY <1>1
<1>3. p # << >> /\ q # << >>
  <2> HIDE DEF p, q
  <2> QED BY <1>1, <1>2, EmptySeq
<1>4. p \o q = d
  <2>1. SubSeq(d, 1, s) \o SubSeq(d, s+1, Len(d)) = SubSeq(d, 1, Len(d))
    <3>1. 1 \in 1 .. Len(d)+1 /\ s \in 1-1 .. Len(d) /\ Len(d) \in s .. Len(d)
      BY <1>1
    <3> QED BY <3>1, ConcatAdjacentSubSeq
  <2> QED BY <2>1, SubSeqFull
<1> HIDE DEF p, q
<1> DEFINE b == Block(a, p)
<1>5. b \in BlockType /\ b.addr = a /\ b.data = p
  BY <1>2 DEF Block, BlockType
<1>6. End(b) = 0
  <2>1. W % W = 0
    BY <1>1
  <2> QED BY <1>1, <1>2, <1>5, <2>1 DEF End, Len32
<1> HIDE DEF b
<1>7. BytesOf(Block(a, d)) = BytesOf(b) \cup BytesOf(Block(0, q))
  <2>1. BytesOf(Block(b.addr, b.data \o q)) = BytesOf(b) \cup BytesOf(Block(End(b), q))
    BY <1>2, <1>5, LongerBytes
  <2> QED BY <1>4, <1>5, <1>6, <2>1
<1> QED BY <1>2, <1>3, <1>7 DEF b, p, q, s

LEMMA StoredBytes ==
    ASSUME NEW h \in HexType, NEW a \in Address, NEW d \in Seq(Int)
    PROVE  LET r == Store(h, a, d)
           IN  /\ r.hex \in HexType /\ r.how \in {"added", "overlap", "crash"}
               /\ r.how # "added" => r.hex = h
               /\ r.how = AddBlock(h.blocks, a, d).how
               /\ r.how = "added" =>
                     /\ Bytes(r.hex.blocks) = Bytes(h.blocks) \cup BytesOf(Block(a, d))
                     /\ r.hex.blocks = AddBlock(h.blocks, a, d).blocks
                     /\ r.hex.total = (h.total + Len(d)) % W
<1> DEFINE s == AddBlock(h.blocks, a, d)
           r == Store(h, a, d)
           g == [h EXCEPT !.blocks = s.blocks, !.total = (@ + Len(d)) % W]
<1>1. h.blocks \in Seq(BlockType) /\ h.total \in Int
  BY DEF HexType
<1>2. /\ s.blocks \in Seq(BlockType) /\ s.how \in {"added", "overlap", "crash"}
      /\ s.how = "added" => Bytes(s.blocks) = Bytes(h.blocks) \cup BytesOf(Block(a, d))
  BY <1>1, AddedBytes
<1>3. r.how = s.how /\ r.hex = IF s.how = "added" THEN g ELSE h
  BY Zenon DEF Store
<1> HIDE DEF s, r
<1>4. (h.total + Len(d)) % W \in Int
  BY <1>1, SizesAssumption
<1>5. g \in HexType /\ g.blocks = s.blocks /\ g.total = (h.total + Len(d)) % W
  BY <1>1, <1>2, <1>4 DEF HexType
<1> HIDE DEF g
<1> QED BY <1>2, <1>3, <1>5 DEF r, s

LEMMA StoredLinear ==
    ASSUME NEW h \in HexType, NEW field \in 0 .. S-1, NEW d \in Seq(Int)
    PROVE  LET r == StoreLinear(h, field, d)
               a == h.base + field
           IN  /\ a \in Address
               /\ r.hex \in HexType /\ r.how \in {"added", "overlap", "crash"}
               /\ r.how = "added" =>
                     Bytes(r.hex.blocks) = Bytes(h.blocks) \cup BytesOf(Block(a, d))
               /\ a + Len(d) <= W => r = Store(h, a, d)
<1> DEFINE a == h.base + field
           s == W - a
           r == StoreLinear(h, field, d)
<1>1. a \in Address
  BY SizesAssumption DEF HexType, Address
<1>2. CASE a + Len(d) <= W
  <2>1. r = Store(h, a, d)
    BY <1>2 DEF StoreLinear
  <2> HIDE DEF a, r
  <2>2. /\ r.hex \in HexType /\ r.how \in {"added", "overlap", "crash"}
        /\ r.how = "added" => Bytes(r.hex.blocks) = Bytes(h.blocks) \cup BytesOf(Block(a, d))
    BY <1>1, <2>1, StoredBytes
  <2> QED BY <1>1, <2>1, <2>2 DEF a, r
<1>3. CASE ~(a + Len(d) <= W)
  <2> DEFINE p == SubSeq(d, 1, s)
             q == SubSeq(d, s+1, Len(d))
             w == Store(h, 0, q)
             v == Store(w.hex, a, p)
  <2>1. r = IF w.how = "added" THEN v ELSE w
    BY <1>3, Zenon DEF StoreLinear, FitsBelowTop
  <2> HIDE DEF a
  <2>2. /\ p \in Seq(Int) /\ q \in Seq(Int)
        /\ BytesOf(Block(a, d)) = BytesOf(Block(a, p)) \cup BytesOf(Block(0, q))
    <3>1. a + Len(d) > W
      BY <1>1, <1>3, SizesAssumption DEF Address, a
    <3> QED BY <1>1, <3>1, SplitBytes
  <2>3. 0 \in Address
    BY SizesAssumption DEF Address
  <2> HIDE DEF p, q, r
  <2>4. /\ w.hex \in HexType /\ w.how \in {"added", "overlap", "crash"}
        /\ w.how = "added" => Bytes(w.hex.blocks) = Bytes(h.blocks) \cup BytesOf(Block(0, q))
    BY <2>2, <2>3, StoredBytes
  <2> HIDE DEF w
  <2>5. /\ v.hex \in HexType /\ v.how \in {"added", "overlap", "crash"}
        /\ v.how = "added" => Bytes(v.hex.blocks) = Bytes(w.hex.blocks) \cup BytesOf(Block(a, p))
    BY <1>1, <2>2, <2>4, StoredBytes
  <2> HIDE DEF v
  <2>6. /\ r.hex \in HexType /\ r.how \in {"added", "overlap", "crash"}
        /\ r.how = "added" => Bytes(r.hex.blocks) = Bytes(h.blocks) \cup BytesOf(Block(a, d))
    BY <2>1, <2>2, <2>4, <2>5
  <2> QED BY <1>1, <1>3, <2>6 DEF r, a
<1> QED BY <1>2, <1>3

-----------------------------------------------------------------------------
\* Of the bytes a list has for an address, memory holds one.
LEMMA ImageBytes ==
    ASSUME NEW bs \in Seq(BlockType)
    PROVE  /\ Image(bs) = [x \in DOMAIN Image(bs) |-> Image(bs)[x]]
           /\ DOMAIN Image(bs) = {p[1] : p \in Bytes(bs)}
           /\ \A x \in DOMAIN Image(bs) : <<x, Image(bs)[x]>> \in Bytes(bs)
<1> DEFINE covers(i) == Span(bs[i].addr, Len32(bs[i]))
           D == UNION {covers(i) : i \in DOMAIN bs}
           T(x) == {i \in 1 .. Len(bs) : x \in Span(bs[i].addr, Len32(bs[i]))}
           j(x) == IF T(x) # {} THEN Max(T(x)) ELSE 0
           v(x) == bs[j(x)].data[((x - bs[j(x)].addr) % W) + 1]
<1>1. Image(bs) = [x \in D |-> v(x)]
  BY Zenon DEF Image, SelectLastInSeq
<1>2. DOMAIN Image(bs) = D /\ Image(bs) = [x \in DOMAIN Image(bs) |-> Image(bs)[x]]
  BY <1>1
<1>3. Len(bs) \in Nat /\ DOMAIN bs = 1 .. Len(bs)
  BY ListBlocks
<1>4. D = {p[1] : p \in Bytes(bs)}
  <2>1. ASSUME NEW x \in D
        PROVE  \E p \in Bytes(bs) : x = p[1]
    <3>1. PICK i \in DOMAIN bs : x \in covers(i)
      BY <2>1
    <3>2. PICK k \in 0 .. Len32(bs[i])-1 : x = (bs[i].addr + k) % W
      BY <3>1 DEF Span
    <3>3. <<x, bs[i].data[k+1]>> \in Bytes(bs)
      BY <1>3, <3>2 DEF Bytes, BytesOf
    <3> QED BY <3>3
  <2>2. ASSUME NEW p \in Bytes(bs)
        PROVE  p[1] \in D
    <3>1. PICK i \in 1 .. Len(bs) : p \in BytesOf(bs[i])
      BY DEF Bytes
    <3>2. PICK k \in 0 .. Len32(bs[i])-1 : p = <<(bs[i].addr + k) % W, bs[i].data[k+1]>>
      BY <3>1 DEF BytesOf
    <3>3. p[1] \in covers(i)
      BY <3>2 DEF Span
    <3> QED BY <1>3, <3>3
  <2> HIDE DEF D
  <2> QED BY <2>1, <2>2
<1>5. ASSUME NEW x \in D
      PROVE  <<x, v(x)>> \in Bytes(bs)
  <2> DEFINE i == j(x)
             b == bs[i]
  <2>1. T(x) # {} /\ T(x) \in SUBSET (1 .. Len(bs))
    BY <1>3, <1>5
  <2>2. i \in T(x)
    <3> HIDE DEF T
    <3> QED BY <1>3, <2>1, MaxIsGreatest
  <2>3. i \in 1 .. Len(bs) /\ x \in Span(b.addr, Len32(b))
    BY <2>2
  <2> HIDE DEF i, j, T, D
  <2>4. b.addr \in 0 .. W-1 /\ Len32(b) \in Nat /\ W \in Nat \ {0}
    BY <2>3, ListBlocks, Sizes DEF Address
  <2>5. PICK k \in 0 .. Len32(b)-1 : x = (b.addr + k) % W
    BY <2>3 DEF Span
  <2> DEFINE m == k % W
  <2>6. k \in Nat /\ m \in 0 .. W-1 /\ m <= k
    BY <2>4
  <2>7. (x - b.addr) % W = m
    BY <2>4, <2>5, <2>6, WrapBack
  <2>8. x = (b.addr + m) % W
    <3>1. b.addr \in Nat
      BY <2>4
    <3>2. (m + b.addr) % W = (k + b.addr) % W
      BY <2>4, <2>6, <3>1, WrapTwice
    <3> HIDE DEF m
    <3>3. m + b.addr = b.addr + m /\ k + b.addr = b.addr + k
      BY <2>6, <3>1
    <3> QED BY <2>5, <3>2, <3>3
  <2>9. m \in 0 .. Len32(b)-1
    BY <2>4, <2>6
  <2> HIDE DEF m, b
  <2>10. <<x, b.data[m+1]>> \in BytesOf(b)
    BY <2>8, <2>9 DEF BytesOf
  <2>11. v(x) = b.data[m+1]
    BY <2>7 DEF b, i
  <2> QED BY <2>3, <2>10, <2>11 DEF Bytes, b
<1> HIDE DEF D, v
<1> QED BY <1>1, <1>2, <1>4, <1>5

\* Two lists of the same bytes, one for each address, make the same memory.
LEMMA SameImage ==
    ASSUME NEW bs \in Seq(BlockType), NEW cs \in Seq(BlockType), Bytes(bs) = Bytes(cs),
           \A p, q \in Bytes(cs) : p[1] = q[1] => p = q
    PROVE  Image(bs) = Image(cs)
<1>1. DOMAIN Image(bs) = DOMAIN Image(cs)
  BY ImageBytes
<1>2. \A x \in DOMAIN Image(cs) : Image(bs)[x] = Image(cs)[x]
  <2> SUFFICES ASSUME NEW x \in DOMAIN Image(cs) PROVE Image(bs)[x] = Image(cs)[x]
    OBVIOUS
  <2> DEFINE p == <<x, Image(bs)[x]>>
             q == <<x, Image(cs)[x]>>
  <2>1. p \in Bytes(cs) /\ q \in Bytes(cs) /\ p[1] = q[1]
    BY <1>1, ImageBytes
  <2>2. p = q
    BY <2>1
  <2> QED BY <2>2
<1>3. /\ Image(bs) = [x \in DOMAIN Image(bs) |-> Image(bs)[x]]
      /\ Image(cs) = [x \in DOMAIN Image(cs) |-> Image(cs)[x]]
  BY ImageBytes
<1> DEFINE f == Image(bs)
           g == Image(cs)
<1> HIDE DEF f, g
<1> QED BY <1>1, <1>2, <1>3 DEF f, g

\* Two byte strings below the top of memory that share no address lie one
\* below the other.
LEMMA DisjointSpans ==
    ASSUME NEW a \in Nat, NEW n \in Nat \ {0}, a + n < W,
           NEW b \in Nat, NEW m \in Nat \ {0}, b + m < W,
           Span(a, n) \cap Span(b, m) = {}
    PROVE  a + n <= b \/ b + m <= a
<1>1. \A x, k, l \in Nat : x + l < W /\ k < l => x + k \in Span(x, l)
  <2> SUFFICES ASSUME NEW x \in Nat, NEW k \in Nat, NEW l \in Nat, x + l < W, k < l
               PROVE  x + k \in Span(x, l)
    OBVIOUS
  <2>1. (x + k) % W = x + k /\ k \in 0 .. l-1
    BY SizesAssumption
  <2> QED BY <2>1 DEF Span
<1> SUFFICES ASSUME a < b + m, b < a + n PROVE FALSE
  OBVIOUS
<1>2. CASE a <= b
  <2> DEFINE k == b - a
  <2>1. k \in Nat /\ k < n /\ a + k = b /\ 0 < m /\ b + 0 = b
    BY <1>2
  <2> HIDE DEF k
  <2>2. b \in Span(a, n)
    BY <1>1, <2>1
  <2>3. b \in Span(b, m)
    BY <1>1, <2>1
  <2> QED BY <2>2, <2>3
<1>3. CASE b <= a
  <2> DEFINE k == a - b
  <2>1. k \in Nat /\ k < m /\ b + k = a /\ 0 < n /\ a + 0 = a
    BY <1>3
  <2> HIDE DEF k
  <2>2. a \in Span(b, m)
    BY <1>1, <2>1
  <2>3. a \in Span(a, n)
    BY <1>1, <2>1
  <2> QED BY <2>2, <2>3
<1> QED BY <1>2, <1>3

-----------------------------------------------------------------------------
\* The sums that FoldLeft of LengthOf goes through.
Sums(p, bs) == /\ p \in [0 .. Len(bs) -> Nat] /\ p[0] = 0
               /\ \A m \in 1 .. Len(bs) : p[m] = p[m-1] + Len32(bs[m])

LEMMA LengthSums ==
    ASSUME NEW bs \in Seq(BlockType)
    PROVE  \E p : Sums(p, bs) /\ LengthOf(bs) = p[Len(bs)] % W
<1> DEFINE n == Len(bs)
           g == [m \in 1 .. n |-> [x \in Nat |-> x + Len32(bs[m])]]
           Next1(h) == [s \in SUBSET DOMAIN bs |->
                          IF s = {} THEN 0 ELSE h[s \ {Max(s)}] + Len32(bs[Max(s)])]
           it == CHOOSE h : h = Next1(h)
<1>1. n \in Nat /\ DOMAIN bs = 1 .. n /\ \A m \in 1 .. n : Len32(bs[m]) \in Nat
  BY ListBlocks
<1>2. g \in [1 .. n -> [Nat -> Nat]]
  BY <1>1
<1>3. \A m \in 1 .. n : \A x \in Nat : g[m][x] = x + Len32(bs[m])
  OBVIOUS
<1> HIDE DEF g, n
<1>4. PICK f \in [SUBSET (1 .. n) -> Nat] : IsFold(f, n, 0, g)
  BY <1>1, <1>2, FoldExists
<1>5. PICK p \in [0 .. n -> Nat] : Runs(p, n, 0, g)
  BY <1>1, <1>2, FoldPrefix
<1>6. p[0] = 0 /\ \A m \in 1 .. n : p[m] = g[m][p[m-1]]
  BY <1>5 DEF Runs
<1>7. f = Next1(f)
  <2>1. \A s \in SUBSET (1 .. n) : f[s] = IF s = {} THEN 0 ELSE f[s \ {Max(s)}] + Len32(bs[Max(s)])
    <3> SUFFICES ASSUME NEW s \in SUBSET (1 .. n), s # {}
                 PROVE  f[s] = f[s \ {Max(s)}] + Len32(bs[Max(s)])
      BY <1>4 DEF IsFold
    <3> DEFINE x == Max(s)
    <3>1. x \in 1 .. n
      BY <1>1, MaxIsGreatest
    <3>2. f[s] = g[x][f[s \ {x}]]
      BY <1>4 DEF IsFold
    <3> HIDE DEF x
    <3>3. f[s \ {x}] \in Nat
      <4>1. s \ {x} \in SUBSET (1 .. n)
        OBVIOUS
      <4> QED BY <4>1
    <3>4. f[s] = f[s \ {x}] + Len32(bs[x])
      BY <1>3, <3>1, <3>2, <3>3
    <3> QED BY <3>4 DEF x
  <2> QED BY <1>1, <2>1
<1>8. it = Next1(it)
  <2> HIDE DEF Next1
  <2> QED BY <1>7, Zenon
<1>9. LengthOf(bs) = it[1 .. n] % W
  BY <1>1, Zenon DEF LengthOf, FoldLeft, MapThenFoldSet
<1> HIDE DEF it
<1>10. ASSUME NEW s \in SUBSET (1 .. n)
      PROVE  it[s] = IF s = {} THEN 0 ELSE it[s \ {Max(s)}] + Len32(bs[Max(s)])
  BY <1>1, <1>8
<1>11. \A m \in 0 .. n : m \in {k \in 0 .. n : it[1 .. k] = p[k]}
  <2> DEFINE T == {k \in 0 .. n : it[1 .. k] = p[k]}
  <2>1. 0 \in T
    <3>1. 1 .. 0 = {} /\ {} \in SUBSET (1 .. n)
      OBVIOUS
    <3>2. it[{}] = 0
      BY <1>10, <3>1
    <3> QED BY <1>1, <1>6, <3>1, <3>2
  <2>2. ASSUME NEW m \in 1 .. n, m-1 \in T
        PROVE  m \in T
    <3> DEFINE s == 1 .. m
    <3>1. /\ m \in Nat \ {0} /\ m-1 \in 0 .. n /\ m \in 0 .. n /\ m \in s /\ s # {}
          /\ s \in SUBSET (1 .. n)
      <4>1. m \in Nat \ {0} /\ m-1 \in 0 .. n /\ m \in 0 .. n /\ m \in s
        BY <1>1
      <4>2. s \in SUBSET (1 .. n)
        BY <1>1
      <4> QED BY <4>1, <4>2
    <3>2. s \ {m} = 1 .. m-1
      OBVIOUS
    <3>3. Max(s) = m
      <4>1. Max(s) \in s /\ \A y \in s : y <= Max(s)
        <5> HIDE DEF s
        <5> QED BY <1>1, <3>1, MaxIsGreatest
      <4>2. m <= Max(s)
        BY <3>1, <4>1
      <4> QED BY <3>1, <4>1, <4>2
    <3> HIDE DEF s
    <3>4. it[s] = it[1 .. m-1] + Len32(bs[m])
      BY <1>10, <3>1, <3>2, <3>3
    <3>5. it[1 .. m-1] = p[m-1] /\ p[m-1] \in Nat
      BY <2>2, <3>1
    <3>6. p[m] = p[m-1] + Len32(bs[m])
      BY <1>3, <1>6, <3>5
    <3> QED BY <3>1, <3>4, <3>5, <3>6 DEF s
  <2> HIDE DEF T
  <2>3. T \in SUBSET (0 .. n)
    BY DEF T
  <2>4. \A m \in 0 .. n : m \in T
    BY <1>1, <2>1, <2>2, <2>3, Stepwise
  <2> QED BY <2>4 DEF T
<1>12. Sums(p, bs)
  <2>1. ASSUME NEW m \in 1 .. n
        PROVE  p[m] = p[m-1] + Len32(bs[m])
    <3>1. p[m-1] \in Nat
      BY <1>1
    <3> QED BY <1>3, <1>6, <3>1
  <2> QED BY <1>6, <2>1 DEF Sums, n
<1>13. n \in 0 .. n
  BY <1>1
<1>14. LengthOf(bs) = p[n] % W
  BY <1>9, <1>11, <1>13
<1> QED BY <1>12, <1>14 DEF n

\* It is the only such list, so whatever list of sums is known tells the length.
LEMMA LengthIs ==
    ASSUME NEW bs \in Seq(BlockType), NEW q, Sums(q, bs)
    PROVE  LengthOf(bs) = q[Len(bs)] % W
<1>1. PICK p : Sums(p, bs) /\ LengthOf(bs) = p[Len(bs)] % W
  BY LengthSums
<1> DEFINE n == Len(bs)
           T == {m \in 0 .. n : p[m] = q[m]}
<1>2. n \in Nat
  BY ListBlocks
<1>3. 0 \in T
  BY <1>1, <1>2 DEF Sums
<1>4. ASSUME NEW m \in 1 .. n, m-1 \in T
      PROVE  m \in T
  <2>1. p[m-1] = q[m-1] /\ m \in 0 .. n
    BY <1>2, <1>4
  <2>2. p[m] = p[m-1] + Len32(bs[m]) /\ q[m] = q[m-1] + Len32(bs[m])
    BY <1>1 DEF Sums
  <2> QED BY <2>1, <2>2
<1> HIDE DEF T
<1>5. T \in SUBSET (0 .. n)
  BY DEF T
<1> HIDE DEF n
<1>6. n \in T
  <2>1. \A m \in 0 .. n : m \in T
    BY <1>2, <1>3, <1>4, <1>5, Stepwise
  <2> QED BY <1>2, <2>1
<1> QED BY <1>1, <1>6 DEF T, n

\* A block more, or a block that has grown, adds its bytes to the sum.
LEMMA GrownSums ==
    ASSUME NEW bs \in Seq(BlockType), NEW cs \in Seq(BlockType), NEW p, Sums(p, bs),
           NEW i \in 1 .. Len(bs), NEW n \in Nat,
           Len(cs) = Len(bs), Len32(cs[i]) = Len32(bs[i]) + n,
           \A j \in 1 .. Len(bs) : j # i => cs[j] = bs[j]
    PROVE  LengthOf(cs) = (p[Len(bs)] + n) % W
<1> DEFINE l == Len(bs)
           q == [m \in 0 .. l |-> IF m < i THEN p[m] ELSE p[m] + n]
<1>1. /\ l \in Nat /\ i \in 1 .. l /\ \A m \in 1 .. l : Len32(bs[m]) \in Nat
      /\ p \in [0 .. l -> Nat] /\ p[0] = 0
      /\ \A m \in 1 .. l : p[m] = p[m-1] + Len32(bs[m])
  BY ListBlocks DEF Sums
<1>2. q \in [0 .. l -> Nat] /\ q[0] = 0 /\ q[l] = p[l] + n
  <2>1. \A m \in 0 .. l : p[m] \in Nat
    BY <1>1
  <2>2. 0 \in 0 .. l /\ l \in 0 .. l /\ 0 < i /\ ~(l < i)
    BY <1>1
  <2> QED BY <1>1, <2>1, <2>2
<1>3. ASSUME NEW m \in 1 .. l
      PROVE  q[m] = q[m-1] + Len32(cs[m])
  <2>1. /\ m \in 0 .. l /\ m-1 \in 0 .. l /\ p[m] \in Nat /\ p[m-1] \in Nat
        /\ p[m] = p[m-1] + Len32(bs[m]) /\ Len32(bs[m]) \in Nat
    <3>1. m \in 0 .. l /\ m-1 \in 0 .. l
      BY <1>1
    <3> QED BY <1>1, <3>1
  <2>2. /\ q[m] = IF m < i THEN p[m] ELSE p[m] + n
        /\ q[m-1] = IF m-1 < i THEN p[m-1] ELSE p[m-1] + n
    BY <2>1
  <2> HIDE DEF q
  <2>3. CASE m = i
    BY <2>1, <2>2, <2>3
  <2>4. CASE m # i
    <3>1. cs[m] = bs[m] /\ (m < i <=> m-1 < i)
      BY <1>1, <2>4
    <3> QED BY <2>1, <2>2, <3>1
  <2> QED BY <2>3, <2>4
<1> HIDE DEF q
<1>4. Sums(q, cs)
  BY <1>2, <1>3 DEF Sums
<1> QED BY <1>2, <1>4, LengthIs

LEMMA InsertedSums ==
    ASSUME NEW bs \in Seq(BlockType), NEW cs \in Seq(BlockType), NEW p, Sums(p, bs),
           NEW k \in 0 .. Len(bs), NEW n \in Nat,
           Len(cs) = Len(bs) + 1, Len32(cs[k+1]) = n,
           \A j \in 1 .. k : cs[j] = bs[j],
           \A j \in k+2 .. Len(bs)+1 : cs[j] = bs[j-1]
    PROVE  LengthOf(cs) = (p[Len(bs)] + n) % W
<1> DEFINE l == Len(bs)
           q == [m \in 0 .. l+1 |-> IF m <= k THEN p[m] ELSE p[m-1] + n]
<1>1. /\ l \in Nat /\ k \in 0 .. l /\ \A m \in 1 .. l : Len32(bs[m]) \in Nat
      /\ p \in [0 .. l -> Nat] /\ p[0] = 0
      /\ \A m \in 1 .. l : p[m] = p[m-1] + Len32(bs[m])
  BY ListBlocks DEF Sums
<1>2. q \in [0 .. l+1 -> Nat] /\ q[0] = 0 /\ q[l+1] = p[l] + n
  <2>1. \A m \in 0 .. l+1 : ~(m <= k) => m-1 \in 0 .. l
    BY <1>1
  <2>2. \A m \in 0 .. l+1 : m <= k => m \in 0 .. l
    BY <1>1
  <2>3. 0 \in 0 .. l+1 /\ l+1 \in 0 .. l+1 /\ 0 <= k /\ ~(l+1 <= k) /\ (l+1)-1 = l
    BY <1>1
  <2> QED BY <1>1, <2>1, <2>2, <2>3
<1>3. ASSUME NEW m \in 1 .. l+1
      PROVE  q[m] = q[m-1] + Len32(cs[m])
  <2>1. /\ m \in 0 .. l+1 /\ m-1 \in 0 .. l+1
        /\ q[m] = (IF m <= k THEN p[m] ELSE p[m-1] + n)
        /\ q[m-1] = (IF m-1 <= k THEN p[m-1] ELSE p[m-1-1] + n)
    <3>1. m \in 0 .. l+1 /\ m-1 \in 0 .. l+1
      BY <1>1
    <3> QED BY <3>1
  <2> HIDE DEF q
  <2>2. CASE m = k+1
    <3>1. q[m] = p[k] + n /\ q[m-1] = p[k] /\ Len32(cs[m]) = n
      BY <1>1, <2>1, <2>2
    <3> QED BY <3>1
  <2>3. CASE m <= k
    <3>1. m \in 1 .. l /\ m \in 1 .. k /\ m-1 <= k
      BY <1>1, <2>3
    <3>2. cs[m] = bs[m] /\ q[m] = p[m] /\ q[m-1] = p[m-1]
      BY <2>1, <2>3, <3>1
    <3> QED BY <1>1, <3>1, <3>2
  <2>4. CASE m > k+1
    <3> DEFINE j == m-1
    <3>1. j \in 1 .. l /\ m \in k+2 .. l+1 /\ ~(m <= k) /\ ~(j <= k) /\ j-1 \in 0 .. l
      BY <1>1, <2>4
    <3>2. cs[m] = bs[j] /\ q[m] = p[j] + n /\ q[m-1] = p[j-1] + n
      BY <2>1, <3>1
    <3> HIDE DEF j
    <3>3. p[j] = p[j-1] + Len32(bs[j]) /\ Len32(bs[j]) \in Nat /\ p[j-1] \in Nat
      BY <1>1, <3>1
    <3> QED BY <3>2, <3>3
  <2> QED BY <1>1, <2>2, <2>3, <2>4
<1> HIDE DEF q
<1>4. Sums(q, cs)
  BY <1>2, <1>3 DEF Sums
<1> QED BY <1>2, <1>4, LengthIs, SMTT(30)

LEMMA AddedLength ==
    ASSUME NEW bs \in Seq(BlockType), NEW a \in Address, NEW d \in Seq(Int),
           AddBlock(bs, a, d).how = "added"
    PROVE  LengthOf(AddBlock(bs, a, d).blocks) = (LengthOf(bs) + Len(d)) % W
<1> DEFINE i == AppendIndex(bs, a)
           k == InsertIndex(bs, a)
           r == AddBlock(bs, a, d)
           b == Block(a, d)
           n == Len(d)
<1>1. PICK p : Sums(p, bs) /\ LengthOf(bs) = p[Len(bs)] % W
  BY LengthSums
<1>2. /\ b \in BlockType /\ Len32(b) = n /\ n \in Nat /\ Len(bs) \in Nat /\ W \in Nat \ {0}
      /\ r.blocks \in Seq(BlockType)
  <2>1. b \in BlockType /\ Len32(b) = n /\ n \in Nat
    BY LenProperties DEF Block, BlockType, Len32
  <2>2. Len(bs) \in Nat /\ W \in Nat \ {0}
    BY SizesAssumption, LenProperties
  <2>3. r.blocks \in Seq(BlockType)
    BY AddedBytes
  <2> QED BY <2>1, <2>2, <2>3
<1>3. p[Len(bs)] \in Nat
  BY <1>1, <1>2, SMTT(30) DEF Sums
<1>4. (LengthOf(bs) + n) % W = (p[Len(bs)] + n) % W
  <2> DEFINE x == p[Len(bs)]
  <2>1. x \in Nat /\ LengthOf(bs) = x % W
    BY <1>1, <1>3
  <2> HIDE DEF x
  <2>2. ((x % W) + n) % W = (x + n) % W
    BY <1>2, <2>1, WrapTwice
  <2> QED BY <2>1, <2>2 DEF x
<1> HIDE DEF b, n
<1>5. CASE bs = << >> /\ r = [how |-> "added", blocks |-> <<b>>]
  <2>1. r.blocks = <<b>> /\ Len(bs) = 0
    BY <1>5
  <2>2. Len(r.blocks) = Len(bs) + 1 /\ 0 \in 0 .. Len(bs) /\ Len32(r.blocks[0+1]) = n
        /\ (\A j \in 1 .. 0 : r.blocks[j] = bs[j])
        /\ \A j \in 0+2 .. Len(bs)+1 : r.blocks[j] = bs[j-1]
    BY <1>2, <2>1
  <2> HIDE DEF r
  <2>3. LengthOf(r.blocks) = (p[Len(bs)] + n) % W
    BY <1>1, <1>2, <2>2, InsertedSums, ZenonT(60)
  <2> QED BY <1>4, <2>3 DEF r, n
<1>6. CASE /\ bs # << >> /\ i \in 1 .. Len(bs)
           /\ r = [how |-> "added",
                   blocks |-> [bs EXCEPT ![i] = Block(bs[i].addr, bs[i].data \o d)]]
  <2> DEFINE c == Block(bs[i].addr, bs[i].data \o d)
             cs == [bs EXCEPT ![i] = c]
  <2> HIDE DEF i, r
  <2>1. bs[i].addr \in Address /\ bs[i].data \in Seq(Int) /\ Len32(bs[i]) = Len(bs[i].data)
    BY <1>6, ListBlocks
  <2>2. c \in BlockType /\ Len32(c) = Len32(bs[i]) + n
    BY <2>1, ConcatProperties DEF Block, BlockType, Len32, n
  <2> HIDE DEF c
  <2>3. /\ Len(cs) = Len(bs) /\ Len32(cs[i]) = Len32(bs[i]) + n /\ cs \in Seq(BlockType)
        /\ \A j \in 1 .. Len(bs) : j # i => cs[j] = bs[j]
    BY <1>6, <2>2, ExceptSeq
  <2> HIDE DEF cs
  <2>4. LengthOf(cs) = (p[Len(bs)] + n) % W
    BY <1>1, <1>2, <1>6, <2>3, GrownSums
  <2>5. r.blocks = cs
    BY <1>6 DEF cs, c
  <2> QED BY <1>4, <2>4, <2>5 DEF r, n
<1>7. CASE bs # << >> /\ r = [how |-> "added", blocks |-> InsertAt(bs, k+1, b)]
  <2> DEFINE cs == InsertAt(bs, k+1, b)
  <2>1. k \in 0 .. Len(bs)
    BY InsertsAt
  <2> HIDE DEF r, k
  <2>2. k+1 \in 1 .. Len(bs)+1 /\ (k+1)-1 = k /\ (k+1)+1 = k+2
    BY <1>2, <2>1
  <2>3. /\ cs \in Seq(BlockType) /\ Len(cs) = Len(bs) + 1 /\ cs[k+1] = b
        /\ \A j \in 1 .. (k+1)-1 : cs[j] = bs[j]
        /\ \A j \in (k+1)+1 .. Len(bs)+1 : cs[j] = bs[j-1]
    <3>1. b \in BlockType
      BY <1>2
    <3>2. k+1 \in 1 .. Len(bs)+1
      BY <2>2
    <3> QED BY <3>1, <3>2, InsertedBlock, ZenonT(60)
  <2>6. /\ Len(cs) = Len(bs) + 1 /\ Len32(cs[k+1]) = n /\ cs \in Seq(BlockType)
        /\ k \in 0 .. Len(bs) /\ n \in Nat
        /\ \A j \in 1 .. k : cs[j] = bs[j]
        /\ \A j \in k+2 .. Len(bs)+1 : cs[j] = bs[j-1]
    BY <1>2, <2>1, <2>2, <2>3
  <2> HIDE DEF cs
  <2>4. LengthOf(cs) = (p[Len(bs)] + n) % W
    BY <1>1, <2>6, InsertedSums
  <2>5. r.blocks = cs
    BY <1>7 DEF cs
  <2> QED BY <1>4, <2>4, <2>5 DEF r, n
<1>8. \/ bs = << >> /\ r = [how |-> "added", blocks |-> <<b>>]
      \/ /\ bs # << >> /\ i \in 1 .. Len(bs)
         /\ r = [how |-> "added",
                 blocks |-> [bs EXCEPT ![i] = Block(bs[i].addr, bs[i].data \o d)]]
      \/ bs # << >> /\ r = [how |-> "added", blocks |-> InsertAt(bs, k+1, b)]
  <2>1. r # [how |-> "crash", blocks |-> bs] /\ r # [how |-> "overlap", blocks |-> bs]
    <3>1. r.how = "added"
      OBVIOUS
    <3> HIDE DEF r
    <3> QED BY <3>1
  <2> QED BY <2>1, AddBlockCases DEF b
<1> QED BY <1>5, <1>6, <1>7, <1>8

LEMMA StoredTotal ==
    ASSUME NEW h \in HexType, h.total = LengthOf(h.blocks), NEW a \in Address, NEW d \in Seq(Int)
    PROVE  Store(h, a, d).hex.total = LengthOf(Store(h, a, d).hex.blocks)
<1> DEFINE r == Store(h, a, d)
           s == AddBlock(h.blocks, a, d)
<1>1. /\ r.how # "added" => r.hex = h
      /\ r.how = s.how
      /\ r.how = "added" => r.hex.blocks = s.blocks /\ r.hex.total = (h.total + Len(d)) % W
  BY StoredBytes
<1>2. s.how = "added" => LengthOf(s.blocks) = (LengthOf(h.blocks) + Len(d)) % W
  <2>1. h.blocks \in Seq(BlockType)
    BY DEF HexType
  <2> QED BY <2>1, AddedLength
<1> HIDE DEF r, s
<1>3. r.hex.total = LengthOf(r.hex.blocks)
  BY <1>1, <1>2
<1> QED BY <1>3 DEF r

-----------------------------------------------------------------------------
\* Bytes that go to the end of the last block or above it are always taken in,
\* and are then the end of the list.
LEMMA StoredAtTail ==
    ASSUME NEW bs \in Seq(BlockType), NEW a \in Address, NEW d \in Seq(Int), d # << >>,
           bs = << >> \/ End(Last(bs)) <= a
    PROVE  LET r == AddBlock(bs, a, d)
           IN  /\ r.how = "added" /\ r.blocks # << >>
               /\ End(Last(r.blocks)) = (a + Len(d)) % W
<1> DEFINE i == AppendIndex(bs, a)
           k == InsertIndex(bs, a)
           r == AddBlock(bs, a, d)
           b == Block(a, d)
           l == Len(bs)
<1>1. /\ l \in Nat /\ a \in Nat /\ Len(d) \in Nat \ {0} /\ W \in Nat \ {0}
      /\ b.addr = a /\ Len32(b) = Len(d) /\ End(b) = (a + Len(d)) % W /\ b \in BlockType
  BY Sizes, LenProperties, EmptySeq DEF Address, Block, Len32, End, BlockType
<1> HIDE DEF b
<1>2. CASE bs = << >> /\ r = [how |-> "added", blocks |-> <<b>>]
  <2>1. r.how = "added" /\ r.blocks = <<b>>
    BY <1>2
  <2>2. <<b>> # << >> /\ Last(<<b>>) = b
    BY DEF Last
  <2> HIDE DEF r
  <2> QED BY <1>1, <2>1, <2>2 DEF r
<1>3. ASSUME bs # << >>
      PROVE  /\ Last(bs) = bs[l] /\ l \in 1 .. l /\ bs[l].addr \in Nat /\ bs[l].data \in Seq(Int)
             /\ Len32(bs[l]) = Len(bs[l].data) /\ End(bs[l]) \in Nat
             /\ i = IF End(bs[l]) = a THEN l ELSE 0
             /\ k = l \/ End(bs[l]) = a
  <2>1. Last(bs) = bs[l] /\ l \in 1 .. l
    BY <1>3, EmptySeq, LenProperties DEF Last
  <2>2. /\ bs[l].addr \in Nat /\ bs[l].data \in Seq(Int) /\ Len32(bs[l]) = Len(bs[l].data)
        /\ End(bs[l]) \in Nat
    BY <2>1, ListBlocks DEF Address
  <2>3. i = IF End(bs[l]) = a THEN l ELSE 0
    <3>1. End(Last(bs)) = a \/ End(Last(bs)) < a
      BY <1>1, <1>3, <2>1, <2>2
    <3>2. CASE End(Last(bs)) = a /\ ~(End(Last(bs)) < a)
      BY <2>1, <3>2 DEF AppendIndex
    <3>3. CASE End(Last(bs)) < a /\ End(Last(bs)) # a
      BY <2>1, <3>3 DEF AppendIndex
    <3>4. ~(End(Last(bs)) < a /\ End(Last(bs)) = a)
      BY <1>1, <2>1, <2>2
    <3> QED BY <3>1, <3>2, <3>3, <3>4
  <2>4. ASSUME End(bs[l]) # a PROVE k = l
    <3>1. k \in 0 .. l /\ \A j \in k+1 .. l : ~(End(bs[j]) < a)
      BY InsertsAt
    <3>2. End(bs[l]) < a
      BY <1>1, <1>3, <2>1, <2>2, <2>4
    <3> HIDE DEF k
    <3>3. l \notin k+1 .. l
      BY <3>1, <3>2
    <3> QED BY <1>1, <3>1, <3>3
  <2> QED BY <2>1, <2>2, <2>3, <2>4
<1>4. CASE /\ bs # << >> /\ i \in 1 .. l
           /\ r = [how |-> "added", blocks |-> [bs EXCEPT ![i] = Block(bs[i].addr, bs[i].data \o d)]]
  <2> DEFINE c == Block(bs[l].addr, bs[l].data \o d)
             cs == [bs EXCEPT ![l] = c]
  <2>1. i = l /\ End(bs[l]) = a
    <3> HIDE DEF i
    <3> QED BY <1>1, <1>3, <1>4
  <2>2. r.how = "added" /\ r.blocks = cs
    BY <1>4, <2>1
  <2>3. c.addr = bs[l].addr /\ Len32(c) = Len(bs[l].data) + Len(d)
    BY <1>3, <1>4, ConcatProperties DEF Block, Len32
  <2> HIDE DEF c
  <2>4. Len(cs) = l /\ cs[l] = c /\ cs # << >> /\ Last(cs) = c
    <3>1. l \in 1 .. l /\ DOMAIN bs = 1 .. l
      BY <1>3, <1>4, ListBlocks
    <3>2. DOMAIN cs = 1 .. l /\ cs[l] = c
      BY <3>1
    <3>3. Len(cs) = l /\ l # 0
      BY <1>1, <3>1, <3>2
    <3> HIDE DEF cs
    <3> QED BY <3>2, <3>3, EmptySeq DEF Last
  <2>5. End(c) = (a + Len(d)) % W
    <3>1. bs[l].addr + Len(bs[l].data) \in Nat
      BY <1>3, <1>4, LenProperties
    <3>2. (((bs[l].addr + Len(bs[l].data)) % W) + Len(d)) % W
             = ((bs[l].addr + Len(bs[l].data)) + Len(d)) % W
      BY <1>1, <3>1, WrapTwice
    <3>3. (bs[l].addr + Len(bs[l].data)) % W = a
      BY <1>3, <1>4, <2>1 DEF End
    <3>4. bs[l].addr + (Len(bs[l].data) + Len(d)) = (bs[l].addr + Len(bs[l].data)) + Len(d)
      <4>1. bs[l].addr \in Nat /\ Len(bs[l].data) \in Nat
        BY <1>3, <1>4, LenProperties
      <4>2. \A x, y, z \in Nat : x + (y + z) = (x + y) + z
        OBVIOUS
      <4>3. Len(d) \in Nat
        BY <1>1
      <4> QED BY <4>1, <4>2, <4>3, Zenon
    <3> QED BY <2>3, <3>2, <3>3, <3>4 DEF End
  <2> HIDE DEF r, cs
  <2> QED BY <2>2, <2>4, <2>5 DEF r
<1>5. CASE /\ bs # << >> /\ i = 0
           /\ r = [how |-> "added", blocks |-> InsertAt(bs, k+1, b)]
  <2> DEFINE cs == InsertAt(bs, k+1, b)
  <2>1. k = l
    <3>1. l # 0
      BY <1>3, <1>5
    <3> HIDE DEF i, k
    <3> QED BY <1>3, <1>5, <3>1
  <2>2. r.how = "added" /\ r.blocks = cs
    BY <1>5
  <2> HIDE DEF k
  <2>3. Len(cs) = l + 1 /\ cs[l+1] = b
    <3>1. l+1 \in 1 .. Len(bs)+1
      BY <1>1
    <3> QED BY <1>1, <2>1, <3>1, InsertedBlock
  <2> HIDE DEF cs, r
  <2>4. cs # << >> /\ Last(cs) = b
    BY <1>1, <2>3, EmptySeq DEF Last
  <2> QED BY <1>1, <2>2, <2>4 DEF r
<1>6. ~(bs # << >> /\ i \in 1 .. l /\ bs[i].data \o d = << >>)
  <2> SUFFICES ASSUME bs # << >>, i \in 1 .. l PROVE bs[i].data \o d # << >>
    OBVIOUS
  <2>1. bs[i].data \in Seq(Int)
    BY ListBlocks
  <2>2. Len(bs[i].data \o d) # 0
    BY <1>1, <2>1, ConcatProperties, LenProperties
  <2> QED BY <2>2, EmptySeq
<1>7. ~(bs # << >> /\ i = 0 /\ Overlaps(bs, k, a, Len(d)))
  <2> SUFFICES ASSUME bs # << >>, i = 0 PROVE ~Overlaps(bs, k, a, Len(d))
    OBVIOUS
  <2>1. l # 0
    BY <1>3
  <2> HIDE DEF i, k
  <2>2. k = l
    BY <1>3, <2>1
  <2>3. k # 0 /\ ~(k < Len(bs))
    BY <1>1, <2>1, <2>2
  <2> QED BY <2>3 DEF Overlaps
<1> HIDE DEF i, k, r, l
<1> QED BY <1>2, <1>4, <1>5, <1>6, <1>7, AddBlockCases DEF i, k, r, l, b

\* The bytes of two lists, one behind the other.
LEMMA ConcatLength ==
    ASSUME NEW bs \in Seq(BlockType), NEW cs \in Seq(BlockType)
    PROVE  LengthOf(bs \o cs) = (LengthOf(bs) + LengthOf(cs)) % W
<1> DEFINE l == Len(bs)
           n == Len(cs)
           t == bs \o cs
<1>1. PICK p : Sums(p, bs) /\ LengthOf(bs) = p[l] % W
  BY LengthSums
<1>2. PICK q : Sums(q, cs) /\ LengthOf(cs) = q[n] % W
  BY LengthSums
<1>3. l \in Nat /\ n \in Nat /\ W \in Nat \ {0}
  BY Sizes, LenProperties
<1>4. /\ p \in [0 .. l -> Nat] /\ p[0] = 0 /\ \A m \in 1 .. l : p[m] = p[m-1] + Len32(bs[m])
      /\ q \in [0 .. n -> Nat] /\ q[0] = 0 /\ \A m \in 1 .. n : q[m] = q[m-1] + Len32(cs[m])
  BY <1>1, <1>2 DEF Sums
<1>5. /\ t \in Seq(BlockType) /\ Len(t) = l + n
      /\ \A m \in 1 .. l + n : t[m] = IF m <= l THEN bs[m] ELSE cs[m-l]
  BY ConcatProperties
<1>6. \A m \in 1 .. n : Len32(cs[m]) \in Nat
  BY ListBlocks
<1> HIDE DEF t, l, n
<1> DEFINE r == [m \in 0 .. l + n |-> IF m <= l THEN p[m] ELSE p[l] + q[m-l]]
<1>7. p[l] \in Nat /\ q[n] \in Nat
  BY <1>3, <1>4
<1>8. r \in [0 .. l + n -> Nat] /\ r[0] = 0
  <2>1. \A m \in 0 .. l + n : ~(m <= l) => m-l \in 0 .. n
    BY <1>3
  <2>2. \A m \in 0 .. l + n : m <= l => m \in 0 .. l
    BY <1>3
  <2> QED BY <1>3, <1>4, <1>7, <2>1, <2>2, SMTT(30)
<1>9. r[l + n] = p[l] + q[n]
  <2>1. l + n \in 0 .. l + n /\ (l + n) - l = n /\ (l + n <= l => n = 0 /\ l + n = l)
    BY <1>3
  <2> QED BY <1>4, <1>7, <2>1
<1>10. ASSUME NEW m \in 1 .. l + n
       PROVE  r[m] = r[m-1] + Len32(t[m])
  <2>1. m \in 0 .. l + n /\ m-1 \in 0 .. l + n
    BY <1>3
  <2>2. /\ r[m] = IF m <= l THEN p[m] ELSE p[l] + q[m-l]
        /\ r[m-1] = IF m-1 <= l THEN p[m-1] ELSE p[l] + q[m-1-l]
    BY <2>1
  <2> HIDE DEF r
  <2>3. CASE m <= l
    <3>1. m \in 1 .. l /\ m-1 <= l /\ t[m] = bs[m]
      BY <1>3, <1>5, <2>3
    <3> QED BY <1>4, <2>2, <2>3, <3>1
  <2>4. CASE ~(m <= l)
    <3> DEFINE j == m-l
    <3>1. j \in 1 .. n /\ m-1-l = j-1 /\ j-1 \in 0 .. n /\ t[m] = cs[j] /\ (m-1 <= l <=> j = 1)
      BY <1>3, <1>5, <2>4
    <3>2. r[m] = p[l] + q[j]
      BY <2>2, <2>4
    <3>3. r[m-1] = p[l] + q[j-1]
      <4>1. CASE j = 1
        <5>1. m-1 = l /\ j-1 = 0
          BY <1>3, <3>1, <4>1
        <5>2. r[m-1] = p[l]
          BY <1>3, <2>2, <5>1
        <5>3. q[j-1] = 0
          BY <1>4, <5>1
        <5> QED BY <1>7, <5>2, <5>3
      <4>2. CASE j # 1
        BY <2>2, <3>1, <4>2
      <4> QED BY <4>1, <4>2
    <3> HIDE DEF j
    <3>4. q[j] = q[j-1] + Len32(cs[j]) /\ Len32(cs[j]) \in Nat /\ q[j-1] \in Nat
      BY <1>4, <1>6, <3>1
    <3> QED BY <1>7, <3>1, <3>2, <3>3, <3>4
  <2> QED BY <2>3, <2>4
<1> HIDE DEF r
<1>11. Sums(r, t)
  BY <1>5, <1>8, <1>10 DEF Sums
<1>12. LengthOf(t) = (p[l] + q[n]) % W
  BY <1>5, <1>9, <1>11, LengthIs
<1> DEFINE x == p[l]
           y == q[n]
<1>13. x \in Nat /\ y \in Nat
  BY <1>7
<1> HIDE DEF x, y
<1>14. ((x % W) + (y % W)) % W = (x + y) % W
  <2>1. y % W \in Nat /\ x % W \in Nat
    BY <1>3, <1>13
  <2>2. ((x % W) + (y % W)) % W = (x + (y % W)) % W
    BY <1>3, <1>13, <2>1, WrapTwice
  <2>3. ((y % W) + x) % W = (y + x) % W
    BY <1>3, <1>13, WrapTwice
  <2>4. (y % W) + x = x + (y % W) /\ y + x = x + y
    BY <1>13, <2>1
  <2> QED BY <2>2, <2>3, <2>4
<1> QED BY <1>1, <1>2, <1>12, <1>14 DEF x, y, t
=============================================================================
