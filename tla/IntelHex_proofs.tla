-------------------------- MODULE IntelHex_proofs --------------------------
(***************************************************************************)
(* Proofs about the modules HexInput and HexOutput, for address spaces of  *)
(* any number of segments, segments and record lengths of any size: the    *)
(* reading of files of any number of lines, with records of any length in  *)
(* any order, and the merging and writing of any lists of blocks.          *)
(***************************************************************************)
EXTENDS HexInput, HexOutput, HexFile_proofs

\* The list holds the bytes of the records, unless a record has stopped the
\* reading: then part of it may be in the list.
LInv == /\ ihf \in HexType /\ lineno \in Nat
        /\ seen \in Seq(BlockType) /\ \A i \in 1 .. Len(seen) : Len32(seen[i]) <= W
        /\ reading \in {"reading", "done", "malformed", "overlap", "crash"}
        /\ reading \in {"reading", "done", "malformed"} => Bytes(ihf.blocks) = Bytes(seen)

\* The two ways a line is dealt with: a data record in linear mode is stored,
\* any other line leaves the list alone.
Stores(field, d) ==
    /\ seen' = Append(seen, Block(ihf.base + field, d))
    /\ ihf' = StoreLinear(ihf, field, d).hex
    /\ reading' = IF StoreLinear(ihf, field, d).how = "added" THEN "reading"
                  ELSE StoreLinear(ihf, field, d).how
Passes == /\ seen' = seen /\ ihf' \in HexType /\ reading' \in {"reading", "malformed"}
          /\ ihf'.blocks = ihf.blocks /\ ihf'.total = ihf.total

LEMMA LineEffect ==
    ASSUME LInv, NEW line \in Lines, ReadLine(line)
    PROVE  /\ reading = "reading" /\ lineno' \in Nat
           /\ \/ Passes
              \/ \E field \in 0 .. S-1, d \in Seq(Int) : Len(d) <= W /\ Stores(field, d)
<1> DEFINE r == ParseOneLine(ihf, line)
<1>1. /\ reading = "reading" /\ lineno' = lineno + 1 /\ ihf' = r.hex
      /\ reading' = IF r.how = "added" THEN "reading" ELSE r.how
      /\ seen' = IF line.kind = "data" /\ ihf.mode = "linear"
                   THEN Append(seen, Block(ihf.base + line.field, line.data)) ELSE seen
  BY DEF ReadLine
<1>2. ihf \in HexType /\ lineno \in Nat
  BY DEF LInv
<1>3. ihf.blocks \in Seq(BlockType) /\ ihf.total \in Int /\ ihf.mode \in {"linear", "segmented"}
  BY <1>2 DEF HexType
<1>4. CASE line \in {Line(k) : k \in {"ignored", "malformed", "eof", "segmentBase",
                                      "startSegment"}}
  <2>1. line.kind \in {"ignored", "malformed", "eof", "segmentBase", "startSegment"}
    BY <1>4 DEF Line
  <2>2. CASE line.kind \in {"ignored", "startSegment"}
    <3>1. r = [how |-> "added", hex |-> ihf]
      BY <2>2, Zenon DEF ParseOneLine
    <3> QED BY <1>1, <1>2, <2>2, <3>1 DEF Passes
  <2>3. CASE line.kind = "malformed"
    <3>1. r = [how |-> "malformed", hex |-> ihf]
      BY <2>3 DEF ParseOneLine
    <3> QED BY <1>1, <1>2, <2>3, <3>1 DEF Passes
  <2>4. CASE line.kind = "eof"
    <3>1. r = [how |-> "added", hex |-> [ihf EXCEPT !.eof = TRUE]]
      BY <2>4 DEF ParseOneLine
    <3>2. /\ r.hex \in HexType /\ r.hex.blocks = ihf.blocks /\ r.hex.total = ihf.total
          /\ r.how = "added"
      <4>1. 0 + S <= W /\ 0 \in Nat
        BY Sizes, InputAssumption
      <4> HIDE DEF r
      <4> QED BY <1>2, <3>1, <4>1, HexUpdated
    <3> HIDE DEF r
    <3> QED BY <1>1, <1>2, <2>4, <3>2 DEF Passes
  <2>5. CASE line.kind = "segmentBase"
    <3>1. r = [how |-> "added", hex |-> [ihf EXCEPT !.base = 0, !.mode = "segmented"]]
      BY <2>5 DEF ParseOneLine
    <3>2. /\ r.hex \in HexType /\ r.hex.blocks = ihf.blocks /\ r.hex.total = ihf.total
          /\ r.how = "added"
      <4>1. 0 + S <= W /\ 0 \in Nat
        BY Sizes, InputAssumption
      <4> HIDE DEF r
      <4> QED BY <1>2, <3>1, <4>1, HexUpdated
    <3> HIDE DEF r
    <3> QED BY <1>1, <1>2, <2>5, <3>2 DEF Passes
  <2> QED BY <2>1, <2>2, <2>3, <2>4, <2>5
<1>5. ASSUME NEW f \in 0 .. S-1, NEW n \in 0 .. MaxData, line = DataLine(f, [i \in 1 .. n |-> lineno])
      PROVE  \/ Passes
             \/ \E field \in 0 .. S-1, d \in Seq(Int) : Len(d) <= W /\ Stores(field, d)
  <2> DEFINE d == [i \in 1 .. n |-> lineno]
  <2>1. n \in Nat /\ n <= W
    BY Sizes, InputAssumption
  <2>2. d \in Seq(Int) /\ Len(d) = n
    BY <1>2, <2>1
  <2> HIDE DEF d
  <2>3. line.kind = "data" /\ line.field = f /\ line.data = d
    BY <1>5 DEF DataLine, d
  <2>4. CASE ihf.mode = "linear"
    <3>1. r = StoreLinear(ihf, f, d)
      BY <2>3, <2>4 DEF ParseOneLine
    <3> HIDE DEF r
    <3>2. Stores(f, d)
      BY <1>1, <2>3, <2>4, <3>1 DEF Stores
    <3> QED BY <2>1, <2>2, <3>2
  <2>5. CASE ihf.mode = "segmented"
    <3>1. r = [how |-> "added", hex |-> ihf]
      BY <2>3, <2>5 DEF ParseOneLine
    <3> QED BY <1>1, <1>2, <2>5, <3>1 DEF Passes
  <2> QED BY <1>3, <2>4, <2>5
<1>6. ASSUME NEW v \in 0 .. (W \div S) - 1, line = LinearBase(v)
      PROVE  Passes
  <2>1. line.kind = "linearBase" /\ line.value = v
    BY <1>6 DEF LinearBase
  <2>2. r = [how |-> "added", hex |-> [ihf EXCEPT !.base = BaseOf(v), !.mode = "linear"]]
    BY <2>1 DEF ParseOneLine
  <2>3. BaseOf(v) \in Nat /\ BaseOf(v) + S <= W
    <3> DEFINE q == W \div S
    <3>1. q \in Nat /\ W = S * q /\ v \in Nat /\ v + 1 <= q /\ S \in Nat
      BY Sizes, InputAssumption
    <3> HIDE DEF q
    <3>2. v * S + S = (v + 1) * S /\ v * S \in Nat
      BY <3>1
    <3>3. (v + 1) * S <= q * S
      BY <3>1
    <3> QED BY <3>1, <3>2, <3>3 DEF BaseOf
  <2>4. /\ r.hex \in HexType /\ r.hex.blocks = ihf.blocks /\ r.hex.total = ihf.total
        /\ r.how = "added"
    <3> HIDE DEF r
    <3> QED BY <1>2, <2>2, <2>3, HexUpdated
  <2> HIDE DEF r
  <2> QED BY <1>1, <1>2, <2>1, <2>4 DEF Passes
<1>7. CASE line = StartLinear(1)
  <2>1. line.kind = "startLinear" /\ line.value = 1
    BY <1>7 DEF StartLinear
  <2>2. r = [how |-> "added", hex |-> [ihf EXCEPT !.start = 1]]
    BY <2>1 DEF ParseOneLine
  <2>3. /\ r.hex \in HexType /\ r.hex.blocks = ihf.blocks /\ r.hex.total = ihf.total
        /\ r.how = "added"
    BY <1>2, <2>2 DEF HexType
  <2> HIDE DEF r
  <2> QED BY <1>1, <1>2, <2>1, <2>3 DEF Passes
<1>8. lineno' \in Nat
  BY <1>1, <1>2
<1> HIDE DEF r
<1>9. CASE \E f \in 0 .. S-1, n \in 0 .. MaxData : line = DataLine(f, [i \in 1 .. n |-> lineno])
  BY <1>1, <1>5, <1>8, <1>9
<1>10. CASE \E v \in 0 .. (W \div S) - 1 : line = LinearBase(v)
  BY <1>1, <1>6, <1>8, <1>10
<1>11. CASE Passes
  BY <1>1, <1>8, <1>11
<1> QED BY <1>4, <1>7, <1>9, <1>10, <1>11 DEF Lines

LEMMA InitLInv == InputInit => LInv
<1> SUFFICES ASSUME InputInit PROVE LInv
  OBVIOUS
<1>1. EmptyHex \in HexType
  <2>1. 0 + S <= W
    BY Sizes, InputAssumption
  <2> QED BY <2>1 DEF EmptyHex, HexType
<1>2. ihf.blocks = << >> /\ seen = << >>
  BY DEF InputInit, EmptyHex
<1> QED BY <1>1, <1>2 DEF InputInit, LInv

LEMMA StepLInv ==
    ASSUME LInv, [InputNext]_inputVars
    PROVE  LInv'
<1>1. ASSUME NEW line \in Lines, ReadLine(line)
      PROVE  LInv'
  <2>1. reading = "reading" /\ lineno' \in Nat
    BY <1>1, LineEffect
  <2>2. Bytes(ihf.blocks) = Bytes(seen) /\ ihf \in HexType /\ seen \in Seq(BlockType)
        /\ \A i \in 1 .. Len(seen) : Len32(seen[i]) <= W
    BY <2>1 DEF LInv
  <2>3. CASE Passes
    BY <2>1, <2>2, <2>3 DEF LInv, Passes
  <2>4. ASSUME NEW field \in 0 .. S-1, NEW d \in Seq(Int), Len(d) <= W, Stores(field, d)
        PROVE  LInv'
    <3> DEFINE a == ihf.base + field
               b == Block(a, d)
               r == StoreLinear(ihf, field, d)
    <3>1. /\ a \in Address
          /\ r.hex \in HexType /\ r.how \in {"added", "overlap", "crash"}
          /\ r.how = "added" => Bytes(r.hex.blocks) = Bytes(ihf.blocks) \cup BytesOf(b)
      BY <2>2, StoredLinear
    <3>2. b \in BlockType /\ Len32(b) <= W
      BY <2>4, <3>1 DEF Block, BlockType, Len32
    <3>3. /\ ihf' = r.hex /\ seen' = Append(seen, b)
          /\ reading' = IF r.how = "added" THEN "reading" ELSE r.how
      BY <2>4 DEF Stores
    <3> HIDE DEF r, b
    <3>4. /\ seen' \in Seq(BlockType) /\ Len(seen') = Len(seen) + 1 /\ seen'[Len(seen)+1] = b
          /\ \A i \in 1 .. Len(seen) : seen'[i] = seen[i]
          /\ Len(seen) \in Nat
      BY <2>2, <3>2, <3>3
    <3>5. 1 .. Len(seen') = 1 .. Len(seen) \cup {Len(seen)+1}
      BY <3>4
    <3>6. Bytes(seen') = Bytes(seen) \cup BytesOf(b)
      BY <3>4, <3>5 DEF Bytes
    <3>7. \A i \in 1 .. Len(seen') : Len32(seen'[i]) <= W
      BY <2>2, <3>2, <3>4, <3>5
    <3> QED BY <2>1, <2>2, <3>1, <3>3, <3>4, <3>6, <3>7 DEF LInv
  <2> QED BY <1>1, <2>3, <2>4, LineEffect
<1>2. CASE EndOfInput
  BY <1>2 DEF EndOfInput, LInv
<1>3. CASE UNCHANGED inputVars
  BY <1>3 DEF inputVars, LInv
<1> QED BY <1>1, <1>2, <1>3 DEF InputNext

\* Records that do not claim each other's addresses have one byte for each.
LEMMA OneByteEach ==
    ASSUME NEW bs \in Seq(BlockType), \A i \in 1 .. Len(bs) : Len32(bs[i]) <= W, Disjoint(bs)
    PROVE  \A p, q \in Bytes(bs) : p[1] = q[1] => p = q
<1> SUFFICES ASSUME NEW p \in Bytes(bs), NEW q \in Bytes(bs), p[1] = q[1] PROVE p = q
  OBVIOUS
<1>1. PICK i \in 1 .. Len(bs) : p \in BytesOf(bs[i])
  BY DEF Bytes
<1>2. PICK j \in 1 .. Len(bs) : q \in BytesOf(bs[j])
  BY DEF Bytes
<1>3. PICK k \in 0 .. Len32(bs[i])-1 : p = <<(bs[i].addr + k) % W, bs[i].data[k+1]>>
  BY <1>1 DEF BytesOf
<1>4. PICK m \in 0 .. Len32(bs[j])-1 : q = <<(bs[j].addr + m) % W, bs[j].data[m+1]>>
  BY <1>2 DEF BytesOf
<1>5. p[1] \in SpanOf(bs[i]) /\ p[1] \in SpanOf(bs[j])
  BY <1>3, <1>4 DEF SpanOf, Span
<1>6. i = j
  BY <1>5, ListBlocks DEF Disjoint
<1>7. /\ bs[i].addr \in 0 .. W-1 /\ W \in Nat \ {0}
      /\ k \in 0 .. W-1 /\ m \in 0 .. W-1
  <2>1. Len32(bs[i]) \in Nat /\ Len32(bs[i]) <= W /\ bs[i].addr \in 0 .. W-1
    BY ListBlocks DEF Address
  <2> QED BY <1>6, <2>1, SizesAssumption
<1>8. k = m
  <2>1. (bs[i].addr + k) % W = (bs[i].addr + m) % W
    BY <1>3, <1>4, <1>6
  <2> QED BY <1>7, <2>1, WrapInjective
<1> QED BY <1>3, <1>4, <1>6, <1>8

\* While no two records claim the same byte and none has been refused, memory
\* holds exactly the bytes of the records, whatever the order they came in and
\* however AddBlock (intel.c) joined, placed and split them.
THEOREM LoadsAll == InputSpec => []LoadsWhatWasRead
<1>1. LInv => LoadsWhatWasRead
  <2> SUFFICES ASSUME LInv, Disjoint(seen), reading \in {"reading", "done"}
               PROVE  Image(ihf.blocks) = Image(seen)
    BY DEF LoadsWhatWasRead
  <2>1. /\ ihf.blocks \in Seq(BlockType) /\ seen \in Seq(BlockType)
        /\ Bytes(ihf.blocks) = Bytes(seen) /\ \A i \in 1 .. Len(seen) : Len32(seen[i]) <= W
    BY DEF LInv, HexType
  <2>2. \A p, q \in Bytes(seen) : p[1] = q[1] => p = q
    BY <2>1, OneByteEach
  <2> QED BY <2>1, <2>2, SameImage
<1> QED BY <1>1, InitLInv, StepLInv, PTL DEF InputSpec

-----------------------------------------------------------------------------
\* What the list is like while no records are empty, overlap or come to the
\* top of memory.
Orderly(bs) ==
    /\ \A i \in 1 .. Len(bs) : bs[i].data # << >> /\ bs[i].addr + Len32(bs[i]) < W
    /\ \A i, j \in 1 .. Len(bs) : i < j => bs[i].addr + Len32(bs[i]) <= bs[j].addr

\* AddBlock takes such a record in, and leaves such a list.
LEMMA AddOrderly ==
    ASSUME NEW bs \in Seq(BlockType), Orderly(bs),
           NEW a \in Address, NEW d \in Seq(Int), d # << >>, a + Len(d) < W,
           \A i \in 1 .. Len(bs) : Span(a, Len(d)) \cap SpanOf(bs[i]) = {}
    PROVE  LET r == AddBlock(bs, a, d) IN r.how = "added" /\ Orderly(r.blocks)
<1> DEFINE n == Len(d)
           i == AppendIndex(bs, a)
           k == InsertIndex(bs, a)
           r == AddBlock(bs, a, d)
           lo(j) == bs[j].addr
           hi(j) == bs[j].addr + Len32(bs[j])
           b == Block(a, d)
<1>1. a \in Nat /\ n \in Nat \ {0} /\ a + n < W /\ Len(bs) \in Nat /\ W \in Nat \ {0}
  BY ListBlocks, EmptySeq, SizesAssumption DEF Address
<1>2. ASSUME NEW j \in 1 .. Len(bs)
      PROVE  /\ lo(j) \in Nat /\ hi(j) \in Nat /\ lo(j) < hi(j) /\ hi(j) < W
             /\ End(bs[j]) = hi(j)
             /\ a + n <= lo(j) \/ hi(j) <= a
  <2>1. lo(j) \in Nat /\ bs[j].data \in Seq(Int) /\ Len32(bs[j]) = Len(bs[j].data)
    BY ListBlocks, SizesAssumption, SMTT(30) DEF Address
  <2>2. Len32(bs[j]) \in Nat \ {0} /\ hi(j) < W
    BY <2>1, EmptySeq DEF Orderly
  <2>3. End(bs[j]) = hi(j)
    <3>1. hi(j) \in 0 .. W-1
      BY <1>1, <2>1, <2>2, SMTT(30)
    <3> QED BY <1>1, <3>1, WrapSmall DEF End
  <2>4. a + n <= lo(j) \/ hi(j) <= a
    <3>1. Span(a, n) \cap Span(lo(j), Len32(bs[j])) = {}
      BY DEF SpanOf
    <3> HIDE DEF n
    <3> QED BY <1>1, <2>1, <2>2, <3>1, DisjointSpans
  <2> QED BY <2>1, <2>2, <2>3, <2>4
<1>3. \A j, l \in 1 .. Len(bs) : j < l => hi(j) <= lo(l)
  BY DEF Orderly
<1>4. b.addr = a /\ Len32(b) = n /\ b.data # << >> /\ b \in BlockType
  BY DEF Block, Len32, BlockType
<1> HIDE DEF b, r, i, k, n
<1>5. CASE bs = << >> /\ r = [how |-> "added", blocks |-> <<b>>]
  <2>1. r.blocks = <<b>> /\ r.how = "added"
    BY <1>5
  <2>2. Len(<<b>>) = 1 /\ <<b>>[1] = b
    OBVIOUS
  <2>3. Orderly(<<b>>)
    BY <1>1, <1>4, <2>2 DEF Orderly
  <2> QED BY <2>1, <2>3 DEF r
<1>6. ASSUME i \in 1 .. Len(bs)
      PROVE  hi(i) = a /\ bs[i].data \o d # << >> /\ bs[i].data \in Seq(Int)
             /\ Len(bs[i].data \o d) = Len32(bs[i]) + n
  <2>1. bs # << >> /\ i > 0
    BY <1>1, <1>6, EmptySeq
  <2>2. End(bs[i]) = a
    BY <2>1, AppendsAt DEF i
  <2>3. bs[i].data \in Seq(Int) /\ Len32(bs[i]) = Len(bs[i].data)
    BY <1>6, ListBlocks
  <2>4. bs[i].data \o d # << >>
    BY <1>4, <2>3, ConcatEqualIffEmpty DEF b, Block
  <2>5. Len(bs[i].data \o d) = Len(bs[i].data) + Len(d)
    BY <2>3, ConcatProperties
  <2> QED BY <1>2, <1>6, <2>2, <2>3, <2>4, <2>5 DEF n
<1>7. CASE /\ bs # << >> /\ i \in 1 .. Len(bs)
           /\ r = [how |-> "added",
                   blocks |-> [bs EXCEPT ![i] = Block(bs[i].addr, bs[i].data \o d)]]
  <2> DEFINE c == Block(bs[i].addr, bs[i].data \o d)
             cs == [bs EXCEPT ![i] = c]
  <2>1. c.addr = lo(i) /\ c.addr + Len32(c) = a + n /\ c.data # << >> /\ c \in BlockType
    <3>1. c.addr = lo(i) /\ c.data = bs[i].data \o d /\ Len32(c) = Len32(bs[i]) + n
      BY <1>6, <1>7 DEF Block, Len32
    <3>2. lo(i) \in Address /\ bs[i].data \o d \in Seq(Int) /\ Len32(bs[i]) \in Nat
      BY <1>6, <1>7, ListBlocks, ConcatProperties
    <3>3. c \in BlockType
      BY <3>2 DEF Block, BlockType
    <3>4. lo(i) + (Len32(bs[i]) + n) = a + n
      <4>1. lo(i) \in Nat /\ lo(i) + Len32(bs[i]) = a
        BY <1>2, <1>6, <1>7
      <4>2. \A x, y \in Nat : x + y = a => x + (y + n) = a + n
        BY <1>1
      <4> HIDE DEF lo
      <4> QED BY <3>2, <4>1, <4>2, Zenon
    <3> QED BY <1>6, <1>7, <3>1, <3>3, <3>4
  <2> HIDE DEF c
  <2>2. /\ Len(cs) = Len(bs) /\ cs[i] = c
        /\ \A j \in 1 .. Len(bs) : j # i => cs[j] = bs[j]
    BY <1>7, <2>1, ExceptSeq
  <2> HIDE DEF cs
  <2>3. ASSUME NEW j \in 1 .. Len(cs)
        PROVE  cs[j].data # << >> /\ cs[j].addr + Len32(cs[j]) < W
    <3>1. CASE j = i
      BY <1>1, <2>1, <2>2, <3>1
    <3>2. CASE j # i
      BY <2>2, <3>2 DEF Orderly
    <3> QED BY <3>1, <3>2
  <2>4. ASSUME NEW j \in 1 .. Len(cs), NEW l \in 1 .. Len(cs), j < l
        PROVE  cs[j].addr + Len32(cs[j]) <= cs[l].addr
    <3>1. j \in 1 .. Len(bs) /\ l \in 1 .. Len(bs) /\ hi(j) <= lo(l) /\ j # l
      BY <1>3, <2>2, <2>4
    <3>2. CASE j = i
      <4>1. hi(i) = a /\ a <= lo(l) /\ lo(l) < hi(l)
        BY <1>2, <1>6, <1>7, <3>1, <3>2
      <4>2. a + n <= lo(l)
        <5>1. lo(l) \in Nat /\ hi(l) \in Nat /\ (a + n <= lo(l) \/ hi(l) <= a)
          BY <1>2, <3>1
        <5> HIDE DEF lo, hi
        <5> QED BY <1>1, <4>1, <5>1
      <4>3. cs[j].addr + Len32(cs[j]) = a + n
        BY <2>1, <2>2, <3>2
      <4>4. cs[l] = bs[l]
        BY <2>2, <3>1, <3>2
      <4> QED BY <4>2, <4>3, <4>4
    <3>3. CASE l = i
      BY <2>1, <2>2, <3>1, <3>3
    <3>4. CASE j # i /\ l # i
      BY <2>2, <3>1, <3>4
    <3> QED BY <3>2, <3>3, <3>4
  <2>5. r.blocks = cs /\ r.how = "added"
    BY <1>7 DEF cs, c
  <2> QED BY <2>3, <2>4, <2>5 DEF Orderly, r
<1>8. ASSUME bs # << >>, i = 0
      PROVE  /\ k \in 0 .. Len(bs)
             /\ \A j \in 1 .. k : hi(j) < a
             /\ \A j \in k+1 .. Len(bs) : a + n <= lo(j)
             /\ ~Overlaps(bs, k, a, n)
  <2>1. /\ k \in 0 .. Len(bs) /\ (k > 0 => End(bs[k]) < a)
        /\ \A j \in k+1 .. Len(bs) : ~(End(bs[j]) < a)
    BY InsertsAt DEF k
  <2>2. \A j \in 1 .. k : hi(j) < a
    <3> SUFFICES ASSUME NEW j \in 1 .. k PROVE hi(j) < a
      OBVIOUS
    <3>1. k \in 1 .. Len(bs) /\ j \in 1 .. Len(bs) /\ k > 0
      BY <1>1, <2>1
    <3>2. hi(k) < a /\ lo(k) < hi(k) /\ lo(k) \in Nat /\ hi(k) \in Nat /\ hi(j) \in Nat
      BY <1>2, <2>1, <3>1
    <3>3. j = k \/ hi(j) <= lo(k)
      <4>1. CASE j # k
        <5>1. j < k
          BY <1>1, <3>1, <4>1
        <5> HIDE DEF lo, hi, k
        <5> QED BY <1>3, <3>1, <5>1
      <4> QED BY <4>1
    <3> HIDE DEF lo, hi
    <3> QED BY <1>1, <3>2, <3>3
  <2>3. \A j \in k+1 .. Len(bs) : a + n <= lo(j)
    <3> SUFFICES ASSUME NEW j \in k+1 .. Len(bs) PROVE a + n <= lo(j)
      OBVIOUS
    <3>1. j \in 1 .. Len(bs) /\ Len(bs) \in k+1 .. Len(bs)
      BY <1>1, <2>1
    <3>2. \A l \in 1 .. Len(bs) : End(bs[l]) # a
      BY <1>8, <2>1, <3>1, AppendsAt DEF i
    <3>3. hi(j) # a /\ ~(hi(j) < a) /\ hi(j) \in Nat /\ lo(j) \in Nat
          /\ (a + n <= lo(j) \/ hi(j) <= a)
      BY <1>2, <2>1, <3>1, <3>2
    <3> HIDE DEF lo, hi
    <3> QED BY <1>1, <3>3
  <2>4. ~Overlaps(bs, k, a, n)
    <3>1. CASE k = 0
      <4>1. 1 \in k+1 .. Len(bs) /\ 1 \in 1 .. Len(bs)
        BY <1>1, <1>8, <3>1, EmptySeq
      <4>2. a + n <= lo(1) /\ lo(1) \in Nat
        BY <1>2, <2>3, <4>1
      <4>3. ~(a > bs[1].addr)
        BY <1>1, <4>2, SMTT(30)
      <4> QED BY <3>1, <4>3 DEF Overlaps
    <3>2. CASE k # 0 /\ k < Len(bs)
      <4>1. k+1 \in k+1 .. Len(bs) /\ k+1 \in 1 .. Len(bs)
        BY <1>1, <2>1, <3>2
      <4>2. a + n <= lo(k+1) /\ lo(k+1) \in Nat
        BY <1>2, <2>3, <4>1
      <4>4. (a + n) % W = a + n
        <5>1. a + n \in 0 .. W-1
          BY <1>1
        <5> QED BY <1>1, <5>1, WrapSmall
      <4>3. ~((a + n) % W > bs[k+1].addr)
        BY <1>1, <4>2, <4>4
      <4> QED BY <3>2, <4>3 DEF Overlaps
    <3>3. CASE k # 0 /\ ~(k < Len(bs))
      BY <3>3 DEF Overlaps
    <3> QED BY <3>1, <3>2, <3>3
  <2> QED BY <2>1, <2>2, <2>3, <2>4
<1>9. CASE /\ bs # << >> /\ i = 0 /\ r = [how |-> "added", blocks |-> InsertAt(bs, k+1, b)]
  <2> DEFINE cs == InsertAt(bs, k+1, b)
  <2>1. k \in 0 .. Len(bs) /\ k+1 \in 1 .. Len(bs)+1
    BY <1>1, <1>8, <1>9, SMTT(30)
  <2>2. /\ cs \in Seq(BlockType) /\ Len(cs) = Len(bs) + 1 /\ cs[k+1] = b
        /\ \A j \in 1 .. k : cs[j] = bs[j]
        /\ \A j \in k+2 .. Len(bs)+1 : cs[j] = bs[j-1]
    <3>1. b \in BlockType
      BY <1>4
    <3> QED BY <2>1, <3>1, BlockPutIn, ZenonT(60)
  <2> HIDE DEF cs
  <2>3. ASSUME NEW j \in 1 .. Len(cs)
        PROVE  \/ j \in 1 .. k /\ j \in 1 .. Len(bs) /\ cs[j] = bs[j]
               \/ j = k+1 /\ cs[j] = b
               \/ j-1 \in k+1 .. Len(bs) /\ j-1 \in 1 .. Len(bs) /\ cs[j] = bs[j-1]
    <3>1. CASE j <= k
      <4>1. j \in 1 .. (k+1)-1 /\ j \in 1 .. k /\ j \in 1 .. Len(bs)
        BY <1>1, <2>1, <3>1
      <4> QED BY <2>2, <4>1
    <3>2. CASE j = k+1
      BY <2>2, <3>2
    <3>3. CASE j > k+1
      BY <1>1, <2>1, <2>2, <3>3
    <3> QED BY <2>1, <3>1, <3>2, <3>3
  <2>4. ASSUME NEW j \in 1 .. Len(cs)
        PROVE  cs[j].data # << >> /\ cs[j].addr + Len32(cs[j]) < W
    BY <1>1, <1>4, <2>3 DEF Orderly
  <2>5. ASSUME NEW j \in 1 .. Len(cs), NEW l \in 1 .. Len(cs), j < l
        PROVE  cs[j].addr + Len32(cs[j]) <= cs[l].addr
    <3>1. CASE j \in 1 .. k /\ j \in 1 .. Len(bs) /\ cs[j] = bs[j]
      <4>1. hi(j) < a /\ hi(j) \in Nat
        BY <1>2, <1>8, <1>9, <3>1
      <4>2. CASE l \in 1 .. Len(bs) /\ cs[l] = bs[l]
        BY <1>3, <2>5, <3>1, <4>2
      <4>3. CASE cs[l] = b
        BY <1>1, <1>4, <3>1, <4>1, <4>3, SMTT(30)
      <4>4. CASE l-1 \in k+1 .. Len(bs) /\ l-1 \in 1 .. Len(bs) /\ cs[l] = bs[l-1]
        <5>1. j < l-1
          BY <2>1, <3>1, <4>4
        <5> QED BY <1>3, <3>1, <4>4, <5>1
      <4> QED BY <2>3, <4>2, <4>3, <4>4
    <3>2. CASE j = k+1 /\ cs[j] = b
      <4>1. l-1 \in k+1 .. Len(bs) /\ cs[l] = bs[l-1]
        <5>1. ~(l \in 1 .. k) /\ l # k+1
          BY <1>1, <2>1, <2>5, <3>2
        <5> QED BY <2>3, <5>1
      <4>2. a + n <= lo(l-1)
        BY <1>8, <1>9, <4>1
      <4> QED BY <1>4, <3>2, <4>1, <4>2
    <3>3. CASE j-1 \in k+1 .. Len(bs) /\ j-1 \in 1 .. Len(bs) /\ cs[j] = bs[j-1]
      <4>1. l-1 \in 1 .. Len(bs) /\ cs[l] = bs[l-1] /\ j-1 < l-1
        BY <2>1, <2>3, <2>5, <3>3, SMTT(30)
      <4> QED BY <1>3, <3>3, <4>1
    <3> QED BY <2>3, <3>1, <3>2, <3>3
  <2>6. r.blocks = cs /\ r.how = "added"
    BY <1>9 DEF cs
  <2> QED BY <2>4, <2>5, <2>6 DEF Orderly, r
<1>10. \/ bs = << >> /\ r = [how |-> "added", blocks |-> <<b>>]
       \/ /\ bs # << >> /\ i \in 1 .. Len(bs)
          /\ r = [how |-> "added",
                  blocks |-> [bs EXCEPT ![i] = Block(bs[i].addr, bs[i].data \o d)]]
       \/ bs # << >> /\ i = 0 /\ r = [how |-> "added", blocks |-> InsertAt(bs, k+1, b)]
  <2> USE DEF b, r, i, k, n
  <2>1. i \in 1 .. Len(bs) => bs[i].data \o d # << >>
    BY <1>6
  <2>2. bs # << >> /\ i = 0 => ~Overlaps(bs, k, a, Len(d))
    BY <1>8
  <2> QED BY <2>1, <2>2, AddBlockCases
<1> QED BY <1>5, <1>7, <1>9, <1>10 DEF r

-----------------------------------------------------------------------------
Clean == Disjoint(seen) /\ BelowTop(seen) /\ NoneEmpty(seen)

\* Such records are never refused.
OInv == Clean => /\ Orderly(ihf.blocks)
                 /\ reading \in {"reading", "done", "malformed"}

\* A record more: those before it were as clean, and the list covers none of
\* its addresses.
LEMMA CleanBefore ==
    ASSUME LInv, reading = "reading", NEW b \in BlockType, seen' = Append(seen, b), Clean'
    PROVE  /\ Clean
           /\ b.data # << >> /\ b.addr + Len32(b) < W
           /\ \A i \in 1 .. Len(ihf.blocks) :
                 SpanOf(b) \cap SpanOf(ihf.blocks[i]) = {}
<1>1. /\ seen \in Seq(BlockType) /\ ihf.blocks \in Seq(BlockType)
      /\ Bytes(ihf.blocks) = Bytes(seen)
  BY DEF LInv, HexType
<1>2. /\ Len(seen) \in Nat /\ DOMAIN seen = 1 .. Len(seen)
      /\ DOMAIN seen' = 1 .. Len(seen)+1 /\ seen'[Len(seen)+1] = b
      /\ \A i \in 1 .. Len(seen) : seen'[i] = seen[i]
  BY <1>1
<1> DEFINE n == Len(seen)
<1>3. \A i \in 1 .. n : i \in 1 .. n+1 /\ i # n+1
  BY <1>2
<1>4. n+1 \in 1 .. n+1
  BY <1>2
<1> HIDE DEF n
<1>5. Disjoint(seen)' /\ BelowTop(seen)' /\ NoneEmpty(seen)'
  BY DEF Clean
<1>6. /\ \A i, j \in 1 .. n+1 : i # j => SpanOf(seen'[i]) \cap SpanOf(seen'[j]) = {}
      /\ \A i \in 1 .. n+1 : seen'[i].addr + Len32(seen'[i]) < W /\ seen'[i].data # << >>
  BY <1>2, <1>5, Zenon DEF Disjoint, BelowTop, NoneEmpty, n
<1>7. Clean
  BY <1>2, <1>3, <1>6 DEF Clean, Disjoint, BelowTop, NoneEmpty, n
<1>8. b.data # << >> /\ b.addr + Len32(b) < W
  BY <1>2, <1>4, <1>6 DEF n
<1>9. \A j \in 1 .. n : SpanOf(b) \cap SpanOf(seen[j]) = {}
  BY <1>2, <1>3, <1>4, <1>6 DEF n
<1>10. ASSUME NEW i \in 1 .. Len(ihf.blocks), NEW x \in SpanOf(ihf.blocks[i])
       PROVE  x \notin SpanOf(b)
  <2>1. PICK k \in 0 .. Len32(ihf.blocks[i])-1 : x = (ihf.blocks[i].addr + k) % W
    BY <1>10 DEF SpanOf, Span
  <2>2. <<x, ihf.blocks[i].data[k+1]>> \in Bytes(seen)
    <3>1. <<x, ihf.blocks[i].data[k+1]>> \in BytesOf(ihf.blocks[i])
      BY <2>1 DEF BytesOf
    <3>2. <<x, ihf.blocks[i].data[k+1]>> \in Bytes(ihf.blocks)
      BY <3>1 DEF Bytes
    <3> QED BY <1>1, <3>2
  <2>3. PICK j \in 1 .. n : <<x, ihf.blocks[i].data[k+1]>> \in BytesOf(seen[j])
    BY <2>2 DEF Bytes, n
  <2>4. x \in SpanOf(seen[j])
    BY <2>3 DEF BytesOf, SpanOf, Span
  <2> QED BY <1>9, <2>4
<1> QED BY <1>7, <1>8, <1>10

LEMMA InitOInv == InputInit => OInv
BY DEF InputInit, EmptyHex, OInv, Orderly

LEMMA StepOInv ==
    ASSUME LInv, OInv, [InputNext]_inputVars
    PROVE  OInv'
<1>1. ASSUME NEW line \in Lines, ReadLine(line)
      PROVE  OInv'
  <2>1. reading = "reading" /\ ihf \in HexType
    BY <1>1, LineEffect DEF LInv
  <2>2. CASE Passes
    BY <2>2 DEF Passes, OInv, Clean
  <2>3. ASSUME NEW field \in 0 .. S-1, NEW d \in Seq(Int), Stores(field, d), Clean'
        PROVE  Orderly(ihf'.blocks) /\ reading' = "reading"
    <3> DEFINE a == ihf.base + field
               b == Block(a, d)
               s == AddBlock(ihf.blocks, a, d)
               r == Store(ihf, a, d)
    <3>1. a \in Address
      BY <2>1, StoredLinear
    <3>2. b \in BlockType /\ b.addr = a /\ b.data = d /\ Len32(b) = Len(d)
      BY <3>1 DEF Block, BlockType, Len32
    <3> HIDE DEF b, a
    <3>3. seen' = Append(seen, b)
      BY <2>3 DEF Stores, b, a
    <3>4. /\ Clean /\ d # << >> /\ a + Len(d) < W
          /\ \A i \in 1 .. Len(ihf.blocks) :
                Span(a, Len(d)) \cap SpanOf(ihf.blocks[i]) = {}
      <4>1. /\ Clean /\ b.data # << >> /\ b.addr + Len32(b) < W
            /\ \A i \in 1 .. Len(ihf.blocks) : SpanOf(b) \cap SpanOf(ihf.blocks[i]) = {}
        BY <2>1, <2>3, <3>2, <3>3, CleanBefore
      <4>2. SpanOf(b) = Span(a, Len(d))
        BY <3>2 DEF SpanOf
      <4> QED BY <3>2, <4>1, <4>2
    <3>5. ihf.blocks \in Seq(BlockType) /\ Orderly(ihf.blocks)
      BY <2>1, <3>4 DEF OInv, HexType
    <3>6. s.how = "added" /\ Orderly(s.blocks)
      BY <3>1, <3>4, <3>5, AddOrderly
    <3> HIDE DEF s
    <3>7. StoreLinear(ihf, field, d) = r
      <4>1. a + Len(d) <= W
        BY <3>1, <3>4, SizesAssumption DEF Address
      <4> QED BY <2>1, <4>1, StoredLinear DEF a
    <3>8. r.how = s.how /\ (r.how = "added" => r.hex.blocks = s.blocks)
      BY <2>1, <3>1, StoredBytes DEF s
    <3> HIDE DEF r
    <3> QED BY <2>3, <3>6, <3>7, <3>8 DEF Stores
  <2> QED BY <1>1, <2>2, <2>3, LineEffect DEF OInv
<1>2. CASE EndOfInput
  BY <1>2 DEF EndOfInput, OInv, Clean
<1>3. CASE UNCHANGED inputVars
  BY <1>3 DEF inputVars, OInv, Clean
<1> QED BY <1>1, <1>2, <1>3 DEF InputNext

\* For records that are not empty, do not overlap and stay below the top of
\* memory, the list is in ascending order at every point of the reading, which
\* Merge and Fill (intel.c) rely on.
THEOREM Ascends == InputSpec => []BlocksAscend
<1>1. LInv /\ OInv => BlocksAscend
  <2> SUFFICES ASSUME LInv, Orderly(ihf.blocks),
                      NEW i \in DOMAIN ihf.blocks, NEW j \in DOMAIN ihf.blocks, i < j
               PROVE  ihf.blocks[i].addr + Len32(ihf.blocks[i]) <= ihf.blocks[j].addr
    BY DEF OInv, Clean, BlocksAscend
  <2>1. DOMAIN ihf.blocks = 1 .. Len(ihf.blocks)
    BY LenProperties DEF LInv, HexType
  <2> QED BY <2>1 DEF Orderly
<1> QED BY <1>1, InitLInv, StepLInv, InitOInv, StepOInv, PTL DEF InputSpec

\* Of such records none is ever refused as overlapping, wherever it belongs in
\* the list (the tests of AddBlock in intel.c).
THEOREM NothingRefused == InputSpec => []NoFalseOverlap
<1>1. OInv => NoFalseOverlap
  BY DEF OInv, Clean, NoFalseOverlap
<1> QED BY <1>1, InitLInv, StepLInv, InitOInv, StepOInv, PTL DEF InputSpec

-----------------------------------------------------------------------------
LEMMA StoreCrashes ==
    ASSUME NEW h \in HexType, NEW a \in Address, NEW d \in Seq(Int),
           Store(h, a, d).how = "crash"
    PROVE  /\ d = << >> /\ Store(h, a, d).hex = h
           /\ \E i \in DOMAIN h.blocks : h.blocks[i].data = << >>
<1> DEFINE bs == h.blocks
           i == AppendIndex(bs, a)
           s == AddBlock(bs, a, d)
<1>1. bs \in Seq(BlockType)
  BY DEF HexType
<1>2. s.how = "crash" /\ Store(h, a, d).hex = h
  <2>1. Store(h, a, d).how = s.how /\ (Store(h, a, d).how # "added" => Store(h, a, d).hex = h)
    BY StoredBytes
  <2> QED BY <2>1
<1>3. i \in 1 .. Len(bs) /\ bs[i].data \o d = << >>
  <2> HIDE DEF bs, s, i
  <2>1. (i \in 1 .. Len(bs) /\ bs[i].data \o d = << >>) \/ s.how # "crash"
    <3>1. \/ s = [how |-> "added", blocks |-> <<Block(a, d)>>]
          \/ /\ i \in 1 .. Len(bs) /\ bs[i].data \o d = << >>
          \/ s = [how |-> "added",
                  blocks |-> [bs EXCEPT ![i] = Block(bs[i].addr, bs[i].data \o d)]]
          \/ s = [how |-> "overlap", blocks |-> bs]
          \/ s = [how |-> "added", blocks |-> InsertAt(bs, InsertIndex(bs, a)+1, Block(a, d))]
      BY <1>1, AddBlockCases DEF s, i
    <3> QED BY <3>1
  <2> QED BY <1>2, <2>1
<1> HIDE DEF bs, s, i
<1>4. bs[i].data \in Seq(Int) /\ DOMAIN bs = 1 .. Len(bs)
  BY <1>1, <1>3, ListBlocks
<1>5. bs[i].data = << >> /\ d = << >>
  BY <1>3, <1>4, ConcatEqualIffEmpty
<1> QED BY <1>2, <1>3, <1>4, <1>5 DEF bs

\* Only an empty record that meets an empty block breaks the parser: realloc
\* to no bytes (intel.c, AddBlock).  A record that is split never does.
THEOREM CrashNeedsEmpty == InputSpec => []CrashNeedsEmptyRecords
<1>1. InputInit => CrashNeedsEmptyRecords
  BY DEF InputInit, CrashNeedsEmptyRecords
<1>2. ASSUME LInv, CrashNeedsEmptyRecords, [InputNext]_inputVars
      PROVE  CrashNeedsEmptyRecords'
  <2>1. ASSUME NEW line \in Lines, ReadLine(line)
        PROVE  CrashNeedsEmptyRecords'
    <3>1. ihf \in HexType /\ seen \in Seq(BlockType)
      BY <1>2 DEF LInv
    <3>2. CASE Passes
      BY <3>2 DEF Passes, CrashNeedsEmptyRecords
    <3>3. ASSUME NEW field \in 0 .. S-1, NEW d \in Seq(Int), Stores(field, d), reading' = "crash"
          PROVE  Last(seen').data = << >>
                 /\ \E i \in DOMAIN ihf'.blocks : ihf'.blocks[i].data = << >>
      <4> DEFINE a == ihf.base + field
                 r == StoreLinear(ihf, field, d)
                 s == W - a
                 p == SubSeq(d, 1, s)
                 q == SubSeq(d, s+1, Len(d))
                 w == Store(ihf, 0, q)
                 v == Store(w.hex, a, p)
      <4>1. a \in Address /\ 0 \in Address
        BY <3>1, StoredLinear, SizesAssumption DEF Address
      <4>2. r.how = "crash" /\ ihf' = r.hex /\ seen' = Append(seen, Block(a, d))
        BY <3>3 DEF Stores
      <4>3. Last(seen') = Block(a, d)
        <5>1. Block(a, d) \in BlockType
          BY <4>1 DEF Block, BlockType
        <5> HIDE DEF a, r
        <5> QED BY <3>1, <4>2, <5>1 DEF Last
      <4>4. a + Len(d) <= W
        <5> SUFFICES ASSUME ~(a + Len(d) <= W) PROVE FALSE
          OBVIOUS
        <5>1. r = IF w.how = "added" THEN v ELSE w
          BY Zenon DEF StoreLinear, FitsBelowTop
        <5>2. p \in Seq(Int) /\ q \in Seq(Int) /\ p # << >> /\ q # << >>
          <6>1. a + Len(d) > W
            BY <4>1, SizesAssumption DEF Address
          <6> HIDE DEF a
          <6> QED BY <4>1, <6>1, SplitBytes
        <5> HIDE DEF p, q, r, a
        <5>3. w.how # "crash" /\ w.hex \in HexType
          BY <3>1, <4>1, <5>2, StoreCrashes, StoredBytes
        <5> HIDE DEF w
        <5>4. v.how # "crash"
          BY <4>1, <5>2, <5>3, StoreCrashes
        <5> HIDE DEF v
        <5> QED BY <4>2, <5>1, <5>3, <5>4
      <4>5. r = Store(ihf, a, d)
        BY <4>4 DEF StoreLinear
      <4> HIDE DEF r, a
      <4>6. d = << >> /\ r.hex = ihf /\ \E i \in DOMAIN ihf.blocks : ihf.blocks[i].data = << >>
        BY <3>1, <4>1, <4>2, <4>5, StoreCrashes
      <4> QED BY <4>2, <4>3, <4>6 DEF Block
    <3> QED BY <2>1, <1>2, <3>2, <3>3, LineEffect DEF CrashNeedsEmptyRecords
  <2>2. CASE EndOfInput
    BY <2>2 DEF EndOfInput, CrashNeedsEmptyRecords
  <2>3. CASE UNCHANGED inputVars
    BY <1>2, <2>3 DEF inputVars, CrashNeedsEmptyRecords
  <2> QED BY <1>2, <2>1, <2>2, <2>3 DEF InputNext
<1> QED BY <1>1, <1>2, InitLInv, StepLInv, PTL DEF InputSpec

\* TotalLength is the sum of the lengths of the blocks at every point, also
\* when the second half of a record that was split has been refused.
THEOREM TotalKept == InputSpec => []TotalIsSum
<1>1. InputInit => TotalIsSum
  <2>1. << >> \in Seq(BlockType) /\ Sums([m \in 0 .. 0 |-> 0], << >>)
    BY DEF Sums
  <2>2. LengthOf(<< >>) = 0 % W
    BY <2>1, LengthIs
  <2>3. 0 % W = 0
    BY SizesAssumption
  <2> QED BY <2>2, <2>3 DEF InputInit, EmptyHex, TotalIsSum
<1>2. ASSUME LInv, TotalIsSum, [InputNext]_inputVars
      PROVE  TotalIsSum'
  <2>1. ASSUME NEW line \in Lines, ReadLine(line)
        PROVE  TotalIsSum'
    <3>1. ihf \in HexType /\ ihf.total = LengthOf(ihf.blocks)
      BY <1>2 DEF LInv, TotalIsSum
    <3>2. CASE Passes
      BY <3>1, <3>2 DEF Passes, TotalIsSum
    <3>3. ASSUME NEW field \in 0 .. S-1, NEW d \in Seq(Int), Stores(field, d)
          PROVE  TotalIsSum'
      <4> DEFINE a == ihf.base + field
                 s == W - a
                 p == SubSeq(d, 1, s)
                 q == SubSeq(d, s+1, Len(d))
                 w == Store(ihf, 0, q)
                 v == Store(w.hex, a, p)
                 r == StoreLinear(ihf, field, d)
      <4>1. a \in Address /\ 0 \in Address
        BY <3>1, StoredLinear, SizesAssumption DEF Address
      <4>2. CASE a + Len(d) <= W
        <5>1. r = Store(ihf, a, d)
          BY <4>2 DEF StoreLinear
        <5> HIDE DEF a, r
        <5>2. r.hex.total = LengthOf(r.hex.blocks)
          BY <3>1, <4>1, <5>1, StoredTotal
        <5> QED BY <3>3, <5>2 DEF Stores, TotalIsSum, r
      <4>3. CASE ~(a + Len(d) <= W)
        <5>1. r = IF w.how = "added" THEN v ELSE w
          BY <4>3, Zenon DEF StoreLinear, FitsBelowTop
        <5>2. p \in Seq(Int) /\ q \in Seq(Int)
          <6>1. a + Len(d) > W
            BY <4>1, <4>3, SizesAssumption DEF Address
          <6> HIDE DEF a
          <6> QED BY <4>1, <6>1, SplitBytes
        <5> HIDE DEF p, q, r, a
        <5>3. w.hex \in HexType /\ w.hex.total = LengthOf(w.hex.blocks)
          BY <3>1, <4>1, <5>2, StoredBytes, StoredTotal
        <5> HIDE DEF w
        <5>4. v.hex.total = LengthOf(v.hex.blocks)
          BY <4>1, <5>2, <5>3, StoredTotal
        <5> HIDE DEF v
        <5>5. r.hex.total = LengthOf(r.hex.blocks)
          BY <5>1, <5>3, <5>4
        <5> QED BY <3>3, <5>5 DEF Stores, TotalIsSum, r
      <4> QED BY <4>2, <4>3
    <3> QED BY <1>2, <2>1, <3>2, <3>3, LineEffect
  <2>2. CASE EndOfInput
    BY <1>2, <2>2 DEF EndOfInput, TotalIsSum
  <2>3. CASE UNCHANGED inputVars
    BY <1>2, <2>3 DEF inputVars, TotalIsSum
  <2> QED BY <1>2, <2>1, <2>2, <2>3 DEF InputNext
<1> QED BY <1>1, <1>2, InitLInv, StepLInv, PTL DEF InputSpec

-----------------------------------------------------------------------------
\* The lines that are written.  Records of type "data" lie within their
\* segment.
Wrote == [kind : {"linearBase"}, value : 0 .. Top] \cup [kind : {"startLinear"}, value : Int]
         \cup [kind : {"eof"}]
         \cup {l \in [kind : {"data"}, field : 0 .. S-1, data : Seq(Int)] :
                  l.field + Len(l.data) <= S}
IsHex(h) == /\ h.blocks \in Seq(BlockType) /\ h.start \in Int
            /\ DOMAIN h = {"blocks", "total", "eof", "mode", "base", "start"}

\* What the writing goes by: the lists and a position in them, which leaves
\* as much of the block as there is behind the offset.
Lists == IsHex(hex) /\ IsHex(other)
Position == /\ current \in Nat \ {0} /\ offset \in Nat /\ rest \in Nat
            /\ addr \in Address
InBlock == pc = "loop" /\ current <= Len(hex.blocks) =>
               offset + rest = Len(hex.blocks[current].data)
RInv == Lists /\ Position /\ InBlock /\ out \in Seq(Wrote)

-----------------------------------------------------------------------------
LEMMA Division ==
    ASSUME NEW s \in Nat \ {0}, NEW a \in Nat
    PROVE  /\ a \div s \in Nat /\ a % s \in 0 .. s-1
           /\ a = s * (a \div s) + (a % s)
OBVIOUS

LEMMA Quotient ==
    ASSUME NEW s \in Nat \ {0}, NEW q \in Nat, NEW r \in 0 .. s-1
    PROVE  (s * q + r) \div s = q
OBVIOUS

LEMMA Wrapped ==
    ASSUME NEW w \in Nat \ {0}, NEW x \in Nat, x < 2 * w
    PROVE  x % w = IF x < w THEN x ELSE x - w
OBVIOUS

LEMMA OutputSizes == /\ W \in Nat \ {0} /\ S \in Nat \ {0} /\ S < W /\ 2 * S <= W
               /\ ShortLen \in Nat \ {0} /\ LongLen \in Nat \ {0}
               /\ ShortLen <= LongLen /\ LongLen < S
<1>0. W \in Nat \ {0} /\ S \in Nat \ {0} /\ W % S = 0
  BY SizesAssumption
<1>1. /\ S < W
      /\ ShortLen \in Nat \ {0} /\ LongLen \in Nat \ {0}
      /\ ShortLen <= LongLen /\ LongLen < S
  BY <1>0, OutputAssumption
<1>2. W = S * (W \div S) /\ W \div S \in Nat
  <2>1. W \in Nat /\ S \in Nat \ {0}
    BY <1>0
  <2>2. W \div S \in Nat /\ W = S * (W \div S) + (W % S)
    BY <2>1, Division
  <2>3. S * (W \div S) \in Int
    BY <2>1, <2>2
  <2> QED BY <1>0, <2>2, <2>3
<1>3. W \div S # 0 /\ W \div S # 1
  BY <1>0, <1>1, <1>2
<1>4. 2 * S <= S * (W \div S)
  <2> DEFINE k == W \div S
  <2>1. k \in Nat /\ k >= 2
    BY <1>2, <1>3
  <2> HIDE DEF k
  <2>2. 2 * S <= S * k
    BY <1>0, <2>1
  <2> QED BY <2>2 DEF k
<1> QED BY <1>0, <1>1, <1>2, <1>4

LEMMA SegmentNumber ==
    ASSUME NEW a \in Address
    PROVE  /\ a \div S \in 0 .. Top /\ (a \div S) * S \in Nat
           /\ (a \div S) * S + (a % S) = a /\ (a \div S) * S + S <= W
<1> DEFINE u == a \div S
           v == W \div S
           r == a % S
<1>1. S \in Nat \ {0} /\ a \in Nat /\ a < W /\ W \in Nat
  BY OutputSizes DEF Address
<1>2. u \in Nat /\ r \in 0 .. S-1 /\ a = S * u + r
  BY <1>1, Division
<1>3. v \in Nat /\ W = S * v
  BY Sizes
<1> HIDE DEF u, v, r
<1>4. u + 1 <= v
  <2> SUFFICES ASSUME v <= u PROVE FALSE
    BY <1>2, <1>3
  <2>1. S * v <= S * u
    BY <1>1, <1>2, <1>3
  <2> QED BY <1>1, <1>2, <1>3, <2>1
<1>5. S * (u + 1) <= S * v /\ S * (u + 1) = u * S + S /\ u * S \in Nat /\ u * S = S * u
  BY <1>1, <1>2, <1>3, <1>4
<1>6. u \in 0 .. v-1
  BY <1>2, <1>3, <1>4
<1> QED BY <1>1, <1>2, <1>3, <1>5, <1>6 DEF u, v, r, Top

\* The cut of DataLen, as arithmetic: a record of f bytes at a that stays a
\* byte away from the next segment is within its own, and one that is cut ends
\* with it.
LEMMA CutFits ==
    ASSUME NEW a \in Address, NEW f \in Nat, f < S,
           NEW n, n = IF ((a + f + 1) % W) \div S # a \div S
                        THEN ((a \div S + 1) * S - a) % W ELSE f
    PROVE  n \in Nat /\ (a % S) + n <= S
<1> DEFINE u == a \div S
           r == a % S
<1>1. u \in Nat /\ r \in 0 .. S-1 /\ a = S * u + r
  <2>1. S \in Nat \ {0} /\ a \in Nat
    BY OutputSizes DEF Address
  <2> QED BY <2>1, Division
<1> HIDE DEF u, r
<1>2. CASE ((a + f + 1) % W) \div S # u
  <2>1. (u + 1) * S - a = S - r
    BY <1>1, OutputSizes
  <2>2. S - r \in 1 .. S /\ (S - r) % W = S - r
    <3>1. S - r \in 1 .. S /\ S - r < W /\ S - r < 2 * W /\ S - r \in Nat /\ W \in Nat \ {0}
      BY <1>1, OutputSizes
    <3> QED BY <3>1, Wrapped
  <2> QED BY <1>1, <1>2, <2>1, <2>2, OutputSizes DEF u, r
<1>3. CASE ((a + f + 1) % W) \div S = u
  <2>1. n = f
    BY <1>3 DEF u
  <2> SUFFICES ASSUME r + f > S PROVE FALSE
    BY <1>1, <2>1, OutputSizes DEF r
  <2>2. a + f + 1 \in Nat /\ a + f + 1 < 2 * W /\ a \in Nat /\ a < W
    BY OutputSizes DEF Address
  <2>3. CASE a + f + 1 < W
    <3>1. a + f + 1 = S * (u + 1) + (r + f + 1 - S)
      BY <1>1, OutputSizes
    <3>2. r + f + 1 - S \in 0 .. S-1
      BY <1>1, OutputSizes
    <3>3. (a + f + 1) \div S = u + 1
      <4>1. u + 1 \in Nat /\ S \in Nat \ {0}
        BY <1>1, OutputSizes
      <4> QED BY <4>1, <3>1, <3>2, Quotient
    <3>4. (a + f + 1) % W = a + f + 1
      <4>1. W \in Nat \ {0}
        BY OutputSizes
      <4> QED BY <4>1, <2>2, <2>3, Wrapped
    <3> QED BY <1>1, <1>3, <3>3, <3>4
  <2>4. CASE a + f + 1 >= W
    <3>1. (a + f + 1) % W = a + f + 1 - W
      <4> DEFINE x == a + f + 1
      <4>1. W \in Nat \ {0} /\ ~(x < W) /\ x \in Nat /\ x < 2 * W
        BY <2>2, <2>4, OutputSizes
      <4> HIDE DEF x
      <4>2. x % W = x - W
        BY <4>1, Wrapped
      <4> QED BY <2>2, <4>2, OutputSizes DEF x
    <3>2. a + f + 1 - W \in 0 .. S-1
      BY <2>2, <2>4, OutputSizes
    <3>3. (a + f + 1 - W) \div S = 0
      BY <3>2, OutputSizes, Quotient
    <3>4. u = 0
      BY <1>3, <3>1, <3>3
    <3>5. a = r
      BY <1>1, <3>4, OutputSizes
    <3> QED BY <1>1, <3>5, <2>4, OutputSizes
  <2> QED BY <2>2, <2>3, <2>4, OutputSizes
<1> QED BY <1>2, <1>3

LEMMA DataLenFits ==
    ASSUME Position
    PROVE  /\ DataLen(addr \div S) \in Nat
           /\ (addr % S) + DataLen(addr \div S) <= S
<1> DEFINE full == IF rest > MaxLen THEN MaxLen ELSE rest
<1>1. full \in Nat /\ full < S
  BY OutputSizes DEF Position, MaxLen
<1>2. addr \in Address
  BY DEF Position
<1>3. DataLen(addr \div S) = IF ((addr + full + 1) % W) \div S # addr \div S
                               THEN ((addr \div S + 1) * S - addr) % W ELSE full
  BY Zenon DEF DataLen
<1> HIDE DEF full
<1> QED BY <1>1, <1>2, <1>3, CutFits

-----------------------------------------------------------------------------
LEMMA ReadListsType ==
    ASSUME NEW most \in Nat, NEW bs \in ReadLists(most, Lengths)
    PROVE  bs \in Seq(BlockType)
<1> DEFINE B == {Block(a, BytesAt(a, n)) : a \in Address, n \in Lengths}
<1>1. bs \in BoundedSeq(B, most)
  BY DEF ReadLists
<1>2. bs \in Seq(B)
  BY <1>1 DEF BoundedSeq, SeqOf
<1>3. B \subseteq BlockType
  <2> SUFFICES ASSUME NEW a \in Address, NEW n \in Lengths
               PROVE  Block(a, BytesAt(a, n)) \in BlockType
    OBVIOUS
  <2>1. n \in Nat /\ a \in Nat
    BY OutputAssumption, OutputSizes DEF Address
  <2>2. BytesAt(a, n) \in Seq(Int)
    BY <2>1 DEF BytesAt
  <2> QED BY <2>2 DEF Block, BlockType
<1> QED BY <1>2, <1>3, SeqMonotonic

LEMMA ReadType ==
    ASSUME NEW bs \in Seq(BlockType)
    PROVE  /\ IsHex(Read(bs))
           /\ IsHex([Read(bs) EXCEPT !.eof = FALSE])
           /\ IsHex([Read(bs) EXCEPT !.mode = "segmented"])
BY DEF Read, EmptyHex, IsHex

LEMMA InitRInv == Init => RInv
<1> SUFFICES ASSUME Init PROVE RInv
  OBVIOUS
<1>1. <<Block(0, <<0>>)>> \in Seq(BlockType)
  BY OutputSizes DEF Block, BlockType, Address
<1>2. IsHex(hex)
  <2>1. \A bs \in ReadLists(MaxBlocks, Lengths) : IsHex(Read(bs))
    BY ReadListsType, ReadType, OutputAssumption
  <2> QED BY <1>1, <2>1, ReadType DEF Init
<1>3. IsHex(other)
  <2>1. \A bs \in ReadLists(1, Lengths) : IsHex(Read(bs))
    BY ReadListsType, ReadType
  <2> QED BY <1>1, <2>1, ReadType DEF Init
<1> QED BY <1>2, <1>3, OutputSizes DEF Init, RInv, Lists, Position, Address, InBlock

\* The output goes on at the beginning of a block.
LEMMA AtBlockPosition ==
    ASSUME Lists, UNCHANGED hex, NEW i \in 1 .. Len(hex.blocks), AtBlock(i)
    PROVE  Position' /\ InBlock'
<1>1. hex.blocks \in Seq(BlockType)
  BY DEF Lists, IsHex
<1>2. hex.blocks[i] \in BlockType
  BY <1>1, ElementOfSeq
<1>3. Len(hex.blocks[i].data) \in Nat /\ hex.blocks[i].addr \in Address /\ i \in Nat \ {0}
  BY <1>2, LenProperties DEF BlockType
<1> QED BY <1>3 DEF AtBlock, Position, InBlock, Len32

\* A record of the data that is left of the current block.
LEMMA RecordType ==
    ASSUME RInv, pc = "loop", current <= Len(hex.blocks),
           DataLen(addr \div S) <= rest
    PROVE  LET n == DataLen(addr \div S)
           IN  DataLine(addr % S, SubSeq(hex.blocks[current].data, offset+1, offset+n)) \in Wrote
<1> DEFINE n == DataLen(addr \div S)
           d == hex.blocks[current].data
<1>1. n \in Nat /\ (addr % S) + n <= S
  BY DataLenFits DEF RInv
<1>2. hex.blocks \in Seq(BlockType) /\ current \in Nat \ {0} /\ offset \in Nat /\ rest \in Nat
      /\ offset + rest = Len(d) /\ addr \in Nat
  BY OutputSizes DEF RInv, Lists, IsHex, Position, InBlock, Address
<1>3. d \in Seq(Int)
  <2>1. current \in 1 .. Len(hex.blocks)
    BY <1>2, LenProperties
  <2>2. hex.blocks[current] \in BlockType
    BY <1>2, <2>1, ElementOfSeq
  <2> QED BY <2>2 DEF BlockType
<1>4. addr % S \in 0 .. S-1
  BY <1>2, OutputSizes, Division
<1> HIDE DEF n, d
<1>5. n <= rest
  BY DEF n
<1>6. SubSeq(d, offset+1, offset+n) \in Seq(Int) /\ Len(SubSeq(d, offset+1, offset+n)) = n
  BY <1>1, <1>2, <1>3, <1>5
<1> QED BY <1>1, <1>4, <1>6 DEF DataLine, Wrote, n, d

\* What a turn of the loop comes to: the record is longer than it may be, or
\* it is written and the output goes on behind it.
RecordLen == DataLen(addr \div S)
Base == IF BaseDue THEN <<LinearBase(addr \div S)>> ELSE << >>
Record == DataLine(addr % S, SubSeq(hex.blocks[current].data, offset+1, offset+RecordLen))

Fails == /\ RecordLen > rest \/ RecordLen > LongLen
         /\ pc' = "undefined" /\ out' = out
         /\ UNCHANGED <<current, offset, rest, addr>>
GoesOn == /\ ~(rest = RecordLen /\ current < Len(hex.blocks))
          /\ offset' = offset + RecordLen /\ rest' = rest - RecordLen
          /\ addr' = (addr + RecordLen) % W
          /\ current' = IF rest = RecordLen THEN current+1 ELSE current
Writes == /\ RecordLen <= rest /\ pc' = "loop" /\ out' = out \o Base \o <<Record>>
          /\ \/ rest = RecordLen /\ current < Len(hex.blocks) /\ AtBlock(current+1)
             \/ GoesOn

LEMMA RecordCases ==
    ASSUME WriteRecord
    PROVE  /\ pc = "loop" /\ current <= Len(hex.blocks) /\ UNCHANGED <<hex, other>>
           /\ ulba' = addr \div S
           /\ Fails \/ Writes
BY Zenon DEF WriteRecord, Fails, Writes, GoesOn, Base, Record, RecordLen

LEMMA RecordRInv ==
    ASSUME RInv, WriteRecord
    PROVE  RInv'
<1> DEFINE u == addr \div S
           n == DataLen(u)
           b == hex.blocks[current]
<1>1. n \in Nat
  BY DataLenFits DEF RInv
<1>2. /\ current \in Nat \ {0} /\ offset \in Nat /\ rest \in Nat /\ addr \in Nat
      /\ Len(hex.blocks) \in Nat /\ current <= Len(hex.blocks) /\ pc = "loop"
      /\ offset + rest = Len(b.data) /\ u \in Nat /\ out \in Seq(Wrote)
  <2>1. hex.blocks \in Seq(BlockType) /\ current <= Len(hex.blocks) /\ pc = "loop"
    BY DEF RInv, Lists, IsHex, WriteRecord
  <2>2. addr \in Nat /\ S \in Nat \ {0}
    BY OutputSizes DEF RInv, Position, Address
  <2> QED BY <2>1, <2>2, LenProperties, Division DEF RInv, Position, InBlock
<1>3. Lists' /\ UNCHANGED hex
  BY DEF RInv, Lists, WriteRecord
<1>4. CASE Fails
  <2>1. InBlock'
    BY <1>2, <1>3, <1>4 DEF RInv, InBlock, Fails
  <2> QED BY <1>3, <1>4, <2>1 DEF RInv, Position, Fails
<1>5. CASE Writes
  <2>1. n <= rest /\ out' = out \o Base \o <<Record>>
    BY <1>5 DEF Writes, RecordLen
  <2>2. Position' /\ InBlock'
    <3>1. CASE current < Len(hex.blocks) /\ AtBlock(current+1)
      BY <1>2, <1>3, <3>1, AtBlockPosition DEF RInv
    <3>2. CASE GoesOn
      <4>5. /\ ~(rest = n /\ current < Len(hex.blocks))
            /\ offset' = offset + n /\ rest' = rest - n /\ addr' = (addr + n) % W
            /\ current' = IF rest = n THEN current+1 ELSE current
        BY <3>2 DEF GoesOn, RecordLen
      <4> HIDE DEF n
      <4>1. (addr + n) % W \in Address
        BY <1>1, <1>2, OutputSizes DEF Address
      <4>2. Position'
        BY <1>1, <1>2, <2>1, <4>1, <4>5 DEF Position
      <4>3. CASE rest = n
        <5>1. ~(current' <= Len(hex.blocks))
          BY <1>2, <4>3, <4>5
        <5> QED BY <1>3, <4>2, <5>1 DEF InBlock
      <4>4. CASE rest # n
        <5>1. offset' + rest' = offset + rest
          BY <1>1, <1>2, <4>5
        <5>2. current' = current
          BY <4>4, <4>5
        <5>3. offset' + rest' = Len(hex'.blocks[current'].data)
          BY <1>2, <1>3, <5>1, <5>2
        <5> QED BY <4>2, <5>3 DEF InBlock
      <4> QED BY <4>2, <4>3, <4>4
    <3> QED BY <1>5, <3>1, <3>2 DEF Writes
  <2>3. Record \in Wrote
    BY <1>2, <2>1, RecordType DEF Record, RecordLen
  <2>4. Base \in Seq(Wrote)
    <3>1. u \in 0 .. Top
      BY SegmentNumber DEF RInv, Position
    <3> HIDE DEF u
    <3>2. LinearBase(u) \in Wrote
      BY <3>1 DEF LinearBase, Wrote
    <3> QED BY <3>2 DEF Base, u
  <2>5. out' \in Seq(Wrote)
    BY <1>2, <2>1, <2>3, <2>4
  <2> QED BY <1>3, <2>2, <2>5 DEF RInv
<1> QED BY <1>4, <1>5, RecordCases

LEMMA MergeRInv ==
    ASSUME RInv, Merge
    PROVE  RInv'
<1>1. IsHex(Lower) /\ IsHex(Upper)
  BY DEF Lower, Upper, RInv, Lists
<1>2. IsHex(hex') /\ IsHex(other')
  <2>1. Lower.blocks \o Upper.blocks \in Seq(BlockType)
    BY <1>1 DEF IsHex
  <2> DEFINE total == (Lower.total + Upper.total) % W
  <2>2. hex' = [Lower EXCEPT !.blocks = Lower.blocks \o Upper.blocks, !.total = total,
                             !.start = NoStart]
    BY DEF Merge
  <2> HIDE DEF total
  <2>3. IsHex(hex')
    BY <1>1, <2>1, <2>2 DEF IsHex, NoStart
  <2>4. IsHex(other')
    BY <1>1 DEF Merge, Drained, IsHex
  <2> QED BY <2>3, <2>4
<1> QED BY <1>2 DEF RInv, Lists, Position, InBlock, Merge, position

LEMMA EndRInv ==
    ASSUME RInv, WriteEnd
    PROVE  RInv'
<1>1. StartLinear(hex.start) \in Wrote /\ Line("eof") \in Wrote
  BY DEF StartLinear, Line, Wrote, RInv, Lists, IsHex
<1>2. (IF hex.start # NoStart THEN <<StartLinear(hex.start)>> ELSE << >>) \in Seq(Wrote)
  BY <1>1
<1>3. out' \in Seq(Wrote)
  BY <1>1, <1>2 DEF WriteEnd, RInv
<1> QED BY <1>3 DEF WriteEnd, RInv, Lists, Position, InBlock, position

LEMMA StepRInv ==
    ASSUME RInv, [Next]_vars
    PROVE  RInv'
<1>1. CASE MergeFails
  BY <1>1 DEF MergeFails, RInv, Lists, Position, InBlock, position
<1>2. CASE MergeNothing
  BY <1>2 DEF MergeNothing, RInv, Lists, Position, InBlock, position
<1>3. CASE OutputRefused
  BY <1>3 DEF OutputRefused, RInv, Lists, Position, InBlock, position
<1>4. CASE OutputStarts
  <2>1. 1 \in 1 .. Len(hex.blocks)
    BY <1>4, LenProperties, EmptySeq DEF OutputStarts, RInv, Lists, IsHex
  <2> QED BY <1>4, <2>1, AtBlockPosition DEF OutputStarts, RInv, Lists
<1>5. CASE UNCHANGED vars
  BY <1>5 DEF vars, RInv, Lists, Position, InBlock
<1> QED BY <1>1, <1>2, <1>3, <1>4, <1>5, MergeRInv, RecordRInv, EndRInv DEF Next

-----------------------------------------------------------------------------
\* No record that IntelHexFileOutput writes reaches from one segment into the
\* next (intel.c:692-700), whatever the lengths, the segment and the
\* addresses, also where the next address wraps to 0.
THEOREM RecordsStay == Spec => []RecordsStayInSegment
<1>1. RInv => RecordsStayInSegment
  <2> SUFFICES ASSUME out \in Seq(Wrote), NEW i \in DOMAIN out, out[i].kind = "data"
               PROVE  out[i].field + Len(out[i].data) <= S
    BY DEF RInv, RecordsStayInSegment
  <2>1. out[i] \in Wrote
    OBVIOUS
  <2> QED BY <2>1 DEF Wrote
<1> QED BY <1>1, InitRInv, StepRInv, PTL DEF Spec

-----------------------------------------------------------------------------
\* A record is cut only if it comes within a byte of the next segment.
LEMMA CutShape ==
    ASSUME NEW a \in Address, NEW f \in Nat, f < S,
           NEW n, n = IF ((a + f + 1) % W) \div S # a \div S
                        THEN ((a \div S + 1) * S - a) % W ELSE f
    PROVE  n = f \/ (n = S - (a % S) /\ (a % S) + f + 1 >= S)
<1> DEFINE u == a \div S
           r == a % S
           v == W \div S
<1>1. u \in Nat /\ r \in 0 .. S-1 /\ a = S * u + r /\ a < W
  <2>1. S \in Nat \ {0} /\ a \in Nat /\ a < W
    BY OutputSizes DEF Address
  <2> QED BY <2>1, Division
<1>2. v \in Nat /\ W = S * v
  BY Sizes
<1> HIDE DEF u, r, v
<1> SUFFICES ASSUME ((a + f + 1) % W) \div S # u
             PROVE  n = S - r /\ r + f + 1 >= S
  BY DEF u, r
<1>3. n = S - r
  <2>1. (u + 1) * S - a = S - r
    BY <1>1, OutputSizes
  <2>2. S - r \in 1 .. S /\ S - r < W /\ S - r < 2 * W /\ S - r \in Nat /\ W \in Nat \ {0}
    BY <1>1, OutputSizes
  <2>3. (S - r) % W = S - r
    BY <2>2, Wrapped
  <2> QED BY <2>1, <2>3 DEF u
<1>4. r + f + 1 >= S
  <2> SUFFICES ASSUME r + f + 1 < S PROVE FALSE
    BY <1>1, OutputSizes
  <2> DEFINE x == r + f + 1
  <2>1. x \in 0 .. S-1 /\ a + f + 1 = S * u + x
    BY <1>1, OutputSizes
  <2>2. u + 1 <= v
    <3> SUFFICES ASSUME v <= u PROVE FALSE
      BY <1>1, <1>2
    <3>1. S * v <= S * u
      BY <1>1, <1>2, OutputSizes
    <3> QED BY <1>1, <1>2, <3>1, OutputSizes
  <2>3. S * (u + 1) <= S * v /\ S * (u + 1) = S * u + S
    BY <1>1, <1>2, <2>2, OutputSizes
  <2>4. a + f + 1 \in 0 .. W-1
    BY <1>1, <1>2, <2>1, <2>3, OutputSizes
  <2>5. (a + f + 1) % W = a + f + 1
    BY <2>4, OutputSizes, WrapSmall
  <2> HIDE DEF x
  <2>6. (S * u + x) \div S = u
    BY <1>1, <2>1, OutputSizes, Quotient
  <2> QED BY <2>1, <2>5, <2>6
<1> QED BY <1>3, <1>4

\* The output stands at the offset of its block; in a file with long records
\* a multiple of them behind its beginning, unless a cut has brought it to one
\* in its segment.
Placed == pc = "loop" /\ current <= Len(hex.blocks) =>
              /\ addr = (hex.blocks[current].addr + offset) % W
              /\ MaxLen = LongLen => offset % LongLen = 0 \/ addr % LongLen = 0

LEMMA RecordShape ==
    ASSUME RInv
    PROVE  LET f == IF rest > MaxLen THEN MaxLen ELSE rest
               n == RecordLen
               r == addr % S
           IN  /\ f \in Nat /\ r \in 0 .. S-1 /\ n \in Nat /\ rest \in Nat
               /\ n = f \/ (n = S - r /\ r + f + 1 >= S)
<1> DEFINE f == IF rest > MaxLen THEN MaxLen ELSE rest
<1>1. f \in Nat /\ f < S /\ rest \in Nat
  BY OutputSizes DEF RInv, Position, MaxLen
<1>2. addr \in Address
  BY DEF RInv, Position
<1>3. RecordLen = IF ((addr + f + 1) % W) \div S # addr \div S
                    THEN ((addr \div S + 1) * S - addr) % W ELSE f
  BY Zenon DEF RecordLen, DataLen
<1>4. addr % S \in 0 .. S-1
  BY <1>2, OutputSizes, Division DEF Address
<1>5. RecordLen \in Nat
  BY DataLenFits DEF RInv, RecordLen
<1> HIDE DEF f
<1>6. RecordLen = f \/ (RecordLen = S - (addr % S) /\ (addr % S) + f + 1 >= S)
  BY <1>1, <1>2, <1>3, CutShape
<1> QED BY <1>1, <1>4, <1>5, <1>6 DEF f

\* Remainders where the output stands.
LEMMA PlacedRemainders ==
    ASSUME RInv, Placed, pc = "loop", current <= Len(hex.blocks)
    PROVE  LET b == hex.blocks[current]
           IN  /\ b.addr \in Nat /\ offset \in Nat /\ rest \in Nat
               /\ offset + rest = Len32(b) /\ addr \in Nat
               /\ addr = (b.addr + offset) % W
               /\ addr % S = (b.addr + offset) % S
               /\ addr % LongLen = (b.addr + offset) % LongLen
<1> DEFINE b == hex.blocks[current]
<1>1. hex.blocks \in Seq(BlockType) /\ current \in 1 .. Len(hex.blocks)
  BY LenProperties DEF RInv, Lists, IsHex, Position
<1>2. b.addr \in Nat
  BY <1>1, ListBlocks DEF Address
<1>3. /\ offset \in Nat /\ rest \in Nat /\ offset + rest = Len32(b) /\ addr \in Nat
      /\ addr = (b.addr + offset) % W
  BY OutputSizes DEF RInv, Position, InBlock, Len32, Placed, Address
<1> HIDE DEF b
<1>4. b.addr + offset \in Nat /\ W \in Nat \ {0} /\ S \in Nat \ {0} /\ LongLen \in Nat \ {0}
  BY <1>2, <1>3, OutputSizes
<1>5. W % S = 0 /\ W % LongLen = 0
  <2>1. W % S = 0 /\ S % LongLen = 0
    BY SizesAssumption, OutputAssumption
  <2>2. (W % S) % LongLen = 0
    BY <1>4, <2>1
  <2>3. (W % S) % LongLen = W % LongLen
    <3>1. S % LongLen = 0 /\ W \in Nat
      BY <1>4, <2>1
    <3> QED BY <1>4, <3>1, WrapNested
  <2> QED BY <2>1, <2>2, <2>3
<1>6. /\ ((b.addr + offset) % W) % S = (b.addr + offset) % S
      /\ ((b.addr + offset) % W) % LongLen = (b.addr + offset) % LongLen
  BY <1>4, <1>5, WrapNested
<1> QED BY <1>2, <1>3, <1>6 DEF b

LEMMA FailsAtEnd ==
    ASSUME RInv, Placed, pc = "loop", current <= Len(hex.blocks), Fails
    PROVE  LET b == hex.blocks[current]
           IN  \/ (b.addr + Len32(b) + 1) % S = 0
               \/ MaxLen = LongLen /\ (b.addr + 1) % LongLen = 0
<1> DEFINE b == hex.blocks[current]
           f == IF rest > MaxLen THEN MaxLen ELSE rest
           n == RecordLen
           r == addr % S
           l == LongLen
           y == b.addr + offset
<1>1. /\ f \in Nat /\ r \in 0 .. S-1 /\ n \in Nat /\ rest \in Nat
      /\ n = f \/ (n = S - r /\ r + f + 1 >= S)
  BY RecordShape
<1>2. n > rest \/ n > l
  BY DEF Fails
<1>3. /\ MaxLen \in {ShortLen, l} /\ ShortLen \in Nat \ {0} /\ l \in Nat \ {0} /\ ShortLen <= l
      /\ S \in Nat \ {0} /\ f = IF rest > MaxLen THEN MaxLen ELSE rest
  BY OutputSizes DEF MaxLen
<1>4. /\ b.addr \in Nat /\ offset \in Nat /\ offset + rest = Len32(b) /\ addr \in Nat
      /\ r = y % S /\ addr % l = y % l /\ y \in Nat
  BY PlacedRemainders, SMTT(30)
<1>5. MaxLen = l => offset % l = 0 \/ addr % l = 0
  BY DEF Placed
<1>6. S % l = 0
  BY OutputAssumption
<1> HIDE DEF b, f, n, r, l, y
<1>7. CASE n > rest
  <2>1. r + rest + 1 = S
    BY <1>1, <1>3, <1>7
  <2>2. ((y % S) + (rest + 1)) % S = (y + (rest + 1)) % S
    <3>1. rest + 1 \in Nat
      BY <1>1
    <3> QED BY <1>3, <1>4, <3>1, WrapTwice
  <2>3. S % S = 0
    BY <1>3
  <2>4. b.addr + Len32(b) + 1 = y + (rest + 1)
    BY <1>1, <1>4, SMTT(30) DEF y
  <2>5. (y % S) + (rest + 1) = S
    BY <1>1, <1>3, <1>4, <2>1
  <2> QED BY <2>2, <2>3, <2>4, <2>5 DEF b
<1>8. CASE n > l
  <2>1. r + l + 1 = S /\ MaxLen = l
    BY <1>1, <1>3, <1>8
  <2>2. (addr + 1) % l = 0
    <3>1. ((addr % S) + (l + 1)) % S = (addr + (l + 1)) % S
      <4>1. l + 1 \in Nat
        BY <1>3
      <4> QED BY <1>3, <1>4, <4>1, WrapTwice
    <3>2. (addr % S) + (l + 1) = S /\ S % S = 0
      BY <1>1, <1>3, <2>1 DEF r
    <3>3. (addr + (l + 1)) % S = 0
      BY <3>1, <3>2
    <3>4. ((addr + (l + 1)) % S) % l = (addr + (l + 1)) % l
      <4>1. addr + (l + 1) \in Nat
        BY <1>3, <1>4
      <4> QED BY <1>3, <1>6, <4>1, WrapNested
    <3>5. 0 % l = 0
      BY <1>3
    <3>6. (l * 1 + (addr + 1)) % l = (addr + 1) % l /\ l * 1 + (addr + 1) = addr + (l + 1)
      <4>1. addr + 1 \in Nat /\ 1 \in Nat
        BY <1>4
      <4>2. (l * 1 + (addr + 1)) % l = (addr + 1) % l
        BY <1>3, <4>1, WrapMultiple
      <4> QED BY <1>3, <1>4, <4>2
    <3> QED BY <3>3, <3>4, <3>5, <3>6
  <2>3. CASE offset % l = 0
    <3>1. ((y % l) + 1) % l = (y + 1) % l /\ ((addr % l) + 1) % l = (addr + 1) % l
      BY <1>3, <1>4, WrapTwice, ZenonT(60)
    <3>2. (y + 1) % l = 0
      BY <1>4, <2>2, <3>1
    <3>3. b.addr + 1 \in Nat
      BY <1>4
    <3>4. ((offset % l) + (b.addr + 1)) % l = (offset + (b.addr + 1)) % l
      BY <1>3, <1>4, <3>3, WrapTwice
    <3>5. offset + (b.addr + 1) = y + 1 /\ 0 + (b.addr + 1) = b.addr + 1
      BY <1>4 DEF y
    <3>6. (b.addr + 1) % l = 0
      BY <2>3, <3>2, <3>4, <3>5
    <3> QED BY <2>1, <3>6 DEF b, l
  <2>4. CASE addr % l = 0
    <3>1. ((addr % l) + 1) % l = (addr + 1) % l
      BY <1>3, <1>4, WrapTwice, ZenonT(60)
    <3>2. 1 % l = 0
      BY <2>2, <2>4, <3>1
    <3>3. l = 1
      <4> SUFFICES ASSUME l # 1 PROVE FALSE
        OBVIOUS
      <4>1. 1 \in 0 .. l-1
        BY <1>3
      <4>2. 1 % l = 1
        BY <1>3, <4>1, WrapSmall
      <4> QED BY <3>2, <4>2
    <3>4. (b.addr + 1) % l = 0
      BY <1>4, <3>3
    <3> QED BY <2>1, <3>4 DEF b, l
  <2> QED BY <1>5, <2>1, <2>3, <2>4
<1> QED BY <1>2, <1>7, <1>8

\* A record that is written leaves the output placed.
LEMMA GoesOnPlaced ==
    ASSUME RInv, Placed, pc = "loop", current <= Len(hex.blocks), UNCHANGED hex,
           RecordLen <= rest, GoesOn
    PROVE  Placed'
<1> DEFINE b == hex.blocks[current]
           f == IF rest > MaxLen THEN MaxLen ELSE rest
           n == RecordLen
           r == addr % S
           l == LongLen
<1>1. /\ f \in Nat /\ r \in 0 .. S-1 /\ n \in Nat /\ rest \in Nat
      /\ n = f \/ (n = S - r /\ r + f + 1 >= S)
  BY RecordShape
<1>2. /\ l \in Nat \ {0} /\ S \in Nat \ {0} /\ W \in Nat \ {0}
      /\ f = IF rest > MaxLen THEN MaxLen ELSE rest
  BY OutputSizes
<1>3. /\ b.addr \in Nat /\ offset \in Nat /\ addr \in Nat /\ addr = (b.addr + offset) % W
  BY PlacedRemainders
<1>4. MaxLen = l => offset % l = 0 \/ addr % l = 0
  BY DEF Placed
<1>5. S % l = 0 /\ W % S = 0
  BY OutputAssumption, SizesAssumption
<1>6. /\ offset' = offset + n /\ addr' = (addr + n) % W /\ hex' = hex
      /\ ~(rest = n /\ current < Len(hex.blocks))
      /\ current' = IF rest = n THEN current+1 ELSE current
      /\ MaxLen' = MaxLen /\ current \in Nat /\ Len(hex.blocks) \in Nat
  BY LenProperties DEF GoesOn, MaxLen, RInv, Position, Lists, IsHex
<1> SUFFICES ASSUME current' <= Len(hex.blocks)
             PROVE  /\ addr' = (hex.blocks[current'].addr + offset') % W
                    /\ MaxLen' = l => offset' % l = 0 \/ addr' % l = 0
  BY <1>6 DEF Placed
<1> HIDE DEF f, n, r, l
<1>7. rest # n /\ current' = current
  BY <1>6
<1> HIDE DEF b
<1>8. addr' = (b.addr + offset') % W
  <2>1. b.addr + offset \in Nat /\ b.addr + offset' = (b.addr + offset) + n
    BY <1>1, <1>3, <1>6, SMTT(30)
  <2>2. (((b.addr + offset) % W) + n) % W = ((b.addr + offset) + n) % W
    BY <1>1, <1>2, <2>1, WrapTwice
  <2> QED BY <1>3, <1>6, <2>1, <2>2
<1>9. ASSUME MaxLen = l
      PROVE  offset' % l = 0 \/ addr' % l = 0
  <2>1. addr + n \in Nat /\ W % l = 0 /\ ((addr + n) % W) % l = (addr + n) % l
    <3>1. addr + n \in Nat
      BY <1>1, <1>3
    <3>2. (W % S) % l = W % l
      <4>1. W \in Nat
        BY <1>2
      <4> QED BY <1>2, <1>5, <4>1, WrapNested
    <3>3. 0 % l = 0
      BY <1>2
    <3>4. W % l = 0
      BY <1>5, <3>2, <3>3
    <3>5. ((addr + n) % W) % l = (addr + n) % l
      BY <1>2, <3>1, <3>4, WrapNested
    <3> QED BY <3>1, <3>4, <3>5
  <2>2. CASE n = f
    <3>1. n = l
      BY <1>2, <1>7, <1>9, <2>2
    <3>2. (l * 1 + offset) % l = offset % l /\ (l * 1 + addr) % l = addr % l
      <4>1. 1 \in Nat
        OBVIOUS
      <4> QED BY <1>2, <1>3, <4>1, WrapMultiple
    <3>3. l * 1 + offset = offset + n /\ l * 1 + addr = addr + n
      BY <1>2, <1>3, <3>1
    <3> QED BY <1>4, <1>6, <1>9, <2>1, <3>2, <3>3
  <2>3. CASE n = S - r
    <3>1. ((addr % S) + n) % S = (addr + n) % S
      BY <1>1, <1>2, <1>3, WrapTwice
    <3>2. (addr % S) + n = S /\ S % S = 0
      BY <1>1, <1>2, <2>3 DEF r
    <3>3. ((addr + n) % S) % l = (addr + n) % l
      BY <1>2, <1>5, <2>1, WrapNested
    <3>4. 0 % l = 0
      BY <1>2
    <3>5. addr' % l = 0
      BY <1>6, <2>1, <3>1, <3>2, <3>3, <3>4
    <3> QED BY <3>5
  <2> QED BY <1>1, <2>2, <2>3
<1> QED BY <1>6, <1>7, <1>8, <1>9 DEF b

LEMMA StepPlaced ==
    ASSUME RInv, Placed, OverrunsAtSegmentEnd, [Next]_vars
    PROVE  Placed' /\ OverrunsAtSegmentEnd'
<1>1. CASE pc' \notin {"loop", "undefined"}
  BY <1>1 DEF Placed, OverrunsAtSegmentEnd
<1>2. CASE OutputStarts
  <2>1. pc' = "loop" /\ hex' = hex /\ current' = 1 /\ offset' = 0
        /\ addr' = hex.blocks[1].addr /\ hex.blocks \in Seq(BlockType) /\ hex.blocks # << >>
    BY <1>2 DEF OutputStarts, AtBlock, RInv, Lists, IsHex
  <2>2. hex.blocks[1].addr \in Address
    <3>1. 1 \in 1 .. Len(hex.blocks)
      BY <2>1, LenProperties, EmptySeq
    <3> QED BY <2>1, <3>1, ListBlocks
  <2>3. (hex.blocks[1].addr + 0) % W = hex.blocks[1].addr /\ 0 % LongLen = 0
    BY <2>2, OutputSizes DEF Address
  <2> QED BY <2>1, <2>3 DEF Placed, OverrunsAtSegmentEnd
<1>3. CASE WriteRecord
  <2>1. /\ pc = "loop" /\ current <= Len(hex.blocks) /\ hex' = hex
        /\ Fails \/ Writes
    BY <1>3, RecordCases
  <2>2. CASE Fails
    <3>1. pc' = "undefined" /\ current' = current /\ MaxLen' = MaxLen
      BY <2>1, <2>2 DEF Fails, MaxLen
    <3>2. OverrunsAtSegmentEnd'
      BY <2>1, <2>2, <3>1, FailsAtEnd DEF OverrunsAtSegmentEnd
    <3> QED BY <3>1, <3>2 DEF Placed
  <2>3. CASE Writes /\ current < Len(hex.blocks) /\ AtBlock(current+1)
    <3>1. pc' = "loop" /\ current' = current + 1 /\ offset' = 0
          /\ addr' = hex.blocks[current+1].addr /\ hex.blocks \in Seq(BlockType)
          /\ current \in Nat \ {0}
      BY <2>3 DEF Writes, AtBlock, RInv, Lists, IsHex, Position
    <3>2. hex.blocks[current+1].addr \in Address
      <4>1. current+1 \in 1 .. Len(hex.blocks)
        BY <2>3, <3>1, LenProperties
      <4> QED BY <3>1, <4>1, ListBlocks
    <3>3. (hex.blocks[current+1].addr + 0) % W = hex.blocks[current+1].addr /\ 0 % LongLen = 0
      BY <3>2, OutputSizes DEF Address
    <3> QED BY <2>1, <3>1, <3>3 DEF Placed, OverrunsAtSegmentEnd
  <2>4. CASE Writes /\ GoesOn
    <3>1. pc' = "loop" /\ RecordLen <= rest
      BY <2>4 DEF Writes
    <3>2. Placed'
      BY <2>1, <2>4, <3>1, GoesOnPlaced
    <3> QED BY <3>1, <3>2 DEF OverrunsAtSegmentEnd
  <2> QED BY <2>1, <2>2, <2>3, <2>4 DEF Writes
<1>4. CASE UNCHANGED vars
  BY <1>4 DEF vars, Placed, OverrunsAtSegmentEnd, MaxLen
<1> QED BY <1>1, <1>2, <1>3, <1>4
        DEF Next, MergeFails, MergeNothing, Merge, OutputRefused, WriteEnd

\* A record is longer than its block or its buffer (intel.c:692-700) only
\* where the block ends one byte below a segment or, in a file with long
\* records, begins one byte below a multiple of their length.
THEOREM Overruns == Spec => []OverrunsAtSegmentEnd
<1>1. Init => Placed /\ OverrunsAtSegmentEnd
  BY DEF Init, Placed, OverrunsAtSegmentEnd
<1> QED BY <1>1, InitRInv, StepRInv, StepPlaced, PTL DEF Spec

-----------------------------------------------------------------------------
\* A block that was read: it comes to the top of memory at most, and its bytes
\* are told apart by their addresses.  The lists of such blocks before merging.
WasReadBlock(b) == /\ Len32(b) \in Nat \ {0} /\ b.addr + Len32(b) <= W
                   /\ b.data = BytesAt(b.addr, Len32(b))
Rising(bs) == /\ bs \in Seq(BlockType) /\ Ascending(bs)
              /\ \A i \in 1 .. Len(bs) : WasReadBlock(bs[i])

LEMMA ReadRising ==
    ASSUME NEW most \in Nat, NEW bs \in ReadLists(most, Lengths)
    PROVE  Rising(bs)
<1> DEFINE B == {Block(a, BytesAt(a, n)) : a \in Address, n \in Lengths}
<1>1. /\ bs \in BoundedSeq(B, most) /\ Ascending(bs)
      /\ bs # << >> => Last(bs).addr + Len32(Last(bs)) <= W
  BY DEF ReadLists
<1>2. bs \in Seq(B) /\ bs \in Seq(BlockType) /\ Len(bs) \in Nat
  BY <1>1, ReadListsType, LenProperties DEF BoundedSeq, SeqOf
<1>3. ASSUME NEW i \in 1 .. Len(bs)
      PROVE  WasReadBlock(bs[i])
  <2>1. bs[i] \in B
    BY <1>2, ElementOfSeq
  <2>2. PICK a \in Address, n \in Lengths : bs[i] = Block(a, BytesAt(a, n))
    BY <2>1
  <2>3. n \in Nat \ {0} /\ a \in Nat /\ W \in Nat
    BY OutputAssumption, OutputSizes DEF Address
  <2>4. Len(BytesAt(a, n)) = n
    BY <2>3 DEF BytesAt
  <2>5. bs[i].addr = a /\ Len32(bs[i]) = n /\ bs[i].data = BytesAt(a, n)
    BY <2>2, <2>4 DEF Block, Len32
  <2>6. a + n <= W
    <3>1. CASE i = Len(bs)
      <4>1. bs # << >> /\ Last(bs) = bs[i]
        BY <1>2, <3>1 DEF Last
      <4> QED BY <1>1, <2>5, <4>1
    <3>2. CASE i # Len(bs)
      <4>1. i \in 1 .. Len(bs)-1 /\ i+1 \in 1 .. Len(bs)
        BY <1>2, <3>2
      <4>2. bs[i].addr + Len32(bs[i]) <= bs[i+1].addr
        BY <1>1, <4>1 DEF Ascending
      <4>3. bs[i+1].addr \in Address
        BY <1>2, <4>1, ListBlocks
      <4> QED BY <2>3, <2>5, <4>2, <4>3 DEF Address
    <3> QED BY <3>1, <3>2
  <2> QED BY <2>3, <2>5, <2>6 DEF WasReadBlock
<1> QED BY <1>1, <1>2, <1>3 DEF Rising

\* Both lists as they were read.
BothRising == Rising(hex.blocks) /\ Rising(other.blocks)

LEMMA InitRising == Init => BothRising
<1> SUFFICES ASSUME Init PROVE BothRising
  OBVIOUS
<1> DEFINE one == <<Block(0, <<0>>)>>
<1>1. Rising(one)
  <2>1. one \in Seq(BlockType) /\ Len(one) = 1 /\ one[1] = Block(0, <<0>>)
    BY OutputSizes DEF Block, BlockType, Address
  <2>2. Len32(one[1]) = 1 /\ one[1].addr = 0 /\ one[1].data = <<0>>
    BY <2>1 DEF Block, Len32
  <2>3. <<0>> = BytesAt(0, 1)
    BY DEF BytesAt
  <2>4. WasReadBlock(one[1])
    BY <2>2, <2>3, OutputSizes DEF WasReadBlock
  <2> HIDE DEF one
  <2> QED BY <2>1, <2>4 DEF Rising, Ascending
<1> HIDE DEF one
<1>2. \A bs : Read(bs).blocks = bs
  BY DEF Read, EmptyHex
<1>3. Rising(hex.blocks)
  <2>1. CASE hex \in {Read(bs) : bs \in ReadLists(MaxBlocks, Lengths)}
    BY <1>2, <2>1, ReadRising, OutputAssumption
  <2>2. CASE hex = [Read(one) EXCEPT !.eof = FALSE]
    BY <1>1, <2>2 DEF Read, EmptyHex
  <2> QED BY <2>1, <2>2 DEF Init, one
<1>4. Rising(other.blocks)
  <2>1. CASE other \in {Read(bs) : bs \in ReadLists(1, Lengths)}
    BY <1>2, <2>1, ReadRising
  <2>2. CASE other = [Read(one) EXCEPT !.mode = "segmented"]
    BY <1>1, <2>2 DEF Read, EmptyHex
  <2> QED BY <2>1, <2>2 DEF Init, one
<1> QED BY <1>3, <1>4 DEF BothRising

\* What holds of neighbours holds of all pairs.
LEMMA RisingPairs ==
    ASSUME NEW bs, Rising(bs), NEW i \in 1 .. Len(bs), NEW j \in 1 .. Len(bs), i < j
    PROVE  bs[i].addr + Len32(bs[i]) <= bs[j].addr
<1> DEFINE l == Len(bs)
           T == {m \in 0 .. l : m > i => bs[i].addr + Len32(bs[i]) <= bs[m].addr}
<1>1. l \in Nat /\ bs \in Seq(BlockType)
  BY LenProperties DEF Rising
<1>2. \A m \in 1 .. l : bs[m].addr \in Nat /\ Len32(bs[m]) \in Nat
  BY <1>1, ListBlocks DEF Address
<1>3. \A m \in 1 .. l-1 : bs[m].addr + Len32(bs[m]) <= bs[m+1].addr
  BY DEF Rising, Ascending
<1> HIDE DEF l
<1>4. 0 \in T
  BY <1>1
<1>5. ASSUME NEW m \in 1 .. l, m-1 \in T
      PROVE  m \in T
  <2> SUFFICES ASSUME m > i PROVE bs[i].addr + Len32(bs[i]) <= bs[m].addr
    OBVIOUS
  <2> DEFINE k == m-1
  <2>1. k \in 1 .. l-1 /\ k \in 1 .. l /\ k+1 = m /\ k >= i /\ i \in 1 .. l
    BY <1>1 DEF l
  <2>2. k > i => bs[i].addr + Len32(bs[i]) <= bs[k].addr
    BY <1>5, <2>1
  <2> HIDE DEF k
  <2>3. bs[k].addr + Len32(bs[k]) <= bs[m].addr
    BY <1>3, <2>1
  <2>4. /\ bs[k].addr \in Nat /\ Len32(bs[k]) \in Nat /\ bs[i].addr \in Nat
        /\ Len32(bs[i]) \in Nat /\ bs[m].addr \in Nat
    BY <1>2, <2>1
  <2>5. CASE k = i
    BY <2>3, <2>5
  <2>6. CASE k > i
    BY <2>2, <2>3, <2>4, <2>6, SMTT(30)
  <2> QED BY <2>1, <2>5, <2>6
<1> HIDE DEF T
<1>6. T \in SUBSET (0 .. l)
  BY DEF T
<1>7. \A m \in 0 .. l : m \in T
  BY <1>1, <1>4, <1>5, <1>6, Stepwise
<1>8. j \in T
  BY <1>1, <1>7 DEF l
<1> QED BY <1>8 DEF T

\* All bytes of such a list lie between its first address and its end.
LEMMA RisingSpan ==
    ASSUME NEW bs, Rising(bs), NEW x \in DOMAIN Image(bs)
    PROVE  x \in Nat /\ bs[1].addr <= x /\ x < Last(bs).addr + Len32(Last(bs))
<1> DEFINE l == Len(bs)
<1>1. l \in Nat /\ bs \in Seq(BlockType) /\ DOMAIN bs = 1 .. l
  BY LenProperties DEF Rising
<1>2. PICK i \in 1 .. l : x \in Span(bs[i].addr, Len32(bs[i]))
  <2>1. x \in UNION {Span(bs[i].addr, Len32(bs[i])) : i \in DOMAIN bs}
    BY DEF Image
  <2> QED BY <1>1, <2>1
<1>3. \A m \in 1 .. l : bs[m].addr \in Nat /\ Len32(bs[m]) \in Nat /\ bs[m].addr + Len32(bs[m]) <= W
  BY <1>1, ListBlocks DEF Address, Rising, WasReadBlock
<1>4. PICK k \in 0 .. Len32(bs[i])-1 : x = (bs[i].addr + k) % W
  BY <1>2 DEF Span
<1>5. x = bs[i].addr + k
  <2> DEFINE a == bs[i].addr
             n == Len32(bs[i])
  <2>1. a \in Nat /\ n \in Nat /\ a + n <= W /\ k \in 0 .. n-1
    BY <1>3, <1>4
  <2>2. x = (a + k) % W
    BY <1>4
  <2> HIDE DEF a, n
  <2>3. a + k \in 0 .. W-1
    BY <2>1, OutputSizes
  <2>4. x = a + k
    BY <2>2, <2>3, OutputSizes, WrapSmall
  <2> QED BY <2>4 DEF a
<1>6. 1 \in 1 .. l /\ l \in 1 .. l /\ Last(bs) = bs[l]
  BY <1>1 DEF Last
<1>7. bs[1].addr <= bs[i].addr
  <2>1. CASE i = 1
    BY <1>3, <1>6, <2>1
  <2>2. CASE i # 1
    <3>1. bs[1].addr + Len32(bs[1]) <= bs[i].addr
      BY <1>1, <1>6, <2>2, RisingPairs
    <3> QED BY <1>3, <1>6, <3>1
  <2> QED BY <2>1, <2>2
<1>8. bs[i].addr + Len32(bs[i]) <= bs[l].addr + Len32(bs[l])
  <2>1. CASE i = l
    BY <1>3, <1>6, <2>1
  <2>2. CASE i # l
    <3>2. i < l /\ l \in 1 .. l
      <4> HIDE DEF l
      <4> QED BY <1>1, <2>2
    <3>1. bs[i].addr + Len32(bs[i]) <= bs[l].addr
      BY <3>2, RisingPairs DEF l
    <3> QED BY <1>3, <1>6, <3>1, SMTT(30)
  <2> QED BY <2>1, <2>2
<1> HIDE DEF l
<1> QED BY <1>3, <1>4, <1>5, <1>6, <1>7, <1>8

\* Where the end of a list is not the top of memory, it does not wrap.
LEMMA RisingEnd ==
    ASSUME NEW h, Rising(h.blocks), h.blocks # << >>
    PROVE  LET b == Last(h.blocks)
           IN  /\ b \in BlockType /\ b.addr + Len32(b) \in Nat
               /\ End(b) = IF b.addr + Len32(b) = W THEN 0 ELSE b.addr + Len32(b)
               /\ EndsAtTop(h) <=> b.addr + Len32(b) = W
<1> DEFINE bs == h.blocks
           b == Last(bs)
<1>1. bs \in Seq(BlockType) /\ Len(bs) \in 1 .. Len(bs) /\ b = bs[Len(bs)]
  BY LenProperties, EmptySeq DEF Rising, Last
<1>2. b.addr \in Nat /\ Len32(b) \in Nat \ {0} /\ b.addr + Len32(b) <= W /\ b \in BlockType
  BY <1>1, ListBlocks, ElementOfSeq DEF Address, Rising, WasReadBlock
<1> HIDE DEF b
<1> DEFINE x == b.addr + Len32(b)
<1>3. x \in 1 .. W
  BY <1>2, OutputSizes
<1> HIDE DEF x
<1>4. x % W = IF x = W THEN 0 ELSE x
  <2>1. CASE x = W
    BY <2>1, OutputSizes
  <2>2. CASE x # W
    <3>1. x \in 0 .. W-1
      BY <1>3, <2>2, OutputSizes
    <3> QED BY <2>2, <3>1, OutputSizes, WrapSmall
  <2> QED BY <2>1, <2>2
<1>5. x # 0 /\ x \in Nat
  BY <1>3, OutputSizes
<1>6. End(b) = x % W
  BY DEF End, x
<1>7. /\ b \in BlockType /\ x \in Nat
      /\ End(b) = IF x = W THEN 0 ELSE x
      /\ EndsAtTop(h) <=> x = W
  BY <1>2, <1>4, <1>5, <1>6 DEF EndsAtTop, b
<1> QED BY <1>7 DEF x, b

\* What merging appends: the lower file and the upper one.
LEMMA MergedLists ==
    ASSUME Lists, BothRising, Merge
    PROVE  LET f == Lower
               g == Upper
           IN  /\ Rising(f.blocks) /\ Rising(g.blocks) /\ f.blocks # << >> /\ g.blocks # << >>
               /\ End(Last(f.blocks)) <= g.blocks[1].addr
               /\ hex'.blocks = f.blocks \o g.blocks
<1>1. (Lower = hex /\ Upper = other) \/ (Lower = other /\ Upper = hex)
  BY DEF Lower, Upper
<1>5. hex.blocks # << >> /\ other.blocks # << >>
  BY DEF Merge, NothingToMerge
<1>2. Rising(Lower.blocks) /\ Rising(Upper.blocks) /\ Lower.blocks # << >> /\ Upper.blocks # << >>
  BY <1>1, <1>5 DEF BothRising
<1>3. End(Last(Lower.blocks)) <= Upper.blocks[1].addr
  <2>1. ~(End(Last(Lower.blocks)) > Upper.blocks[1].addr)
    BY DEF Merge, Collide
  <2>2. End(Last(Lower.blocks)) \in Int
    <3>1. Last(Lower.blocks).addr + Len32(Last(Lower.blocks)) \in Nat
      BY <1>2, RisingEnd
    <3> QED BY <3>1, OutputSizes DEF End
  <2>3. Upper.blocks[1].addr \in Int
    <3>1. 1 \in 1 .. Len(Upper.blocks) /\ Upper.blocks \in Seq(BlockType)
      BY <1>2, LenProperties, EmptySeq DEF Rising
    <3> QED BY <3>1, ListBlocks DEF Address
  <2> HIDE DEF Lower, Upper
  <2> QED BY <2>1, <2>2, <2>3
<1>4. hex'.blocks = Lower.blocks \o Upper.blocks
  <2>1. hex' = [Lower EXCEPT !.blocks = Lower.blocks \o Upper.blocks,
                             !.total = (Lower.total + Upper.total) % W, !.start = NoStart]
    BY DEF Merge
  <2>2. "blocks" \in DOMAIN Lower
    BY <1>1 DEF Lists, IsHex
  <2> QED BY <2>1, <2>2
<1> QED BY <1>2, <1>3, <1>4

LEMMA MergeAscends ==
    ASSUME Lists, BothRising, Merge, ~EndsAtTop(Lower)
    PROVE  SpansOf(hex) \cap SpansOf(other) = {} /\ Ascending(hex'.blocks)
<1> DEFINE f == Lower.blocks
           g == Upper.blocks
           e == Last(f).addr + Len32(Last(f))
<1>1. /\ Rising(f) /\ Rising(g) /\ f # << >> /\ g # << >>
      /\ End(Last(f)) <= g[1].addr /\ hex'.blocks = f \o g
  BY MergedLists
<1>2. (Lower = hex /\ Upper = other) \/ (Lower = other /\ Upper = hex)
  BY DEF Lower, Upper
<1>3. e <= g[1].addr /\ e \in Nat
  <2>1. End(Last(f)) = e /\ e \in Nat
    BY <1>1, RisingEnd
  <2> QED BY <1>1, <2>1
<1>4. SpansOf(hex) \cap SpansOf(other) = {}
  <2>1. ASSUME NEW x \in DOMAIN Image(f), x \in DOMAIN Image(g)
        PROVE  FALSE
    <3>1. x \in Nat /\ x < e
      BY <1>1, <2>1, RisingSpan
    <3>2. g[1].addr <= x
      BY <1>1, <2>1, RisingSpan
    <3>3. g[1].addr \in Nat
      <4>1. 1 \in 1 .. Len(g) /\ g \in Seq(BlockType)
        BY <1>1, LenProperties, EmptySeq DEF Rising
      <4> QED BY <4>1, ListBlocks DEF Address
    <3> HIDE DEF e
    <3> QED BY <1>3, <3>1, <3>2, <3>3
  <2>2. DOMAIN Image(f) \cap DOMAIN Image(g) = {}
    BY <2>1
  <2> QED BY <1>2, <2>2 DEF SpansOf
<1> HIDE DEF f, g
<1>5. Ascending(f \o g)
  <2> DEFINE l == Len(f)
             t == f \o g
  <2>1. /\ f \in Seq(BlockType) /\ g \in Seq(BlockType) /\ l \in Nat /\ Len(g) \in Nat
        /\ l > 0 /\ Last(f) = f[l]
    BY <1>1, LenProperties, EmptySeq DEF Rising, Last
  <2>2. Len(t) = l + Len(g) /\ \A i \in 1 .. l + Len(g) : t[i] = IF i <= l THEN f[i] ELSE g[i-l]
    BY <2>1, ConcatProperties
  <2>3. /\ \A i \in 1 .. l-1 : f[i].addr + Len32(f[i]) <= f[i+1].addr
        /\ \A i \in 1 .. Len(g)-1 : g[i].addr + Len32(g[i]) <= g[i+1].addr
    BY <1>1 DEF Rising, Ascending
  <2> HIDE DEF t, l
  <2>4. ASSUME NEW i \in 1 .. Len(t)-1
        PROVE  t[i].addr + Len32(t[i]) <= t[i+1].addr
    <3>1. CASE i < l
      <4>1. i \in 1 .. l-1 /\ t[i] = f[i] /\ t[i+1] = f[i+1]
        BY <2>1, <2>2, <3>1
      <4> QED BY <2>3, <4>1
    <3>2. CASE i = l
      <4>1. t[i] = f[l] /\ t[i+1] = g[1]
        BY <2>1, <2>2, <3>2
      <4> QED BY <1>3, <2>1, <4>1
    <3>3. CASE i > l
      <4> DEFINE j == i-l
      <4>1. j \in 1 .. Len(g)-1 /\ t[i] = g[j] /\ t[i+1] = g[j+1]
        <5>1. j \in 1 .. Len(g)-1 /\ i \in 1 .. l + Len(g) /\ i+1 \in 1 .. l + Len(g)
              /\ ~(i <= l) /\ ~(i+1 <= l) /\ (i+1)-l = j+1
          BY <2>1, <2>2, <3>3
        <5> QED BY <2>2, <5>1
      <4> HIDE DEF j
      <4> QED BY <2>3, <4>1
    <3> QED BY <2>1, <3>1, <3>2, <3>3
  <2> QED BY <2>4 DEF Ascending, t
<1> QED BY <1>1, <1>4, <1>5 DEF f, g

\* Behind a block that comes to the top of memory nothing is in order.
LEMMA MergeHidesOrder ==
    ASSUME Lists, BothRising, Merge, EndsAtTop(Lower)
    PROVE  ~Ascending(hex'.blocks)
<1> DEFINE f == Lower.blocks
           g == Upper.blocks
           l == Len(f)
           t == f \o g
<1>1. /\ Rising(f) /\ Rising(g) /\ f # << >> /\ g # << >>
      /\ hex'.blocks = f \o g
  BY MergedLists
<1>2. Last(f).addr + Len32(Last(f)) = W
  BY <1>1, RisingEnd
<1> HIDE DEF f, g
<1>3. /\ f \in Seq(BlockType) /\ g \in Seq(BlockType) /\ l \in Nat /\ Len(g) \in Nat
      /\ l > 0 /\ Len(g) > 0 /\ Last(f) = f[l]
  BY <1>1, LenProperties, EmptySeq DEF Rising, Last
<1>4. Len(t) = l + Len(g) /\ \A i \in 1 .. l + Len(g) : t[i] = IF i <= l THEN f[i] ELSE g[i-l]
  BY <1>3, ConcatProperties
<1>5. g[1].addr \in Address
  BY <1>3, ListBlocks
<1> HIDE DEF t, l
<1>6. t[l] = f[l] /\ t[l+1] = g[1] /\ l \in 1 .. Len(t)-1
  BY <1>3, <1>4
<1>7. ~(t[l].addr + Len32(t[l]) <= t[l+1].addr)
  <2>1. t[l].addr + Len32(t[l]) = W
    BY <1>2, <1>3, <1>6
  <2>2. ~(W <= t[l+1].addr)
    BY <1>5, <1>6, OutputSizes DEF Address
  <2> QED BY <2>1, <2>2
<1>8. ~Ascending(t)
  BY <1>6, <1>7 DEF Ascending
<1> QED BY <1>1, <1>8 DEF t

\* Until the two files are merged they are as they were read.
MInv == pc = "merge" => BothRising

LEMMA StepMInv ==
    ASSUME [Next]_vars, MInv
    PROVE  MInv'
<1>1. CASE UNCHANGED vars
  BY <1>1 DEF MInv, BothRising, vars
<1>2. CASE Next
  BY <1>2 DEF Next, MInv, MergeFails, MergeNothing, Merge, OutputRefused, OutputStarts,
              WriteRecord, WriteEnd
<1> QED BY <1>1, <1>2

\* A merged file ascends and no byte of it was claimed by both, exactly if the
\* file that IntelHexFileMerge puts first does not come to the top of memory,
\* where the end its comparisons use is 0 (intel.c:594-605).
THEOREM MergesApart == Spec => MergedAscends
<1> DEFINE A == Merge => (SpansOf(hex) \cap SpansOf(other) = {} /\ Ascending(hex'.blocks)
                            <=> ~EndsAtTop(Lower))
<1>1. ASSUME RInv, MInv
      PROVE  A
  <2>1. ASSUME Merge PROVE Lists /\ BothRising
    BY <1>1, <2>1 DEF RInv, MInv, Merge
  <2> QED BY <2>1, MergeAscends, MergeHidesOrder
<1>2. RInv /\ MInv /\ [Next]_vars => [A]_vars
  BY <1>1
<1>3. Init => MInv
  BY InitRising DEF MInv
<1> QED BY <1>2, <1>3, StepMInv, InitRInv, StepRInv, PTL DEF Spec, MergedAscends

-----------------------------------------------------------------------------
\* Reading the lines back, one by one.
ResultType == [how : {"added", "overlap", "crash", "malformed"}, hex : HexType]
Fresh == [how |-> "added", hex |-> EmptyHex]
ReadOn(r, line) == IF r.how = "added" THEN ParseOneLine(r.hex, line) ELSE r
RereadOf(o) == FoldLeft(LAMBDA r, line : IF r.how = "added" THEN ParseOneLine(r.hex, line) ELSE r,
                        Fresh, o)

LEMMA FreshType == Fresh \in ResultType
<1>1. << >> \in Seq(BlockType) /\ 0 \in {x \in Nat : x + S <= W} /\ 0 \in Int
  BY OutputSizes
<1> DEFINE B == {x \in Nat : x + S <= W}
<1> HIDE DEF B
<1>2. EmptyHex \in [blocks : Seq(BlockType), total : Int, eof : BOOLEAN,
                    mode : {"linear", "segmented"}, base : B, start : Int]
  BY <1>1 DEF EmptyHex, B
<1> QED BY <1>2 DEF Fresh, ResultType, HexType, B

\* What the lines that are written do to the file that is read.
LEMMA ParsedLines ==
    ASSUME NEW h \in HexType
    PROVE  /\ \A v : ParseOneLine(h, LinearBase(v))
                        = [how |-> "added", hex |-> [h EXCEPT !.base = v * S, !.mode = "linear"]]
           /\ \A v : ParseOneLine(h, StartLinear(v))
                        = [how |-> "added", hex |-> [h EXCEPT !.start = v]]
           /\ ParseOneLine(h, Line("eof")) = [how |-> "added", hex |-> [h EXCEPT !.eof = TRUE]]
<1>1. ASSUME NEW v
      PROVE  ParseOneLine(h, LinearBase(v))
                = [how |-> "added", hex |-> [h EXCEPT !.base = v * S, !.mode = "linear"]]
  <2>1. LinearBase(v).kind = "linearBase" /\ LinearBase(v).value = v
    BY DEF LinearBase
  <2> QED BY <2>1 DEF ParseOneLine, BaseOf
<1>2. ASSUME NEW v
      PROVE  ParseOneLine(h, StartLinear(v)) = [how |-> "added", hex |-> [h EXCEPT !.start = v]]
  <2>1. StartLinear(v).kind = "startLinear" /\ StartLinear(v).value = v
    BY DEF StartLinear
  <2> QED BY <2>1 DEF ParseOneLine
<1>3. ParseOneLine(h, Line("eof")) = [how |-> "added", hex |-> [h EXCEPT !.eof = TRUE]]
  <2>1. Line("eof").kind = "eof"
    BY DEF Line
  <2> QED BY <2>1 DEF ParseOneLine
<1> QED BY <1>1, <1>2, <1>3

LEMMA ParsedData ==
    ASSUME NEW h \in HexType, NEW line, line.kind = "data"
    PROVE  /\ h.mode = "linear" =>
                 ParseOneLine(h, line) = StoreLinear(h, line.field, line.data)
           /\ h.mode # "linear" => ParseOneLine(h, line) = [how |-> "added", hex |-> h]
<1>1. h.mode \in {"linear", "segmented"}
  BY DEF HexType
<1>2. CASE h.mode = "linear"
  BY <1>2 DEF ParseOneLine
<1>3. CASE h.mode = "segmented"
  BY <1>3 DEF ParseOneLine
<1> QED BY <1>1, <1>2, <1>3

LEMMA BaseFits ==
    ASSUME NEW v \in 0 .. Top
    PROVE  v * S \in Nat /\ v * S + S <= W
<1> DEFINE q == W \div S
<1>1. q \in Nat /\ W = S * q /\ v \in Nat /\ v + 1 <= q /\ S \in Nat
  BY Sizes DEF Top
<1> HIDE DEF q
<1>2. v * S + S = (v + 1) * S /\ v * S \in Nat
  BY <1>1
<1>3. (v + 1) * S <= q * S
  BY <1>1
<1> QED BY <1>1, <1>2, <1>3

LEMMA StoreLinearRecord ==
    ASSUME NEW h, NEW f, NEW d
    PROVE  LET r == StoreLinear(h, f, d) IN r = [how |-> r.how, hex |-> r.hex]
<1>1. ASSUME NEW g, NEW a, NEW e
      PROVE  Store(g, a, e) = [how |-> Store(g, a, e).how, hex |-> Store(g, a, e).hex]
  <2>1. \E x, y : Store(g, a, e) = [how |-> x, hex |-> y]
    BY Zenon DEF Store
  <2> QED BY <2>1
<1>2. \E g, a, e : StoreLinear(h, f, d) = Store(g, a, e)
  BY Zenon DEF StoreLinear
<1> QED BY <1>1, <1>2

LEMMA ReadOnType ==
    ASSUME NEW r \in ResultType, NEW line \in Wrote
    PROVE  ReadOn(r, line) \in ResultType
<1> DEFINE h == r.hex
<1>1. h \in HexType
  BY DEF ResultType
<1> SUFFICES ParseOneLine(h, line) \in ResultType
  BY DEF ReadOn
<1> HIDE DEF h
<1>2. CASE line \in [kind : {"linearBase"}, value : 0 .. Top]
  <2>1. line = LinearBase(line.value) /\ line.value \in 0 .. Top
    BY <1>2 DEF LinearBase
  <2>2. line.value * S \in Nat /\ line.value * S + S <= W
    BY <2>1, BaseFits
  <2>3. [h EXCEPT !.base = line.value * S, !.mode = "linear"] \in HexType
    BY <1>1, <2>2, HexUpdated
  <2>4. ParseOneLine(h, line)
           = [how |-> "added", hex |-> [h EXCEPT !.base = line.value * S, !.mode = "linear"]]
    <3>1. ParseOneLine(h, LinearBase(line.value))
               = [how |-> "added", hex |-> [h EXCEPT !.base = line.value * S, !.mode = "linear"]]
      BY <1>1, ParsedLines, Zenon
    <3> QED BY <2>1, <3>1, Zenon
  <2> QED BY <2>3, <2>4 DEF ResultType
<1>3. CASE line \in [kind : {"startLinear"}, value : Int]
  <2>1. line = StartLinear(line.value) /\ line.value \in Int
    BY <1>3 DEF StartLinear
  <2>2. [h EXCEPT !.start = line.value] \in HexType
    BY <1>1, <2>1 DEF HexType
  <2>3. ParseOneLine(h, line) = [how |-> "added", hex |-> [h EXCEPT !.start = line.value]]
    <3>1. ParseOneLine(h, StartLinear(line.value)) = [how |-> "added", hex |-> [h EXCEPT !.start = line.value]]
      BY <1>1, ParsedLines, Zenon
    <3> QED BY <2>1, <3>1, Zenon
  <2> QED BY <2>2, <2>3 DEF ResultType
<1>4. CASE line \in [kind : {"eof"}]
  <2>1. line = Line("eof")
    BY <1>4 DEF Line
  <2>2. [h EXCEPT !.eof = TRUE] \in HexType
    BY <1>1 DEF HexType
  <2>3. ParseOneLine(h, line) = [how |-> "added", hex |-> [h EXCEPT !.eof = TRUE]]
    <3>1. ParseOneLine(h, Line("eof")) = [how |-> "added", hex |-> [h EXCEPT !.eof = TRUE]]
      BY <1>1, ParsedLines, Zenon
    <3> QED BY <2>1, <3>1, Zenon
  <2> QED BY <2>2, <2>3 DEF ResultType
<1>5. CASE line \in [kind : {"data"}, field : 0 .. S-1, data : Seq(Int)]
  <2>1. line.kind = "data" /\ line.field \in 0 .. S-1 /\ line.data \in Seq(Int)
    BY <1>5
  <2>2. /\ h.mode = "linear" => ParseOneLine(h, line) = StoreLinear(h, line.field, line.data)
        /\ h.mode # "linear" => ParseOneLine(h, line) = [how |-> "added", hex |-> h]
    BY <1>1, <2>1, ParsedData
  <2>3. /\ StoreLinear(h, line.field, line.data).hex \in HexType
        /\ StoreLinear(h, line.field, line.data).how \in {"added", "overlap", "crash"}
    BY <1>1, <2>1, StoredLinear
  <2>4. StoreLinear(h, line.field, line.data) \in ResultType
    <3> DEFINE r1 == StoreLinear(h, line.field, line.data)
    <3>1. r1 = [how |-> r1.how, hex |-> r1.hex]
      BY StoreLinearRecord
    <3> HIDE DEF r1
    <3> QED BY <2>3, <3>1 DEF ResultType, r1
  <2> QED BY <1>1, <2>2, <2>4 DEF ResultType
<1> QED BY <1>2, <1>3, <1>4, <1>5 DEF Wrote

\* The results that the reading of the lines goes through.
Reads(p, o) == /\ p \in [0 .. Len(o) -> ResultType] /\ p[0] = Fresh
               /\ \A m \in 1 .. Len(o) : p[m] = ReadOn(p[m-1], o[m])

LEMMA RereadRuns ==
    ASSUME NEW o \in Seq(Wrote)
    PROVE  \E p : Reads(p, o) /\ RereadOf(o) = p[Len(o)]
<1> DEFINE n == Len(o)
           g == [m \in 1 .. n |-> [x \in ResultType |-> ReadOn(x, o[m])]]
           Next1(h) == [s \in SUBSET DOMAIN o |->
                          IF s = {} THEN Fresh
                          ELSE IF h[s \ {Max(s)}].how = "added"
                                 THEN ParseOneLine(h[s \ {Max(s)}].hex, o[Max(s)])
                                 ELSE h[s \ {Max(s)}]]
           it == CHOOSE h : h = Next1(h)
<1>1. n \in Nat /\ DOMAIN o = 1 .. n /\ \A m \in 1 .. n : o[m] \in Wrote
  BY LenProperties, ElementOfSeq
<1>2. g \in [1 .. n -> [ResultType -> ResultType]]
  BY <1>1, ReadOnType
<1>3. \A m \in 1 .. n : \A x \in ResultType : g[m][x] = ReadOn(x, o[m])
  OBVIOUS
<1> HIDE DEF g, n
<1>4. PICK f \in [SUBSET (1 .. n) -> ResultType] : IsFold(f, n, Fresh, g)
  BY <1>1, <1>2, FreshType, FoldExists
<1>5. PICK p \in [0 .. n -> ResultType] : Runs(p, n, Fresh, g)
  BY <1>1, <1>2, FreshType, FoldPrefix
<1>6. p[0] = Fresh /\ \A m \in 1 .. n : p[m] = g[m][p[m-1]]
  BY <1>5 DEF Runs
<1>7. f = Next1(f)
  <2>1. \A s \in SUBSET (1 .. n) :
           f[s] = IF s = {} THEN Fresh
                  ELSE IF f[s \ {Max(s)}].how = "added"
                         THEN ParseOneLine(f[s \ {Max(s)}].hex, o[Max(s)])
                         ELSE f[s \ {Max(s)}]
    <3> SUFFICES ASSUME NEW s \in SUBSET (1 .. n), s # {}
                 PROVE  f[s] = ReadOn(f[s \ {Max(s)}], o[Max(s)])
      BY <1>4 DEF IsFold, ReadOn
    <3> DEFINE x == Max(s)
    <3>1. x \in 1 .. n
      BY <1>1, MaxIsGreatest
    <3>2. f[s] = g[x][f[s \ {x}]]
      BY <1>4 DEF IsFold
    <3> HIDE DEF x
    <3>3. f[s \ {x}] \in ResultType
      <4>1. s \ {x} \in SUBSET (1 .. n)
        OBVIOUS
      <4> QED BY <4>1
    <3>4. f[s] = ReadOn(f[s \ {x}], o[x])
      BY <1>3, <3>1, <3>2, <3>3
    <3> QED BY <3>4 DEF x
  <2> QED BY <1>1, <2>1
<1>8. it = Next1(it)
  <2> HIDE DEF Next1
  <2> QED BY <1>7, Zenon
<1>9. RereadOf(o) = it[1 .. n]
  BY <1>1, Zenon DEF RereadOf, FoldLeft, MapThenFoldSet
<1> HIDE DEF it
<1>10. ASSUME NEW s \in SUBSET (1 .. n)
      PROVE  it[s] = IF s = {} THEN Fresh ELSE ReadOn(it[s \ {Max(s)}], o[Max(s)])
  BY <1>1, <1>8 DEF ReadOn
<1>11. \A m \in 0 .. n : m \in {k \in 0 .. n : it[1 .. k] = p[k]}
  <2> DEFINE T == {k \in 0 .. n : it[1 .. k] = p[k]}
  <2>1. 0 \in T
    <3>1. 1 .. 0 = {} /\ {} \in SUBSET (1 .. n)
      OBVIOUS
    <3>2. it[{}] = Fresh
      BY <1>10, <3>1
    <3> QED BY <1>1, <1>6, <3>1, <3>2
  <2>2. ASSUME NEW m \in 1 .. n, m-1 \in T
        PROVE  m \in T
    <3> DEFINE s == 1 .. m
    <3>1. /\ m \in Nat \ {0} /\ m-1 \in 0 .. n /\ m \in 0 .. n /\ m \in s /\ s # {}
          /\ s \in SUBSET (1 .. n)
      <4>1. m \in Nat \ {0} /\ m-1 \in 0 .. n /\ m \in 0 .. n /\ m \in s
        BY <1>1
      <4>2. s \in SUBSET (1 .. n)
        BY <1>1
      <4> QED BY <4>1, <4>2
    <3>2. s \ {m} = 1 .. m-1
      OBVIOUS
    <3>3. Max(s) = m
      <4>1. Max(s) \in s /\ \A y \in s : y <= Max(s)
        <5> HIDE DEF s
        <5> QED BY <1>1, <3>1, MaxIsGreatest
      <4>2. m <= Max(s)
        BY <3>1, <4>1
      <4> QED BY <3>1, <4>1, <4>2
    <3> HIDE DEF s
    <3>4. it[s] = ReadOn(it[1 .. m-1], o[m])
      BY <1>10, <3>1, <3>2, <3>3
    <3>5. it[1 .. m-1] = p[m-1] /\ p[m-1] \in ResultType
      BY <2>2, <3>1
    <3>6. p[m] = ReadOn(p[m-1], o[m])
      BY <1>3, <1>6, <3>5
    <3> QED BY <3>1, <3>4, <3>5, <3>6 DEF s
  <2> HIDE DEF T
  <2>3. T \in SUBSET (0 .. n)
    BY DEF T
  <2>4. \A m \in 0 .. n : m \in T
    BY <1>1, <2>1, <2>2, <2>3, Stepwise
  <2> QED BY <2>4 DEF T
<1>12. Reads(p, o)
  <2>1. ASSUME NEW m \in 1 .. n
        PROVE  p[m] = ReadOn(p[m-1], o[m])
    <3>1. p[m-1] \in ResultType
      BY <1>1
    <3> QED BY <1>3, <1>6, <3>1
  <2> QED BY <1>6, <2>1 DEF Reads, n
<1>13. n \in 0 .. n
  BY <1>1
<1>14. RereadOf(o) = p[n]
  BY <1>9, <1>11, <1>13
<1> QED BY <1>12, <1>14 DEF n

\* Nothing is read of no lines; a line more is read on.
LEMMA RereadNone == RereadOf(<< >>) = Fresh
<1>1. << >> \in Seq(Wrote) /\ Len(<< >>) = 0
  OBVIOUS
<1> QED BY <1>1, RereadRuns DEF Reads

LEMMA RereadMore ==
    ASSUME NEW o \in Seq(Wrote), NEW line \in Wrote
    PROVE  /\ RereadOf(o) \in ResultType
           /\ RereadOf(Append(o, line)) = ReadOn(RereadOf(o), line)
<1> DEFINE t == Append(o, line)
           n == Len(o)
<1>1. /\ n \in Nat /\ t \in Seq(Wrote) /\ Len(t) = n+1 /\ t[n+1] = line
      /\ \A m \in 1 .. n : t[m] = o[m]
  BY AppendProperties, LenProperties
<1>2. PICK p : Reads(p, o) /\ RereadOf(o) = p[n]
  BY RereadRuns
<1> HIDE DEF t, n
<1>3. PICK q : Reads(q, t) /\ RereadOf(t) = q[n+1]
  BY <1>1, RereadRuns
<1>4. /\ p \in [0 .. n -> ResultType] /\ p[0] = Fresh
      /\ \A m \in 1 .. n : p[m] = ReadOn(p[m-1], o[m])
  BY <1>2 DEF Reads, n
<1>5. q[0] = Fresh /\ \A m \in 1 .. n+1 : q[m] = ReadOn(q[m-1], t[m])
  BY <1>1, <1>3 DEF Reads
<1>6. p[n] = q[n]
  <2> DEFINE T == {m \in 0 .. n : p[m] = q[m]}
  <2>1. 0 \in T
    BY <1>1, <1>4, <1>5
  <2>2. ASSUME NEW m \in 1 .. n, m-1 \in T
        PROVE  m \in T
    <3>1. p[m-1] = q[m-1] /\ m \in 1 .. n+1 /\ m \in 0 .. n
      BY <1>1, <2>2
    <3>2. p[m] = ReadOn(p[m-1], o[m]) /\ q[m] = ReadOn(q[m-1], o[m])
      BY <1>1, <1>4, <1>5, <3>1
    <3> QED BY <3>1, <3>2
  <2> HIDE DEF T
  <2>3. T \in SUBSET (0 .. n)
    BY DEF T
  <2>4. \A m \in 0 .. n : m \in T
    BY <1>1, <2>1, <2>2, <2>3, Stepwise
  <2> QED BY <1>1, <2>4 DEF T
<1>7. n \in 0 .. n /\ n+1 \in 1 .. n+1 /\ (n+1)-1 = n
  BY <1>1
<1>8. q[n+1] = ReadOn(q[n], line)
  BY <1>1, <1>5, <1>7
<1> QED BY <1>2, <1>3, <1>4, <1>6, <1>7, <1>8 DEF t

-----------------------------------------------------------------------------
\* The bytes lo .. hi-1 of a memory in which each byte is told apart by its
\* address.
Pairs(lo, hi) == {<<x, x>> : x \in lo .. hi-1}

LEMMA PairsOf ==
    ASSUME NEW a \in Nat, NEW d \in Seq(Int), a + Len(d) <= W,
           \A i \in 1 .. Len(d) : d[i] = a + i - 1
    PROVE  BytesOf(Block(a, d)) = Pairs(a, a + Len(d))
<1> DEFINE n == Len(d)
           b == Block(a, d)
<1>1. n \in Nat /\ b.addr = a /\ b.data = d /\ Len32(b) = n /\ W \in Nat \ {0}
  BY OutputSizes, LenProperties DEF Block, Len32
<1>2. \A k \in 0 .. n-1 : (a + k) % W = a + k /\ d[k+1] = a + k
  <2> SUFFICES ASSUME NEW k \in 0 .. n-1 PROVE (a + k) % W = a + k /\ d[k+1] = a + k
    OBVIOUS
  <2>1. a + k \in 0 .. W-1 /\ k+1 \in 1 .. n
    BY <1>1
  <2>2. (a + k) % W = a + k
    BY <1>1, <2>1, WrapSmall
  <2>3. d[k+1] = a + (k+1) - 1
    BY <2>1
  <2> QED BY <1>1, <2>2, <2>3
<1>3. BytesOf(b) = {<<(a + k) % W, d[k+1]>> : k \in 0 .. n-1}
  BY <1>1 DEF BytesOf
<1> HIDE DEF b, n
<1>4. \A k \in 0 .. n-1 : a + k \in a .. (a + n)-1
  BY <1>1
<1>5. \A x \in a .. (a + n)-1 : x - a \in 0 .. n-1 /\ a + (x - a) = x
  BY <1>1
<1>6. BytesOf(b) \subseteq Pairs(a, a + n)
  <2> SUFFICES ASSUME NEW k \in 0 .. n-1
               PROVE  <<(a + k) % W, d[k+1]>> \in Pairs(a, a + n)
    BY <1>3
  <2>1. <<(a + k) % W, d[k+1]>> = <<a + k, a + k>>
    BY <1>2
  <2> QED BY <1>4, <2>1 DEF Pairs
<1>7. Pairs(a, a + n) \subseteq BytesOf(b)
  <2> SUFFICES ASSUME NEW x \in a .. (a + n)-1
               PROVE  <<x, x>> \in BytesOf(b)
    BY DEF Pairs
  <2> DEFINE k == x - a
  <2>1. k \in 0 .. n-1 /\ a + k = x
    BY <1>5
  <2> HIDE DEF k
  <2>2. <<(a + k) % W, d[k+1]>> = <<x, x>>
    BY <1>2, <2>1
  <2> QED BY <1>3, <2>1, <2>2
<1> QED BY <1>6, <1>7 DEF b, n

\* A part of a block that was read.
LEMMA PartOf ==
    ASSUME NEW b \in BlockType, WasReadBlock(b), NEW k \in Nat, NEW n \in Nat,
           k + n <= Len32(b)
    PROVE  LET d == SubSeq(b.data, k+1, k+n)
           IN  /\ d \in Seq(Int) /\ Len(d) = n
               /\ b.addr + k \in Nat /\ (b.addr + k) + n <= W
               /\ BytesOf(Block(b.addr + k, d)) = Pairs(b.addr + k, (b.addr + k) + n)
<1> DEFINE d == SubSeq(b.data, k+1, k+n)
           l == Len32(b)
           a == b.addr
<1>1. /\ a \in Nat /\ l \in Nat /\ W \in Nat /\ b.data \in Seq(Int) /\ Len(b.data) = l
      /\ a + l <= W /\ b.data = BytesAt(a, l)
  BY OutputSizes, LenProperties DEF BlockType, Address, WasReadBlock, Len32
<1>2. d \in Seq(Int) /\ Len(d) = n /\ \A i \in 1 .. n : d[i] = b.data[k+i]
  <2>1. k+1 \in 1 .. l+1 /\ k+n \in k .. l
    BY <1>1
  <2> HIDE DEF l
  <2> QED BY <1>1, <2>1
<1> HIDE DEF d
<1>3. \A i \in 1 .. n : d[i] = (a + k) + i - 1
  <2> SUFFICES ASSUME NEW i \in 1 .. n PROVE d[i] = (a + k) + i - 1
    OBVIOUS
  <2>1. k+i \in 1 .. l
    BY <1>1
  <2>2. b.data[k+i] = a + (k+i) - 1
    BY <1>1, <2>1 DEF BytesAt
  <2>3. d[i] = b.data[k+i]
    BY <1>2
  <2>4. a + (k+i) - 1 = (a + k) + i - 1
    <3>1. a \in Nat
      BY <1>1
    <3> HIDE DEF a
    <3> QED BY <3>1
  <2> QED BY <2>2, <2>3, <2>4
<1> HIDE DEF a, l
<1>4. a + k \in Nat /\ (a + k) + n <= W
  BY <1>1 DEF l
<1>5. BytesOf(Block(a + k, d)) = Pairs(a + k, (a + k) + n)
  BY <1>2, <1>3, <1>4, PairsOf
<1> QED BY <1>2, <1>4, <1>5 DEF d, a

LEMMA WholeOf ==
    ASSUME NEW b \in BlockType, WasReadBlock(b)
    PROVE  BytesOf(b) = Pairs(b.addr, b.addr + Len32(b))
<1>1. /\ b = Block(b.addr, b.data) /\ b.addr \in Nat /\ b.data \in Seq(Int)
      /\ Len32(b) = Len(b.data) /\ Len32(b) \in Nat
  BY LenProperties DEF Block, BlockType, Address, Len32
<1>2. \A i \in 1 .. Len(b.data) : b.data[i] = b.addr + i - 1
  BY <1>1 DEF WasReadBlock, BytesAt
<1>3. b.addr + Len(b.data) <= W
  BY <1>1 DEF WasReadBlock
<1>4. BytesOf(Block(b.addr, b.data)) = Pairs(b.addr, b.addr + Len(b.data))
  BY <1>1, <1>2, <1>3, PairsOf
<1> QED BY <1>1, <1>4

LEMMA PairsJoin ==
    ASSUME NEW lo \in Nat, NEW mid \in Nat, NEW hi \in Nat, lo <= mid, mid <= hi
    PROVE  Pairs(lo, mid) \cup Pairs(mid, hi) = Pairs(lo, hi)
<1>1. (lo .. mid-1) \cup (mid .. hi-1) = lo .. hi-1
  OBVIOUS
<1>2. Pairs(lo, mid) \cup Pairs(mid, hi) = {<<x, x>> : x \in (lo .. mid-1) \cup (mid .. hi-1)}
  BY DEF Pairs
<1> QED BY <1>1, <1>2 DEF Pairs

\* Storing changes the blocks and their length only.
SameState(g, h) == g.mode = h.mode /\ g.base = h.base /\ g.eof = h.eof /\ g.start = h.start

LEMMA StoreKeeps ==
    ASSUME NEW h \in HexType, NEW a \in Address, NEW d \in Seq(Int)
    PROVE  SameState(Store(h, a, d).hex, h)
<1> DEFINE s == AddBlock(h.blocks, a, d)
           g == [h EXCEPT !.blocks = s.blocks, !.total = (@ + Len(d)) % W]
<1>1. Store(h, a, d).hex = IF s.how = "added" THEN g ELSE h
  BY Zenon DEF Store
<1> HIDE DEF s
<1>2. SameState(g, h) /\ SameState(h, h)
  BY DEF HexType, SameState
<1> HIDE DEF g
<1> QED BY <1>1, <1>2

\* A data record at the end of what was read, or above it, is always taken in.
LEMMA TakesIn ==
    ASSUME NEW h \in HexType, h.mode = "linear", NEW f \in 0 .. S-1,
           NEW d \in Seq(Int), d # << >>, NEW a, a = h.base + f, a + Len(d) <= W,
           h.blocks = << >> \/ End(Last(h.blocks)) <= a
    PROVE  LET r == ParseOneLine(h, DataLine(f, d))
           IN  /\ r.how = "added" /\ r.hex \in HexType /\ SameState(r.hex, h)
               /\ r.hex.total = (h.total + Len(d)) % W
               /\ Bytes(r.hex.blocks) = Bytes(h.blocks) \cup BytesOf(Block(a, d))
               /\ r.hex.blocks # << >> /\ End(Last(r.hex.blocks)) = (a + Len(d)) % W
<1> DEFINE line == DataLine(f, d)
           r == ParseOneLine(h, line)
           s == AddBlock(h.blocks, a, d)
<1>1. line.kind = "data" /\ line.field = f /\ line.data = d
  BY DEF DataLine
<1> HIDE DEF line
<1>2. r = StoreLinear(h, f, d)
  BY <1>1, ParsedData
<1> HIDE DEF r
<1>3. a \in Address /\ StoreLinear(h, f, d) = Store(h, a, d)
  BY StoredLinear
<1>4. r = Store(h, a, d)
  BY <1>2, <1>3
<1>5. h.blocks \in Seq(BlockType)
  BY DEF HexType
<1>6. s.how = "added" /\ s.blocks # << >> /\ End(Last(s.blocks)) = (a + Len(d)) % W
  BY <1>3, <1>5, StoredAtTail
<1> HIDE DEF s
<1>7. /\ r.hex \in HexType /\ r.how = s.how
      /\ r.how = "added" =>
            /\ Bytes(r.hex.blocks) = Bytes(h.blocks) \cup BytesOf(Block(a, d))
            /\ r.hex.blocks = s.blocks
            /\ r.hex.total = (h.total + Len(d)) % W
  BY <1>3, <1>4, StoredBytes DEF s
<1>8. SameState(r.hex, h)
  BY <1>3, <1>4, StoreKeeps
<1> QED BY <1>6, <1>7, <1>8 DEF r, line

\* What one turn of the loop writes, read after all that was written before.
LEMMA RecordLoaded ==
    ASSUME NEW o \in Seq(Wrote), RereadOf(o).how = "added", RereadOf(o).hex.mode = "linear",
           NEW a \in Address, NEW d \in Seq(Int), d # << >>, a + Len(d) <= W,
           DataLine(a % S, d) \in Wrote,
           NEW B, B = <<LinearBase(a \div S)>>
                  \/ (B = << >> /\ RereadOf(o).hex.base = (a \div S) * S),
           RereadOf(o).hex.blocks = << >> \/ End(Last(RereadOf(o).hex.blocks)) <= a
    PROVE  LET h == RereadOf(o).hex
               r == RereadOf(o \o B \o <<DataLine(a % S, d)>>)
           IN  /\ r.how = "added" /\ r.hex.mode = "linear" /\ r.hex.base = (a \div S) * S
               /\ r.hex.eof = h.eof /\ r.hex.start = h.start
               /\ r.hex.total = (h.total + Len(d)) % W
               /\ Bytes(r.hex.blocks) = Bytes(h.blocks) \cup BytesOf(Block(a, d))
               /\ r.hex.blocks # << >> /\ End(Last(r.hex.blocks)) = (a + Len(d)) % W
<1> DEFINE u == a \div S
           f == a % S
           x == DataLine(f, d)
           h == RereadOf(o).hex
<1>1. u \in 0 .. Top /\ f \in 0 .. S-1 /\ a = u * S + f
  <2>1. u \in 0 .. Top
    BY SegmentNumber
  <2>2. a \in Nat /\ S \in Nat \ {0}
    BY OutputSizes DEF Address
  <2>3. f \in 0 .. S-1 /\ a = S * u + f /\ u \in Nat
    BY <2>2, Division
  <2> HIDE DEF u, f
  <2> QED BY <2>1, <2>2, <2>3
<1> HIDE DEF u, f
<1>2. x \in Wrote /\ LinearBase(u) \in Wrote
  BY <1>1 DEF LinearBase, Wrote, f
<1>3. h \in HexType
  BY <1>2, RereadMore DEF ResultType
<1>4. (o \o B) \in Seq(Wrote) /\ RereadOf(o \o B).how = "added"
      /\ LET g == RereadOf(o \o B).hex
         IN  /\ g \in HexType /\ g.mode = "linear" /\ g.base = u * S
             /\ g.eof = h.eof /\ g.start = h.start /\ g.total = h.total /\ g.blocks = h.blocks
  <2>1. CASE B = << >> /\ h.base = u * S
    <3>1. o \o B = o
      BY <2>1
    <3> HIDE DEF h
    <3> QED BY <1>3, <2>1, <3>1 DEF h
  <2>2. CASE B = <<LinearBase(u)>>
    <3> DEFINE t == o \o B
               g == [h EXCEPT !.base = u * S, !.mode = "linear"]
    <3>1. t = Append(o, LinearBase(u)) /\ t \in Seq(Wrote)
      <4>1. o \o <<LinearBase(u)>> = Append(o, LinearBase(u))
        BY <1>2
      <4>2. Append(o, LinearBase(u)) \in Seq(Wrote)
        BY <1>2, AppendProperties
      <4> QED BY <2>2, <4>1, <4>2
    <3> HIDE DEF t
    <3>2. RereadOf(t) = ReadOn(RereadOf(o), LinearBase(u))
      BY <1>2, <3>1, RereadMore
    <3>3. RereadOf(t) = ParseOneLine(h, LinearBase(u))
      BY <3>2 DEF ReadOn
    <3> HIDE DEF h
    <3>4. ParseOneLine(h, LinearBase(u)) = [how |-> "added", hex |-> g]
      BY <1>3, ParsedLines, Zenon
    <3>5. /\ g \in HexType /\ g.mode = "linear" /\ g.base = u * S
          /\ g.eof = h.eof /\ g.start = h.start /\ g.total = h.total /\ g.blocks = h.blocks
      <4>1. u * S \in Nat /\ u * S + S <= W
        BY <1>1, BaseFits
      <4>2. g \in HexType
        BY <1>3, <4>1, HexUpdated
      <4> QED BY <1>3, <4>2 DEF HexType
    <3> HIDE DEF g
    <3>6. RereadOf(t).how = "added" /\ RereadOf(t).hex = g
      BY <3>3, <3>4
    <3> QED BY <3>1, <3>5, <3>6 DEF t
  <2> QED BY <2>1, <2>2 DEF u, h
<1> DEFINE t == o \o B
           g == RereadOf(t).hex
<1>5. RereadOf(t \o <<x>>) = ParseOneLine(g, x)
  <2>1. t \in Seq(Wrote) /\ RereadOf(t).how = "added"
    BY <1>4
  <2> HIDE DEF t, x
  <2>2. t \o <<x>> = Append(t, x)
    BY <1>2, <2>1
  <2>3. RereadOf(Append(t, x)) = ReadOn(RereadOf(t), x)
    BY <1>2, <2>1, RereadMore
  <2> QED BY <2>1, <2>2, <2>3 DEF ReadOn
<1>6. /\ g \in HexType /\ g.mode = "linear" /\ g.base = u * S
      /\ g.eof = h.eof /\ g.start = h.start /\ g.total = h.total /\ g.blocks = h.blocks
  BY <1>4
<1>7. a = g.base + f
  BY <1>1, <1>6
<1>8. g.blocks = << >> \/ End(Last(g.blocks)) <= a
  BY <1>6
<1> HIDE DEF g, h
<1> DEFINE r == ParseOneLine(g, x)
<1>9. /\ r.how = "added" /\ r.hex \in HexType /\ SameState(r.hex, g)
      /\ r.hex.total = (g.total + Len(d)) % W
      /\ Bytes(r.hex.blocks) = Bytes(g.blocks) \cup BytesOf(Block(a, d))
      /\ r.hex.blocks # << >> /\ End(Last(r.hex.blocks)) = (a + Len(d)) % W
  <2>1. f \in 0 .. S-1 /\ g \in HexType /\ g.mode = "linear" /\ d # << >> /\ a + Len(d) <= W
    BY <1>1, <1>6
  <2> QED BY <1>7, <1>8, <2>1, TakesIn, ZenonT(40)
<1> HIDE DEF r
<1>10. /\ r.how = "added" /\ r.hex.mode = "linear" /\ r.hex.base = u * S
       /\ r.hex.eof = h.eof /\ r.hex.start = h.start
       /\ r.hex.total = (h.total + Len(d)) % W
       /\ Bytes(r.hex.blocks) = Bytes(h.blocks) \cup BytesOf(Block(a, d))
       /\ r.hex.blocks # << >> /\ End(Last(r.hex.blocks)) = (a + Len(d)) % W
  BY <1>6, <1>9 DEF SameState
<1>11. RereadOf(o \o B \o <<x>>) = r
  BY <1>5 DEF r, t
<1> QED BY <1>10, <1>11 DEF u, f, x, h

-----------------------------------------------------------------------------
\* What is written: each block begins at or above the end of the one before,
\* which is 0 for one that comes to the top of memory.
Chain(bs) == /\ bs \in Seq(BlockType)
             /\ \A i \in 1 .. Len(bs) : WasReadBlock(bs[i])
             /\ \A i \in 1 .. Len(bs)-1 : End(bs[i]) <= bs[i+1].addr

LEMMA EndBelow ==
    ASSUME NEW b \in BlockType
    PROVE  End(b) \in Nat /\ End(b) <= b.addr + Len32(b)
<1> DEFINE x == b.addr + Len32(b)
<1>1. x \in Nat /\ W \in Nat \ {0}
  BY OutputSizes, LenProperties DEF BlockType, Address, Len32
<1> HIDE DEF x
<1>2. x % W \in Nat /\ x % W <= x
  BY <1>1
<1> QED BY <1>2 DEF End, x

LEMMA RisingChain ==
    ASSUME NEW bs, Rising(bs)
    PROVE  Chain(bs)
<1>1. bs \in Seq(BlockType) /\ \A i \in 1 .. Len(bs) : WasReadBlock(bs[i])
  BY DEF Rising
<1>2. ASSUME NEW i \in 1 .. Len(bs)-1
      PROVE  End(bs[i]) <= bs[i+1].addr
  <2>1. i \in 1 .. Len(bs) /\ i+1 \in 1 .. Len(bs)
    BY <1>1, LenProperties
  <2>2. bs[i].addr + Len32(bs[i]) <= bs[i+1].addr
    BY DEF Rising, Ascending
  <2>3. bs[i] \in BlockType /\ bs[i+1].addr \in Nat /\ bs[i].addr + Len32(bs[i]) \in Nat
    <3>1. \A m \in 1 .. Len(bs) :
             bs[m] \in BlockType /\ bs[m].addr \in 0 .. W-1 /\ Len32(bs[m]) \in Nat
      BY <1>1, ListBlocks DEF Address
    <3>2. /\ bs[i] \in BlockType /\ bs[i].addr \in 0 .. W-1 /\ Len32(bs[i]) \in Nat
          /\ bs[i+1].addr \in 0 .. W-1
      BY <2>1, <3>1
    <3> QED BY <3>2
  <2>4. End(bs[i]) \in Nat /\ End(bs[i]) <= bs[i].addr + Len32(bs[i])
    BY <2>3, EndBelow
  <2> QED BY <2>2, <2>3, <2>4
<1> QED BY <1>1, <1>2 DEF Chain

LEMMA ChainConcat ==
    ASSUME NEW f, NEW g, Chain(f), Chain(g), f # << >>, g # << >>,
           End(Last(f)) <= g[1].addr
    PROVE  Chain(f \o g)
<1> DEFINE l == Len(f)
           n == Len(g)
           t == f \o g
<1>1. /\ f \in Seq(BlockType) /\ g \in Seq(BlockType) /\ l \in Nat /\ n \in Nat
      /\ l > 0 /\ Last(f) = f[l]
  BY LenProperties, EmptySeq DEF Chain, Last
<1>2. /\ Len(t) = l + n /\ t \in Seq(BlockType)
      /\ \A i \in 1 .. l + n : t[i] = IF i <= l THEN f[i] ELSE g[i-l]
  BY <1>1, ConcatProperties
<1>3. /\ \A i \in 1 .. l : WasReadBlock(f[i])
      /\ \A i \in 1 .. n : WasReadBlock(g[i])
      /\ \A i \in 1 .. l-1 : End(f[i]) <= f[i+1].addr
      /\ \A i \in 1 .. n-1 : End(g[i]) <= g[i+1].addr
  BY DEF Chain
<1>4. n > 0
  BY <1>1, EmptySeq
<1> HIDE DEF t, l, n
<1>5. ASSUME NEW i \in 1 .. l + n
      PROVE  WasReadBlock(t[i])
  <2>1. CASE i <= l
    <3>1. i \in 1 .. l /\ t[i] = f[i]
      BY <1>1, <1>2, <2>1
    <3> QED BY <1>3, <3>1
  <2>2. CASE ~(i <= l)
    <3>1. i-l \in 1 .. n /\ t[i] = g[i-l]
      BY <1>1, <1>2, <2>2
    <3> QED BY <1>3, <3>1
  <2> QED BY <2>1, <2>2
<1>6. ASSUME NEW i \in 1 .. (l + n)-1
      PROVE  End(t[i]) <= t[i+1].addr
  <2>1. i \in 1 .. l + n /\ i+1 \in 1 .. l + n
    BY <1>1
  <2>2. CASE i < l
    <3>1. i \in 1 .. l-1 /\ t[i] = f[i] /\ t[i+1] = f[i+1]
      BY <1>1, <1>2, <2>1, <2>2
    <3> QED BY <1>3, <3>1
  <2>3. CASE i = l
    <3>1. t[i] = f[l] /\ t[i+1] = g[1]
      BY <1>1, <1>2, <2>1, <2>3
    <3> QED BY <1>1, <3>1
  <2>4. CASE i > l
    <3> DEFINE j == i-l
    <3>1. j \in 1 .. n-1 /\ t[i] = g[j] /\ t[i+1] = g[j+1]
      <4>1. j \in 1 .. n-1 /\ ~(i <= l) /\ ~(i+1 <= l) /\ (i+1)-l = j+1
        BY <1>1, <2>4
      <4> QED BY <1>2, <2>1, <4>1
    <3> HIDE DEF j
    <3> QED BY <1>3, <3>1
  <2> QED BY <1>1, <2>2, <2>3, <2>4
<1> QED BY <1>2, <1>5, <1>6 DEF Chain, t

\* The lists as they are written, and their lengths.
WInv == /\ Chain(hex.blocks) /\ hex.total = LengthOf(hex.blocks)
        /\ pc = "merge" => other.total = LengthOf(other.blocks)

LEMMA InitWInv == Init => WInv
<1> SUFFICES ASSUME Init PROVE WInv
  OBVIOUS
<1> DEFINE one == <<Block(0, <<0>>)>>
<1>1. \A bs : Read(bs).blocks = bs /\ Read(bs).total = LengthOf(bs)
  BY DEF Read, EmptyHex
<1>2. /\ hex \in {Read(bs) : bs \in ReadLists(MaxBlocks, Lengths)}
         \/ hex = [Read(one) EXCEPT !.eof = FALSE]
      /\ other \in {Read(bs) : bs \in ReadLists(1, Lengths)}
         \/ other = [Read(one) EXCEPT !.mode = "segmented"]
  BY DEF Init
<1> HIDE DEF one
<1>3. hex.total = LengthOf(hex.blocks)
  <2>1. CASE hex \in {Read(bs) : bs \in ReadLists(MaxBlocks, Lengths)}
    BY <1>1, <2>1
  <2>2. CASE hex = [Read(one) EXCEPT !.eof = FALSE]
    <3>1. hex.total = Read(one).total /\ hex.blocks = Read(one).blocks
      BY <2>2 DEF Read, EmptyHex
    <3> QED BY <1>1, <3>1
  <2> QED BY <1>2, <2>1, <2>2
<1>4. other.total = LengthOf(other.blocks)
  <2>1. CASE other \in {Read(bs) : bs \in ReadLists(1, Lengths)}
    BY <1>1, <2>1
  <2>2. CASE other = [Read(one) EXCEPT !.mode = "segmented"]
    <3>1. other.total = Read(one).total /\ other.blocks = Read(one).blocks
      BY <2>2 DEF Read, EmptyHex
    <3> QED BY <1>1, <3>1
  <2> QED BY <1>2, <2>1, <2>2
<1>5. Chain(hex.blocks)
  BY InitRising, RisingChain DEF BothRising
<1> QED BY <1>3, <1>4, <1>5 DEF WInv

LEMMA MergeWInv ==
    ASSUME RInv, MInv, WInv, Merge
    PROVE  WInv'
<1> DEFINE f == Lower.blocks
           g == Upper.blocks
<1>1. pc = "merge" /\ pc' # "merge"
  BY DEF Merge
<1>2. /\ Rising(f) /\ Rising(g) /\ f # << >> /\ g # << >>
      /\ End(Last(f)) <= g[1].addr /\ hex'.blocks = f \o g
  BY <1>1, MergedLists DEF RInv, MInv
<1>3. Chain(f \o g)
  <2>1. Chain(f) /\ Chain(g)
    BY <1>2, RisingChain
  <2> HIDE DEF f, g
  <2> QED BY <1>2, <2>1, ChainConcat
<1>4. Lower.total = LengthOf(f) /\ Upper.total = LengthOf(g)
  BY <1>1 DEF WInv, Lower, Upper
<1>5. hex'.total = (Lower.total + Upper.total) % W
  <2>1. hex' = [Lower EXCEPT !.blocks = Lower.blocks \o Upper.blocks,
                             !.total = (Lower.total + Upper.total) % W, !.start = NoStart]
    BY DEF Merge
  <2>2. "total" \in DOMAIN Lower
    BY DEF RInv, Lists, IsHex, Lower
  <2> QED BY <2>1, <2>2
<1>6. LengthOf(f \o g) = (LengthOf(f) + LengthOf(g)) % W
  <2>1. f \in Seq(BlockType) /\ g \in Seq(BlockType)
    BY <1>2 DEF Rising
  <2> HIDE DEF f, g
  <2> QED BY <2>1, ConcatLength
<1> HIDE DEF f, g
<1> QED BY <1>1, <1>2, <1>3, <1>4, <1>5, <1>6 DEF WInv

LEMMA StepWInv ==
    ASSUME RInv, MInv, WInv, [Next]_vars
    PROVE  WInv'
<1>1. CASE Merge
  BY <1>1, MergeWInv
<1>2. CASE UNCHANGED <<hex, other>> /\ (pc' = "merge" => pc = "merge")
  BY <1>2 DEF WInv
<1> QED BY <1>1, <1>2 DEF Next, vars, MergeFails, MergeNothing, OutputRefused, OutputStarts,
                          WriteRecord, WriteEnd

-----------------------------------------------------------------------------
\* The bytes of the blocks before the i-th.
Before(bs, i) == UNION {BytesOf(bs[j]) : j \in 1 .. i-1}

LEMMA BeforeNext ==
    ASSUME NEW bs, NEW i \in Nat \ {0}
    PROVE  Before(bs, i+1) = Before(bs, i) \cup BytesOf(bs[i]) /\ Before(bs, 1) = {}
<1>1. 1 .. (i+1)-1 = (1 .. i-1) \cup {i} /\ 1 .. 1-1 = {}
  OBVIOUS
<1> QED BY <1>1 DEF Before

\* The result r of reading what is written of the blocks bs while the output
\* stands at offset o of block i, at address a, v being the segment it has in
\* mind: at the beginning it is the topmost one, for which no base is known.
LoadedAt(r, bs, i, o, a, v) ==
    /\ r.how = "added" /\ r.hex.mode = "linear" /\ r.hex.eof = FALSE /\ r.hex.start = 0
    /\ r.hex.base = v * S \/ (i = 1 /\ o = 0 /\ v = Top)
    /\ Bytes(r.hex.blocks) =
          Before(bs, i) \cup (IF i <= Len(bs) THEN Pairs(bs[i].addr, a) ELSE {})
    /\ i <= Len(bs) => r.hex.blocks = << >> \/ End(Last(r.hex.blocks)) <= a
    /\ \A p : Sums(p, bs) =>
          r.hex.total = (p[i-1] + (IF i <= Len(bs) THEN o ELSE 0)) % W

\* The result t of reading a record of n bytes at a after r, and where the
\* output goes on behind the record: in the block or behind its end.
ReadMore(t, r, a, n, u) ==
    /\ t.how = "added" /\ t.hex.mode = "linear" /\ t.hex.base = u * S
    /\ t.hex.eof = r.hex.eof /\ t.hex.start = r.hex.start
    /\ t.hex.total = (r.hex.total + n) % W
    /\ Bytes(t.hex.blocks) = Bytes(r.hex.blocks) \cup Pairs(a, a + n)
    /\ End(Last(t.hex.blocks)) = (a + n) % W
Behind(bs, i, o, a, n, i2, o2, a2) ==
    \/ /\ o + n = Len32(bs[i]) /\ i2 = i+1
       /\ i < Len(bs) => a2 = bs[i+1].addr /\ o2 = 0
    \/ o + n < Len32(bs[i]) /\ i2 = i /\ o2 = o + n /\ a2 = a + n
At(bs, i, o, a, n) == a = bs[i].addr + o /\ o + n <= Len32(bs[i])

LEMMA LoadedMore ==
    ASSUME NEW bs, Chain(bs), NEW i \in 1 .. Len(bs), NEW o \in Nat, NEW n \in Nat \ {0},
           NEW a, At(bs, i, o, a, n), NEW r, NEW v, LoadedAt(r, bs, i, o, a, v),
           NEW t, NEW u, ReadMore(t, r, a, n, u),
           NEW i2, NEW o2, NEW a2, Behind(bs, i, o, a, n, i2, o2, a2)
    PROVE  LoadedAt(t, bs, i2, o2, a2, u)
<1> DEFINE b == bs[i]
           l == Len(bs)
           m == Len32(b)
<1>1. /\ bs \in Seq(BlockType) /\ l \in Nat /\ i \in 1 .. l /\ b \in BlockType
      /\ WasReadBlock(b) /\ b.addr \in Nat /\ m \in Nat /\ b.addr + m <= W /\ W \in Nat \ {0}
      /\ S \in Nat
  <2>1. bs \in Seq(BlockType) /\ l \in Nat /\ i \in 1 .. l /\ WasReadBlock(b)
    BY LenProperties DEF Chain
  <2>2. b \in BlockType /\ b.addr \in Nat /\ m \in Nat
    BY <2>1, ListBlocks DEF Address
  <2>3. b.addr + m <= W
    BY <2>1 DEF WasReadBlock
  <2> QED BY <2>1, <2>2, <2>3, OutputSizes
<1>2. /\ Bytes(r.hex.blocks) = Before(bs, i) \cup Pairs(b.addr, a)
      /\ \A p : Sums(p, bs) => r.hex.total = (p[i-1] + o) % W
      /\ t.how = "added" /\ t.hex.mode = "linear" /\ t.hex.base = u * S
      /\ t.hex.eof = FALSE /\ t.hex.start = 0
  <2>1. i <= Len(bs)
    BY <1>1
  <2> HIDE DEF l, b
  <2> QED BY <2>1 DEF LoadedAt, ReadMore, b
<1> HIDE DEF b, l
<1>3. a \in Nat /\ a + n = b.addr + (o + n) /\ o + n <= m /\ a = b.addr + o
  <2>1. a = b.addr + o /\ o + n <= m
    BY DEF At, b
  <2> HIDE DEF m
  <2> QED BY <1>1, <2>1, SMTT(30)
<1> HIDE DEF m
<1>4. Bytes(t.hex.blocks) = Before(bs, i) \cup Pairs(b.addr, a + n)
  <2>1. Pairs(b.addr, a) \cup Pairs(a, a + n) = Pairs(b.addr, a + n)
    <3>1. a + n \in Nat /\ b.addr <= a /\ a <= a + n
      BY <1>1, <1>3, SMTT(30)
    <3> QED BY <1>1, <1>3, <3>1, PairsJoin, SMTT(30)
  <2> QED BY <1>2, <2>1 DEF ReadMore
<1>5. ASSUME NEW p, Sums(p, bs)
      PROVE  /\ t.hex.total = (p[i-1] + (o + n)) % W
             /\ p[i] = p[i-1] + m /\ p[i-1] \in Nat
  <2>1. p[i-1] \in Nat /\ p[i] = p[i-1] + m
    <3>1. i-1 \in 0 .. l
      BY <1>1
    <3> QED BY <1>1, <1>5, <3>1 DEF Sums, l, m, b
  <2>2. r.hex.total = (p[i-1] + o) % W
    BY <1>2, <1>5
  <2> DEFINE x == p[i-1]
  <2>3. x \in Nat
    BY <2>1
  <2> HIDE DEF x
  <2>4. x + o \in Nat /\ (x + o) + n = x + (o + n)
    BY <2>3
  <2>5. (((x + o) % W) + n) % W = ((x + o) + n) % W
    BY <1>1, <2>4, WrapTwice
  <2>6. t.hex.total = (x + (o + n)) % W
    BY <2>2, <2>4, <2>5 DEF ReadMore, x
  <2> QED BY <2>1, <2>6 DEF x
<1>6. CASE o + n = m /\ i2 = i+1 /\ (i < l => a2 = bs[i+1].addr /\ o2 = 0)
  <2>1. Bytes(t.hex.blocks) = Before(bs, i+1)
    <3>1. BytesOf(b) = Pairs(b.addr, a + n)
      <4>1. BytesOf(b) = Pairs(b.addr, b.addr + Len32(b))
        BY <1>1, WholeOf
      <4> QED BY <1>3, <1>6, <4>1 DEF m
    <3>2. Before(bs, i+1) = Before(bs, i) \cup BytesOf(b)
      <4>1. i \in Nat \ {0}
        BY <1>1
      <4> QED BY <4>1, BeforeNext DEF b
    <3> QED BY <1>4, <3>1, <3>2
  <2>2. ASSUME NEW p, Sums(p, bs)
        PROVE  t.hex.total = p[i] % W /\ p[i] \in Nat
    <3>1. /\ t.hex.total = (p[i-1] + (o + n)) % W
          /\ p[i] = p[i-1] + m /\ p[i-1] \in Nat
      BY <1>5, <2>2
    <3>2. o + n = m /\ m \in Nat
      BY <1>1, <1>6 DEF m
    <3> QED BY <3>1, <3>2
  <2>3. CASE i = l
    <3>1. ~(i2 <= l) /\ i2-1 = i
      BY <1>1, <1>6, <2>3
    <3>2. ASSUME NEW p, Sums(p, bs)
          PROVE  t.hex.total = (p[i2-1] + 0) % W
      <4>1. t.hex.total = p[i] % W /\ p[i] \in Nat
        BY <2>2, <3>2
      <4> QED BY <3>1, <4>1
    <3> QED BY <1>2, <1>6, <2>1, <3>1, <3>2 DEF LoadedAt, l
  <2>4. CASE i # l
    <3>1. i < l /\ i2 <= l /\ i2-1 = i /\ i2 \in 1 .. l /\ i \in 1 .. l-1
      BY <1>1, <1>6, <2>4
    <3>2. ASSUME NEW p, Sums(p, bs)
          PROVE  t.hex.total = (p[i2-1] + o2) % W
      <4>1. t.hex.total = p[i] % W /\ p[i] \in Nat
        BY <2>2, <3>2
      <4> QED BY <1>6, <3>1, <4>1
    <3>3. End(Last(t.hex.blocks)) <= a2
      <4>1. End(b) = (a + n) % W
        BY <1>3, <1>6 DEF End, m
      <4>3. End(Last(t.hex.blocks)) = (a + n) % W
        BY DEF ReadMore
      <4>2. End(b) <= bs[i+1].addr
        BY <3>1 DEF Chain, b, l
      <4> QED BY <1>6, <3>1, <4>1, <4>2, <4>3
    <3>4. Pairs(bs[i2].addr, a2) = {}
      <4>1. a2 \in Nat
        <5>1. i2 \in 1 .. l /\ a2 = bs[i2].addr
          BY <1>6, <3>1
        <5>2. bs[i2].addr \in Address
          BY <1>1, <5>1, ListBlocks DEF l
        <5> QED BY <5>1, <5>2 DEF Address
      <4>2. a2 .. a2-1 = {} /\ a2 = bs[i2].addr
        BY <1>6, <3>1, <4>1
      <4> QED BY <4>2 DEF Pairs
    <3> QED BY <1>2, <1>6, <2>1, <3>1, <3>2, <3>3, <3>4 DEF LoadedAt, l
  <2> QED BY <2>3, <2>4
<1>7. CASE o + n < m /\ i2 = i /\ o2 = o + n /\ a2 = a + n
  <2>1. End(Last(t.hex.blocks)) = a2
    <3>1. a + n \in 0 .. W-1
      BY <1>1, <1>3, <1>7, SMTT(30)
    <3>2. (a + n) % W = a + n
      BY <1>1, <3>1, WrapSmall
    <3> QED BY <1>7, <3>2 DEF ReadMore
  <2>2. End(Last(t.hex.blocks)) <= a2
    BY <1>3, <1>7, <2>1
  <2>3. ASSUME NEW p, Sums(p, bs)
        PROVE  t.hex.total = (p[i2-1] + o2) % W
    BY <1>5, <1>7, <2>3
  <2>4. i2 <= l
    BY <1>1, <1>7
  <2> QED BY <1>2, <1>4, <1>7, <2>2, <2>3, <2>4 DEF LoadedAt, l, b
<1>8. \/ o + n = m /\ i2 = i+1 /\ (i < l => a2 = bs[i+1].addr /\ o2 = 0)
      \/ o + n < m /\ i2 = i /\ o2 = o + n /\ a2 = a + n
  BY DEF Behind, m, b, l
<1> QED BY <1>6, <1>7, <1>8

\* Until the output begins nothing is written; while it goes on there is
\* something left of the current block, and what is written reads back as the
\* part of the list that lies behind.
Early == pc \in {"merge", "output"} => out = << >> /\ ulba = Top
AtWork == pc = "loop" => /\ hex.blocks # << >> /\ current <= Len(hex.blocks) + 1
                         /\ current <= Len(hex.blocks) => rest > 0
Loaded == pc = "loop" /\ ~LacksBase(hex.blocks[1].addr) =>
              LoadedAt(RereadOf(out), hex.blocks, current, offset, addr, ulba)

LEMMA StartLoads ==
    ASSUME RInv, WInv, Early, OutputStarts
    PROVE  AtWork' /\ Loaded'
<1> DEFINE bs == hex.blocks
           b == bs[1]
<1>1. /\ pc' = "loop" /\ hex' = hex /\ current' = 1 /\ offset' = 0 /\ addr' = b.addr
      /\ rest' = Len32(b) /\ ulba' = Top /\ out' = << >> /\ bs # << >>
  BY DEF OutputStarts, AtBlock, Early
<1>2. Chain(bs)
  BY DEF WInv
<1>3. bs \in Seq(BlockType) /\ Len(bs) \in Nat /\ 1 \in 1 .. Len(bs)
  BY <1>1, <1>2, LenProperties, EmptySeq DEF Chain
<1> HIDE DEF bs
<1>4. b.addr \in Nat /\ Len32(b) \in Nat \ {0}
  BY <1>2, <1>3, ListBlocks DEF Chain, WasReadBlock, Address
<1>5. AtWork'
  BY <1>1, <1>3, <1>4 DEF AtWork, bs
<1>6. LoadedAt(Fresh, bs, 1, 0, b.addr, Top)
  <2>1. /\ Fresh.how = "added" /\ Fresh.hex.mode = "linear" /\ Fresh.hex.eof = FALSE
        /\ Fresh.hex.start = 0 /\ Fresh.hex.blocks = << >> /\ Fresh.hex.total = 0
    BY DEF Fresh, EmptyHex
  <2>2. Bytes(<< >>) = {}
    <3>1. 1 .. Len(<< >>) = {}
      OBVIOUS
    <3> QED BY <3>1 DEF Bytes
  <2>3. Before(bs, 1) = {}
    BY BeforeNext
  <2>4. Pairs(b.addr, b.addr) = {}
    <3>1. b.addr .. b.addr-1 = {}
      BY <1>4
    <3> QED BY <3>1 DEF Pairs
  <2>5. ASSUME NEW p, Sums(p, bs)
        PROVE  0 = (p[1-1] + (IF 1 <= Len(bs) THEN 0 ELSE 0)) % W
    BY <2>5, OutputSizes DEF Sums
  <2>6. Bytes(<< >>) = Before(bs, 1)
                          \cup (IF 1 <= Len(bs) THEN Pairs(bs[1].addr, b.addr) ELSE {})
    BY <1>3, <2>2, <2>3, <2>4
  <2> QED BY <2>1, <2>5, <2>6, Zenon DEF LoadedAt
<1>7. RereadOf(out') = Fresh
  BY <1>1, RereadNone
<1>8. LoadedAt(RereadOf(out'), hex'.blocks, current', offset', addr', ulba')
  BY <1>1, <1>6, <1>7 DEF bs
<1> QED BY <1>5, <1>8 DEF Loaded

\* A linear base record is written before the first record, and whenever the
\* segment has changed since.
LEMMA BaseKnown ==
    ASSUME NEW a \in Address, NEW r, ~BaseDue, ~LacksBase(a), addr \in Address,
           r.hex.base = ulba * S \/ (addr = a /\ ulba = Top)
    PROVE  r.hex.base = (addr \div S) * S
<1>1. addr \div S = ulba /\ ~((addr % S) + Near > S)
  BY DEF BaseDue
<1>2. CASE addr = a /\ ulba = Top
  <2>1. (addr % S) + Near <= S
    <3>1. addr % S \in Int /\ Near \in Int /\ S \in Int
      BY OutputSizes, OutputAssumption, Division DEF Address
    <3> QED BY <1>1, <3>1
  <2> QED BY <1>1, <1>2, <2>1 DEF LacksBase
<1> QED BY <1>1, <1>2

LEMMA RecordFacts ==
    ASSUME RInv, Placed, WInv, AtWork, pc = "loop", current <= Len(hex.blocks), Writes
    PROVE  LET b == hex.blocks[current]
               n == RecordLen
               d == SubSeq(b.data, offset+1, offset+n)
           IN  /\ current \in 1 .. Len(hex.blocks) /\ offset \in Nat /\ rest \in Nat \ {0}
               /\ n \in Nat \ {0} /\ n <= rest /\ Len32(b) = offset + rest
               /\ addr = b.addr + offset /\ b.addr \in Nat /\ addr + n <= W
               /\ d \in Seq(Int) /\ Len(d) = n
               /\ BytesOf(Block(addr, d)) = Pairs(addr, addr + n)
<1> DEFINE bs == hex.blocks
           b == bs[current]
           n == RecordLen
           d == SubSeq(b.data, offset+1, offset+n)
<1>1. /\ Chain(bs) /\ bs \in Seq(BlockType) /\ Len(bs) \in Nat
      /\ current \in 1 .. Len(bs) /\ offset \in Nat /\ rest \in Nat \ {0} /\ addr \in Address
      /\ offset + rest = Len(b.data)
  <2>1. Chain(bs) /\ bs \in Seq(BlockType)
    BY DEF WInv, Chain
  <2>2. Len(bs) \in Nat
    BY <2>1, LenProperties
  <2>3. /\ current \in Nat \ {0} /\ offset \in Nat /\ rest \in Nat /\ addr \in Address
        /\ current <= Len(bs) /\ offset + rest = Len(b.data) /\ rest > 0
    BY DEF RInv, Position, InBlock, AtWork
  <2> HIDE DEF bs, b
  <2> QED BY <2>1, <2>2, <2>3
<1>2. n \in Nat \ {0} /\ n <= rest
  <2> DEFINE f == IF rest > MaxLen THEN MaxLen ELSE rest
  <2>1. n = f \/ (n = S - (addr % S) /\ (addr % S) \in 0 .. S-1)
    BY RecordShape
  <2>2. f \in Nat \ {0}
    BY <1>1, OutputSizes DEF MaxLen
  <2> HIDE DEF f
  <2>3. n \in Nat \ {0}
    <3>1. S \in Nat
      BY OutputSizes
    <3> HIDE DEF n
    <3> QED BY <2>1, <2>2, <3>1
  <2> QED BY <2>3 DEF Writes
<1>3. b \in BlockType /\ WasReadBlock(b) /\ b.addr \in Nat /\ Len32(b) = offset + rest
  <2>1. b \in BlockType /\ b.addr \in Nat /\ Len32(b) = Len(b.data)
    BY <1>1, ListBlocks DEF Address
  <2>2. WasReadBlock(b)
    BY <1>1 DEF Chain
  <2> QED BY <1>1, <2>1, <2>2
<1>4. addr = b.addr + offset
  <2>1. addr = (b.addr + offset) % W
    BY DEF Placed
  <2>2. b.addr + offset \in 0 .. W-1
    <3>1. b.addr + Len32(b) <= W
      BY <1>3 DEF WasReadBlock
    <3> HIDE DEF b
    <3> QED BY <1>1, <1>3, <3>1, OutputSizes
  <2>3. (b.addr + offset) % W = b.addr + offset
    BY <2>2, OutputSizes, WrapSmall
  <2> QED BY <2>1, <2>3
<1>5. /\ d \in Seq(Int) /\ Len(d) = n /\ addr + n <= W
      /\ BytesOf(Block(addr, d)) = Pairs(addr, addr + n)
  <2>1. offset + n <= Len32(b)
    <3> HIDE DEF b, n
    <3> QED BY <1>1, <1>2, <1>3
  <2>2. n \in Nat
    BY <1>2
  <2> HIDE DEF b, n
  <2>3. /\ d \in Seq(Int) /\ Len(d) = n /\ (b.addr + offset) + n <= W
        /\ BytesOf(Block(b.addr + offset, d)) = Pairs(b.addr + offset, (b.addr + offset) + n)
    <3>1. b \in BlockType /\ WasReadBlock(b) /\ offset \in Nat
      BY <1>1, <1>3
    <3> HIDE DEF b
    <3> QED BY <2>1, <2>2, <3>1, PartOf
  <2> HIDE DEF d
  <2> QED BY <1>4, <2>3
<1> QED BY <1>1, <1>2, <1>3, <1>4, <1>5

LEMMA RecordBehind ==
    ASSUME RInv, Placed, WInv, AtWork, pc = "loop", current <= Len(hex.blocks), Writes,
           UNCHANGED hex
    PROVE  /\ At(hex.blocks, current, offset, addr, RecordLen)
           /\ Behind(hex.blocks, current, offset, addr, RecordLen, current', offset', addr')
           /\ AtWork'
<1> DEFINE bs == hex.blocks
           b == bs[current]
           n == RecordLen
           m == Len32(b)
<1>1. /\ current \in 1 .. Len(bs) /\ offset \in Nat /\ rest \in Nat \ {0}
      /\ n \in Nat \ {0} /\ n <= rest /\ m = offset + rest
      /\ addr = b.addr + offset /\ b.addr \in Nat /\ addr + n <= W
  BY RecordFacts
<1>2. Chain(bs) /\ bs \in Seq(BlockType) /\ bs # << >> /\ Len(bs) \in Nat
  BY LenProperties DEF WInv, Chain, AtWork
<1>3. b.addr + m <= W
  BY <1>1, <1>2 DEF Chain, WasReadBlock
<1>4. /\ \/ rest = n /\ current < Len(bs) /\ AtBlock(current+1)
         \/ GoesOn
      /\ pc' = "loop" /\ hex' = hex
  BY DEF Writes
<1>5. At(bs, current, offset, addr, n)
  <2> HIDE DEF m, b, n
  <2>1. offset + n <= m
    BY <1>1
  <2> QED BY <1>1, <2>1 DEF At, b, m
<1> HIDE DEF n, m
<1>6. CASE rest = n /\ current < Len(bs) /\ AtBlock(current+1)
  <2>1. /\ current' = current+1 /\ offset' = 0 /\ addr' = bs[current+1].addr
        /\ rest' = Len32(bs[current+1])
    BY <1>6 DEF AtBlock
  <2>2. current+1 \in 1 .. Len(bs)
    BY <1>1, <1>2, <1>6
  <2>3. WasReadBlock(bs[current+1])
    BY <1>2, <2>2 DEF Chain
  <2>4. AtWork'
    BY <1>2, <1>4, <2>1, <2>2, <2>3 DEF AtWork, WasReadBlock
  <2>5. offset + n = m
    BY <1>1, <1>6
  <2>6. Behind(bs, current, offset, addr, n, current', offset', addr')
    BY <2>1, <2>5 DEF Behind, m
  <2> QED BY <1>5, <2>4, <2>6 DEF n
<1>7. CASE GoesOn
  <2>1. /\ ~(rest = n /\ current < Len(bs))
        /\ offset' = offset + n /\ rest' = rest - n /\ addr' = (addr + n) % W
        /\ current' = IF rest = n THEN current+1 ELSE current
    BY <1>7 DEF GoesOn, n
  <2> HIDE DEF b
  <2>2. CASE rest = n
    <3>1. current = Len(bs) /\ current' = current+1 /\ ~(current < Len(bs)) /\ offset + n = m
      BY <1>1, <1>2, <2>1, <2>2
    <3>2. Behind(bs, current, offset, addr, n, current', offset', addr')
      BY <3>1 DEF Behind, m, b
    <3>3. AtWork'
      BY <1>2, <1>4, <3>1 DEF AtWork
    <3> QED BY <1>5, <3>2, <3>3 DEF n
  <2>3. CASE rest # n
    <3>1. current' = current /\ offset + n < m /\ rest' > 0 /\ addr + n \in 0 .. W-1
      <4>1. n < rest /\ rest \in Nat /\ n \in Nat /\ offset \in Nat /\ W \in Nat
        BY <1>1, <2>3, OutputSizes
      <4>2. offset + n < m
        BY <1>1, <4>1
      <4>3. rest - n > 0 /\ addr + n \in 0 .. W-1
        BY <1>1, <1>3, <4>1, <4>2, SMTT(30)
      <4> QED BY <2>1, <2>3, <4>2, <4>3
    <3>2. (addr + n) % W = addr + n
      BY <3>1, OutputSizes, WrapSmall
    <3>3. Behind(bs, current, offset, addr, n, current', offset', addr')
      BY <2>1, <3>1, <3>2 DEF Behind, m, b
    <3>4. AtWork'
      BY <1>1, <1>2, <1>4, <3>1 DEF AtWork
    <3> QED BY <1>5, <3>3, <3>4 DEF n
  <2> QED BY <2>2, <2>3
<1> QED BY <1>4, <1>6, <1>7

LEMMA RecordLoads ==
    ASSUME RInv, Placed, WInv, AtWork, Loaded, WriteRecord, Writes
    PROVE  AtWork' /\ Loaded'
<1> DEFINE bs == hex.blocks
           b == bs[current]
           n == RecordLen
           d == SubSeq(b.data, offset+1, offset+n)
           r == RereadOf(out)
           t == RereadOf(out')
           u == addr \div S
<1>1. /\ pc = "loop" /\ current <= Len(bs) /\ hex' = hex /\ ulba' = u
  BY RecordCases
<1>2. /\ At(bs, current, offset, addr, n) /\ AtWork'
      /\ Behind(bs, current, offset, addr, n, current', offset', addr')
  BY <1>1, RecordBehind
<1>3. /\ current \in 1 .. Len(bs) /\ offset \in Nat /\ n \in Nat \ {0} /\ n <= rest
      /\ addr = b.addr + offset /\ b.addr \in Nat /\ addr + n <= W
      /\ d \in Seq(Int) /\ Len(d) = n /\ BytesOf(Block(addr, d)) = Pairs(addr, addr + n)
  BY <1>1, RecordFacts
<1>4. addr \in Address /\ out \in Seq(Wrote) /\ Chain(bs)
  BY DEF RInv, Position, WInv
<1>5. DataLine(addr % S, d) \in Wrote
  <2>1. DataLen(addr \div S) <= rest
    BY <1>3 DEF RecordLen
  <2> QED BY <1>1, <2>1, RecordType DEF RecordLen
<1>6. out' = out \o Base \o <<DataLine(addr % S, d)>>
  BY DEF Writes, Record
<1>7. d # << >>
  BY <1>3, EmptySeq
<1>8. ASSUME ~LacksBase(bs[1].addr)
      PROVE  LoadedAt(t, bs, current', offset', addr', u)
  <2>1. LoadedAt(r, bs, current, offset, addr, ulba)
    BY <1>1, <1>8 DEF Loaded
  <2>2. /\ r.how = "added" /\ r.hex.mode = "linear"
        /\ r.hex.base = ulba * S \/ (current = 1 /\ offset = 0 /\ ulba = Top)
        /\ r.hex.blocks = << >> \/ End(Last(r.hex.blocks)) <= addr
    BY <1>1, <2>1 DEF LoadedAt
  <2>3. Base = <<LinearBase(u)>> \/ (Base = << >> /\ r.hex.base = u * S)
    <3>1. CASE BaseDue
      BY <3>1 DEF Base
    <3>2. CASE ~BaseDue
      <4>1. r.hex.base = ulba * S \/ (addr = bs[1].addr /\ ulba = Top)
        BY <1>3, <2>2
      <4>2. bs[1].addr \in Address
        <5>1. 1 \in 1 .. Len(bs) /\ bs \in Seq(BlockType)
          BY <1>3, <1>4, LenProperties DEF Chain
        <5> QED BY <5>1, ListBlocks
      <4>3. r.hex.base = u * S
        BY <1>4, <1>8, <3>2, <4>1, <4>2, BaseKnown
      <4> QED BY <3>2, <4>3 DEF Base
    <3> QED BY <3>1, <3>2
  <2> HIDE DEF d, n, bs
  <2>4. ReadMore(t, r, addr, n, u)
    <3> DEFINE y == RereadOf(out \o Base \o <<DataLine(addr % S, d)>>)
    <3>1. addr + Len(d) <= W
      BY <1>3
    <3>2. /\ y.how = "added" /\ y.hex.mode = "linear" /\ y.hex.base = u * S
          /\ y.hex.eof = r.hex.eof /\ y.hex.start = r.hex.start
          /\ y.hex.total = (r.hex.total + Len(d)) % W
          /\ Bytes(y.hex.blocks) = Bytes(r.hex.blocks) \cup BytesOf(Block(addr, d))
          /\ y.hex.blocks # << >> /\ End(Last(y.hex.blocks)) = (addr + Len(d)) % W
      <4>1. d \in Seq(Int) /\ addr \in Address /\ out \in Seq(Wrote)
        BY <1>3, <1>4
      <4> QED BY <1>5, <1>7, <2>2, <2>3, <3>1, <4>1, RecordLoaded
    <3> HIDE DEF y, r
    <3>3. t = y
      BY <1>6 DEF y
    <3> HIDE DEF t
    <3> QED BY <1>3, <3>2, <3>3 DEF ReadMore
  <2> HIDE DEF t, r, u, b
  <2> QED BY <1>2, <1>3, <1>4, <2>1, <2>4, LoadedMore
<1> QED BY <1>1, <1>2, <1>8 DEF Loaded

\* The bytes of what is written are told apart by their addresses.
LEMMA ChainBytes ==
    ASSUME NEW bs, Chain(bs)
    PROVE  /\ bs \in Seq(BlockType)
           /\ Before(bs, Len(bs)+1) = Bytes(bs)
           /\ \A p, q \in Bytes(bs) : p[1] = q[1] => p = q
<1>1. bs \in Seq(BlockType) /\ Len(bs) \in Nat
  BY LenProperties DEF Chain
<1>2. Before(bs, Len(bs)+1) = Bytes(bs)
  <2>1. (Len(bs)+1)-1 = Len(bs)
    BY <1>1
  <2> QED BY <2>1 DEF Before, Bytes
<1>3. ASSUME NEW p \in Bytes(bs)
      PROVE  p = <<p[1], p[1]>>
  <2>1. PICK i \in 1 .. Len(bs) : p \in BytesOf(bs[i])
    BY <1>3 DEF Bytes
  <2>2. BytesOf(bs[i]) = Pairs(bs[i].addr, bs[i].addr + Len32(bs[i]))
    BY <1>1, ListBlocks, WholeOf DEF Chain
  <2>3. PICK x : p = <<x, x>>
    BY <2>1, <2>2 DEF Pairs
  <2> QED BY <2>3
<1>4. \A p, q \in Bytes(bs) : p[1] = q[1] => p = q
  BY <1>3, Zenon
<1> QED BY <1>1, <1>2, <1>4

\* The start record, if there is a start address.
StartLines(s) == IF s # NoStart THEN <<StartLinear(s)>> ELSE << >>

LEMMA EndLines ==
    ASSUME NEW o \in Seq(Wrote), RereadOf(o).how = "added", NEW s \in Int
    PROVE  LET h == RereadOf(o).hex
               r == RereadOf(o \o StartLines(s) \o <<Line("eof")>>)
           IN  /\ r.how = "added" /\ r.hex.eof = TRUE
               /\ r.hex.blocks = h.blocks /\ r.hex.total = h.total
               /\ r.hex.start = IF s = NoStart THEN h.start ELSE s
<1> DEFINE h == RereadOf(o).hex
           y == o \o StartLines(s)
           x == y \o <<Line("eof")>>
           g == RereadOf(y).hex
<1>1. Line("eof") \in Wrote /\ StartLinear(s) \in Wrote
  BY DEF Line, StartLinear, Wrote
<1>2. h \in HexType
  BY <1>1, RereadMore DEF ResultType
<1>3. /\ y \in Seq(Wrote) /\ RereadOf(y).how = "added" /\ g \in HexType
      /\ g.blocks = h.blocks /\ g.total = h.total
      /\ g.start = IF s = NoStart THEN h.start ELSE s
  <2>1. CASE s = NoStart
    <3>1. y = o
      BY <2>1 DEF StartLines
    <3> HIDE DEF y
    <3> QED BY <1>2, <2>1, <3>1
  <2>2. CASE s # NoStart
    <3>1. y = Append(o, StartLinear(s))
      <4>1. y = o \o <<StartLinear(s)>>
        BY <2>2 DEF StartLines
      <4> HIDE DEF y
      <4> QED BY <1>1, <4>1
    <3> HIDE DEF y
    <3>2. y \in Seq(Wrote)
      BY <1>1, <3>1, AppendProperties
    <3>3. RereadOf(y) = ReadOn(RereadOf(o), StartLinear(s))
      BY <1>1, <3>1, RereadMore
    <3>4. RereadOf(y) = ParseOneLine(h, StartLinear(s))
      BY <3>3 DEF ReadOn
    <3> HIDE DEF h
    <3>5. ParseOneLine(h, StartLinear(s)) = [how |-> "added", hex |-> [h EXCEPT !.start = s]]
      BY <1>2, ParsedLines, Zenon
    <3>6. RereadOf(y).how = "added" /\ g = [h EXCEPT !.start = s]
      BY <3>4, <3>5
    <3>7. LET f == [h EXCEPT !.start = s]
          IN  f \in HexType /\ f.blocks = h.blocks /\ f.total = h.total /\ f.start = s
      BY <1>2 DEF HexType
    <3> HIDE DEF g
    <3> QED BY <2>2, <3>2, <3>6, <3>7
  <2> QED BY <2>1, <2>2
<1>4. RereadOf(x) = [how |-> "added", hex |-> [g EXCEPT !.eof = TRUE]]
  <2>1. x = y \o <<Line("eof")>>
    OBVIOUS
  <2>2. y \in Seq(Wrote) /\ RereadOf(y).how = "added"
    BY <1>3
  <2> HIDE DEF x, y
  <2>3. x = Append(y, Line("eof"))
    <3> DEFINE e == Line("eof")
    <3>1. e \in Wrote
      BY <1>1
    <3> HIDE DEF e
    <3>2. y \o <<e>> = Append(y, e)
      BY <2>2, <3>1
    <3> QED BY <2>1, <3>2 DEF e
  <2>4. RereadOf(x) = ReadOn(RereadOf(y), Line("eof"))
    BY <1>1, <2>2, <2>3, RereadMore
  <2>5. RereadOf(x) = ParseOneLine(g, Line("eof"))
    BY <2>2, <2>4 DEF ReadOn
  <2>6. g \in HexType
    BY <1>3
  <2> HIDE DEF g
  <2>7. ParseOneLine(g, Line("eof")) = [how |-> "added", hex |-> [g EXCEPT !.eof = TRUE]]
    BY <2>6, ParsedLines, Zenon
  <2> QED BY <2>5, <2>7
<1>5. /\ g \in HexType /\ g.blocks = h.blocks /\ g.total = h.total
      /\ g.start = IF s = NoStart THEN h.start ELSE s
  BY <1>3
<1> HIDE DEF g, h
<1> DEFINE f == [g EXCEPT !.eof = TRUE]
<1>6. f.eof = TRUE /\ f.blocks = g.blocks /\ f.total = g.total /\ f.start = g.start
  BY <1>5 DEF HexType
<1>7. RereadOf(x) = [how |-> "added", hex |-> f]
  BY <1>4
<1> HIDE DEF f, x
<1>9. RereadOf(x).how = "added" /\ RereadOf(x).hex = f
  BY <1>7
<1>8. LET r == RereadOf(x)
      IN  /\ r.how = "added" /\ r.hex.eof = TRUE
          /\ r.hex.blocks = h.blocks /\ r.hex.total = h.total
          /\ r.hex.start = IF s = NoStart THEN h.start ELSE s
  BY <1>5, <1>6, <1>9
<1> QED BY <1>8 DEF h, x

LEMMA RereadIs == Reread = RereadOf(out)
BY DEF Reread, RereadOf, Fresh

LEMMA RereadThen == (Reread = RereadOf(out))'
BY RereadIs, PTL

LEMMA EndRoundTrip ==
    ASSUME RInv, WInv, AtWork, Loaded, WriteEnd
    PROVE  RoundTrip'
<1> DEFINE bs == hex.blocks
           r == RereadOf(out)
           t == RereadOf(out')
<1>1. /\ pc = "loop" /\ pc' = "done" /\ hex' = hex /\ current = Len(bs) + 1
      /\ Len(bs) \in Nat /\ out \in Seq(Wrote) /\ hex.start \in Int
      /\ Chain(bs) /\ hex.total = LengthOf(bs)
  <2>1. pc = "loop" /\ pc' = "done" /\ hex' = hex /\ current > Len(bs)
    BY DEF WriteEnd
  <2>2. out \in Seq(Wrote) /\ hex.start \in Int /\ current \in Nat
    BY DEF RInv, Lists, IsHex, Position
  <2>3. Chain(bs) /\ hex.total = LengthOf(bs) /\ Len(bs) \in Nat
    BY LenProperties DEF WInv, Chain
  <2>4. current <= Len(bs) + 1
    BY <2>1 DEF AtWork
  <2> HIDE DEF bs
  <2> QED BY <2>1, <2>2, <2>3, <2>4
<1>2. ASSUME ~LacksBase(bs[1].addr)
      PROVE  /\ t.how = "added" /\ t.hex.eof = TRUE
             /\ Image(t.hex.blocks) = Image(bs) /\ t.hex.total = hex.total
             /\ t.hex.start = IF hex.start = NoStart THEN 0 ELSE hex.start
  <2>1. LoadedAt(r, bs, current, offset, addr, ulba)
    BY <1>1, <1>2 DEF Loaded
  <2>2. ~(current <= Len(bs)) /\ current-1 = Len(bs)
    BY <1>1
  <2>3. /\ r.how = "added" /\ r.hex.start = 0
        /\ Bytes(r.hex.blocks) = Before(bs, Len(bs)+1)
        /\ \A p : Sums(p, bs) => r.hex.total = (p[Len(bs)] + 0) % W
    BY <1>1, <2>1, <2>2 DEF LoadedAt
  <2>4. r.hex.total = LengthOf(bs)
    <3>1. bs \in Seq(BlockType)
      BY <1>1 DEF Chain
    <3>2. PICK p : Sums(p, bs) /\ LengthOf(bs) = p[Len(bs)] % W
      BY <3>1, LengthSums
    <3>3. p[Len(bs)] \in Nat
      BY <1>1, <3>2 DEF Sums
    <3>4. p[Len(bs)] + 0 = p[Len(bs)]
      BY <3>3
    <3> QED BY <2>3, <3>2, <3>4
  <2>5. Image(r.hex.blocks) = Image(bs)
    <3>1. r.hex.blocks \in Seq(BlockType)
      <4>1. Line("eof") \in Wrote
        BY DEF Line, Wrote
      <4>2. r.hex \in HexType
        BY <1>1, <4>1, RereadMore DEF ResultType
      <4> QED BY <4>2 DEF HexType
    <3>2. /\ bs \in Seq(BlockType) /\ Bytes(r.hex.blocks) = Bytes(bs)
          /\ \A p, q \in Bytes(bs) : p[1] = q[1] => p = q
      BY <1>1, <2>3, ChainBytes
    <3> HIDE DEF bs, r
    <3> QED BY <3>1, <3>2, SameImage
  <2>6. out' = out \o StartLines(hex.start) \o <<Line("eof")>>
    BY DEF WriteEnd, StartLines
  <2>7. /\ t.how = "added" /\ t.hex.eof = TRUE
        /\ t.hex.blocks = r.hex.blocks /\ t.hex.total = r.hex.total
        /\ t.hex.start = IF hex.start = NoStart THEN r.hex.start ELSE hex.start
    <3>1. out \in Seq(Wrote) /\ hex.start \in Int /\ RereadOf(out).how = "added"
      BY <1>1, <2>3
    <3> DEFINE x == RereadOf(out \o StartLines(hex.start) \o <<Line("eof")>>)
    <3>2. /\ x.how = "added" /\ x.hex.eof = TRUE
          /\ x.hex.blocks = r.hex.blocks /\ x.hex.total = r.hex.total
          /\ x.hex.start = IF hex.start = NoStart THEN r.hex.start ELSE hex.start
      BY <3>1, EndLines
    <3> QED BY <2>6, <3>2
  <2> HIDE DEF r, t, bs
  <2> QED BY <1>1, <2>3, <2>4, <2>5, <2>7
<1>3. Reread' = t
  BY RereadThen
<1> HIDE DEF t
<1> QED BY <1>1, <1>2, <1>3 DEF RoundTrip

BackInv == Early /\ AtWork /\ Loaded /\ RoundTrip

LEMMA StepBackInv ==
    ASSUME RInv, Placed, WInv, BackInv, [Next]_vars
    PROVE  BackInv'
<1>1. CASE pc' \notin {"merge", "output", "loop", "done"}
  BY <1>1 DEF BackInv, Early, AtWork, Loaded, RoundTrip
<1>2. CASE OutputStarts
  <2>1. AtWork' /\ Loaded' /\ pc' = "loop"
    BY <1>2, StartLoads DEF BackInv, OutputStarts
  <2> QED BY <2>1 DEF BackInv, Early, RoundTrip
<1>3. CASE WriteRecord /\ Writes
  <2>1. AtWork' /\ Loaded' /\ pc' = "loop"
    BY <1>3, RecordLoads DEF BackInv, Writes
  <2> QED BY <2>1 DEF BackInv, Early, RoundTrip
<1>4. CASE WriteRecord /\ Fails
  <2>1. pc' = "undefined"
    BY <1>4 DEF Fails
  <2> QED BY <1>1, <2>1
<1>5. CASE WriteEnd
  <2>1. RoundTrip' /\ pc' = "done"
    BY <1>5, EndRoundTrip DEF BackInv, WriteEnd
  <2> QED BY <2>1 DEF BackInv, Early, AtWork, Loaded
<1>6. CASE pc' = "output" /\ pc = "merge" /\ UNCHANGED <<position, out>>
  BY <1>6 DEF BackInv, Early, AtWork, Loaded, RoundTrip, position
<1>7. CASE UNCHANGED vars
  <2>1. Loaded'
    <3>1. /\ pc' = pc /\ hex' = hex /\ out' = out /\ current' = current /\ offset' = offset
          /\ addr' = addr /\ ulba' = ulba
      BY <1>7 DEF vars
    <3> QED BY <3>1 DEF BackInv, Loaded
  <2>2. RoundTrip'
    <3>1. pc' = pc /\ hex' = hex /\ out' = out
      BY <1>7 DEF vars
    <3>2. Reread' = Reread
      <4>1. Reread' = RereadOf(out')
        BY RereadThen
      <4> QED BY <3>1, <4>1, RereadIs
    <3> QED BY <3>1, <3>2 DEF BackInv, RoundTrip
  <2> QED BY <1>7, <2>1, <2>2 DEF BackInv, Early, AtWork, vars
<1> QED BY <1>1, <1>2, <1>3, <1>4, <1>5, <1>6, <1>7, RecordCases
        DEF Next, MergeFails, MergeNothing, Merge, OutputRefused

\* What IntelHexFileOutput writes, read back by IntelHexFileInput, is the same
\* memory, of the same total length and with the same start address, unless
\* the output begins in the topmost segment and not near its end, whose number
\* the code's ulba has from the start (intel.c:668-714).
THEOREM ReadsBack == Spec => []RoundTrip
<1>1. Init => BackInv
  BY DEF Init, BackInv, Early, AtWork, Loaded, RoundTrip
<1>2. Init => Placed /\ OverrunsAtSegmentEnd
  BY DEF Init, Placed, OverrunsAtSegmentEnd
<1>3. Init => MInv
  BY InitRising DEF MInv
<1>4. BackInv => RoundTrip
  BY DEF BackInv
<1> QED BY <1>1, <1>2, <1>3, <1>4, InitRInv, InitWInv, StepRInv, StepMInv, StepWInv,
           StepPlaced, StepBackInv, PTL DEF Spec
=============================================================================
