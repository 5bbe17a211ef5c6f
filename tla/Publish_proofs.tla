--------------------------- MODULE Publish_proofs ---------------------------
(***************************************************************************)
(* Proofs about module Publish, for terminal files of any number of blocks *)
(* of any length, a bootloader anywhere, address spaces and chunks of any  *)
(* size.                                                                   *)
(***************************************************************************)
EXTENDS Publish, HexFile_proofs, FiniteSetTheorems

FileType == [suffix : Seq(Address), data : Seq(Int)]
DirType == [hex : {"before", "new"}, bin : {"none", "before", "new"},
            dat : {"before", "emptied", "stale", "new"}, program : Seq(Int)]
Steps == {"HexMerge", "HexToBin", "GenUpdateFile", "read", "write", "del", "ExecCP"}

\* What the filling and the writing of sections keep: lists of blocks and of
\* files, of which there is one once writing has begun.
BinInv == /\ blocks \in Seq(BlockType) /\ files \in Seq(FileType)
          /\ current \in Nat \ {0}
          /\ pc \in {"fill", "bin", "done", "failed", "undefined"}
          /\ pc \in {"bin", "done", "undefined"} => files # << >>

-----------------------------------------------------------------------------
\* The end of a block is an address.
LEMMA EndIsAddress ==
    ASSUME NEW b \in BlockType
    PROVE  End(b) \in Address
<1>1. b.addr + Len(b.data) \in Nat
  BY LenProperties DEF BlockType, Address
<1>2. W \in Nat \ {0}
  BY SizesAssumption
<1> QED BY <1>1, <1>2 DEF End, Len32, Address

LEMMA ReadListsType ==
    ASSUME NEW bs \in ReadLists(MaxBlocks, 1 .. MaxLength)
    PROVE  /\ bs \in Seq(BlockType)
           /\ \A i \in 1 .. Len(bs) : Len(bs[i].data) \in Nat \ {0}
           /\ bs # << >> => Last(bs).addr + Len32(Last(bs)) <= W
<1> DEFINE B == {Block(a, BytesAt(a, n)) : a \in Address, n \in 1 .. MaxLength}
<1>1. bs \in BoundedSeq(B, MaxBlocks) /\ (bs # << >> => Last(bs).addr + Len32(Last(bs)) <= W)
  BY DEF ReadLists
<1>2. bs \in Seq(B)
  BY <1>1 DEF BoundedSeq, SeqOf
<1>3. \A b \in B : b \in BlockType /\ Len(b.data) \in Nat \ {0}
  <2> SUFFICES ASSUME NEW a \in Address, NEW n \in 1 .. MaxLength
               PROVE  /\ Block(a, BytesAt(a, n)) \in BlockType
                      /\ Len(Block(a, BytesAt(a, n)).data) \in Nat \ {0}
    OBVIOUS
  <2>1. n \in Nat \ {0} /\ a \in Nat
    BY BinAssumption, SizesAssumption DEF Address
  <2>2. BytesAt(a, n) \in Seq(Int) /\ Len(BytesAt(a, n)) = n
    BY <2>1 DEF BytesAt
  <2> QED BY <2>1, <2>2 DEF Block, BlockType
<1>4. B \subseteq BlockType
  BY <1>3
<1>5. bs \in Seq(BlockType)
  BY <1>2, <1>4, SeqMonotonic
<1>6. \A i \in 1 .. Len(bs) : bs[i] \in B
  BY <1>2, ElementOfSeq
<1> QED BY <1>1, <1>3, <1>5, <1>6

-----------------------------------------------------------------------------
LEMMA InitBinInv == Init => BinInv
BY ReadListsType DEF Init, BinInv

LEMMA StepBinInv ==
    ASSUME BinInv, Next
    PROVE  BinInv'
<1> USE DEF BinInv
<1>1. CASE FillStops
  <2>1. <<[suffix |-> << >>, data |-> << >>]>> \in Seq(FileType)
    BY DEF FileType
  <2> QED BY <1>1, <2>1 DEF FillStops, FillEnds, StartBin
<1>2. CASE FillGap
  <2> DEFINE gap == GapAfter(current)
             b == Block(End(blocks[current]), [i \in 1 .. gap |-> Filler])
  <2>1. current \in 1 .. Len(blocks) /\ current + 1 \in 1 .. Len(blocks) /\ Len(blocks) \in Nat
    BY <1>2, LenProperties DEF FillGap
  <2>7. blocks[current] \in BlockType /\ blocks[current+1] \in BlockType
    BY <2>1, ElementOfSeq
  <2>2. End(blocks[current]) \in Address /\ blocks[current+1].addr \in Address
    BY <2>7, EndIsAddress DEF BlockType
  <2>3. gap \in Nat
    BY <2>2, SizesAssumption, SMTT(30) DEF GapAfter, Address
  <2>4. [i \in 1 .. gap |-> Filler] \in Seq(Int)
    BY <2>3 DEF Filler
  <2>5. b \in BlockType
    BY <2>2, <2>4 DEF Block, BlockType
  <2>6. InsertAt(blocks, current+1, b) \in Seq(BlockType)
    BY <2>1, <2>5 DEF InsertAt
  <2> QED BY <1>2, <2>6 DEF FillGap
<1>3. CASE WriteOn
  <2> DEFINE d == files[Len(files)].data \o blocks[current].data
  <2>1. Len(files) \in 1 .. Len(files) /\ current \in 1 .. Len(blocks)
    BY <1>3, LenProperties, EmptySeq DEF WriteOn
  <2>2. files[Len(files)] \in FileType /\ blocks[current] \in BlockType
    BY <2>1, ElementOfSeq
  <2>3. d \in Seq(Int)
    BY <2>2, ConcatProperties DEF FileType, BlockType
  <2>4. [files[Len(files)] EXCEPT !.data = d] \in FileType
    BY <2>2, <2>3 DEF FileType
  <2>5. files' = [files EXCEPT ![Len(files)] = [files[Len(files)] EXCEPT !.data = d]]
    BY <1>3, <2>1 DEF WriteOn
  <2>6. files' \in Seq(FileType) /\ Len(files') = Len(files)
    BY <2>1, <2>4, <2>5, ExceptSeq
  <2>7. blocks' = blocks /\ pc' = pc /\ current' = current + 1
    BY <1>3 DEF WriteOn
  <2>8. files' # << >>
    BY <2>1, <2>6
  <2> QED BY <2>6, <2>7, <2>8
<1>4. CASE NewFile
  <2> DEFINE b == blocks[current]
             suffix == Append(Last(files).suffix, b.addr)
             f == [suffix |-> suffix, data |-> b.data]
  <2>1. Len(files) \in 1 .. Len(files) /\ current \in 1 .. Len(blocks)
    BY <1>4, LenProperties, EmptySeq DEF NewFile
  <2>2. Last(files) \in FileType /\ b \in BlockType
    BY <2>1, ElementOfSeq DEF Last
  <2>3. f \in FileType
    BY <2>2 DEF FileType, BlockType
  <2>4. Append(files, f) \in Seq(FileType) /\ Append(files, f) # << >>
    BY <2>3, SMTT(30)
  <2>5. files' = Append(files, f) /\ blocks' = blocks /\ current' = current + 1
        /\ pc' \in {"bin", "undefined"}
    BY <1>4 DEF NewFile
  <2> QED BY <2>4, <2>5
<1>5. CASE StartFails \/ NewFileFails \/ BinEnds
  BY <1>5 DEF StartFails, NewFileFails, BinEnds
<1> QED BY <1>1, <1>2, <1>3, <1>4, <1>5 DEF Next
-----------------------------------------------------------------------------
\* The address behind a block, which does not wrap; and the lists that the
\* reading and the filling leave: blocks with bytes, one above the other.
Top(b) == b.addr + Len32(b)
Laid(bs) ==
    /\ bs \in Seq(BlockType)
    /\ \A i \in 1 .. Len(bs) : Len32(bs[i]) # 0 /\ Top(bs[i]) <= W
    /\ \A i, j \in 1 .. Len(bs) : i < j => Top(bs[i]) <= bs[j].addr

LEMMA LaidBlock ==
    ASSUME NEW bs, Laid(bs)
    PROVE  /\ bs \in Seq(BlockType) /\ Len(bs) \in Nat
           /\ \A i \in 1 .. Len(bs) :
                 /\ bs[i] \in BlockType /\ bs[i].addr \in Nat /\ bs[i].addr < W
                 /\ Top(bs[i]) \in Nat /\ bs[i].addr < Top(bs[i]) /\ Top(bs[i]) <= W
                 /\ Len32(bs[i]) = Top(bs[i]) - bs[i].addr
                 /\ Len32(bs[i]) = Len(bs[i].data) /\ bs[i].data \in Seq(Int)
                 /\ \A j \in 1 .. Len(bs) : i < j => Top(bs[i]) <= bs[j].addr
<1>1. bs \in Seq(BlockType)
  BY DEF Laid
<1>2. ASSUME NEW i \in 1 .. Len(bs)
      PROVE  /\ bs[i] \in BlockType /\ bs[i].addr \in Nat /\ bs[i].addr < W
             /\ Top(bs[i]) \in Nat /\ bs[i].addr < Top(bs[i]) /\ Top(bs[i]) <= W
             /\ Len32(bs[i]) = Top(bs[i]) - bs[i].addr
             /\ Len32(bs[i]) = Len(bs[i].data) /\ bs[i].data \in Seq(Int)
  <2>1. bs[i] \in BlockType /\ bs[i].addr \in Address /\ Len32(bs[i]) \in Nat
        /\ Len32(bs[i]) = Len(bs[i].data) /\ bs[i].data \in Seq(Int)
    BY <1>1, <1>2, ListBlocks
  <2>2. Len32(bs[i]) # 0 /\ Top(bs[i]) <= W
    BY <1>2 DEF Laid
  <2>3. bs[i].addr \in Nat /\ bs[i].addr < W
    BY <2>1, Sizes DEF Address
  <2>4. Top(bs[i]) = bs[i].addr + Len32(bs[i])
    BY DEF Top
  <2>5. Top(bs[i]) \in Nat /\ bs[i].addr < Top(bs[i]) /\ Len32(bs[i]) = Top(bs[i]) - bs[i].addr
    BY <2>1, <2>2, <2>3, <2>4
  <2> QED BY <2>1, <2>2, <2>3, <2>5
<1>3. \A i, j \in 1 .. Len(bs) : i < j => Top(bs[i]) <= bs[j].addr
  BY DEF Laid
<1> QED BY <1>1, <1>2, <1>3, LenProperties

\* No address is in two blocks.
LEMMA LaidApart ==
    ASSUME NEW bs, Laid(bs), NEW i \in 1 .. Len(bs), NEW j \in 1 .. Len(bs), NEW a \in Nat,
           bs[i].addr <= a, a < Top(bs[i]), bs[j].addr <= a, a < Top(bs[j])
    PROVE  i = j
<1>1. ASSUME NEW m \in 1 .. Len(bs), NEW n \in 1 .. Len(bs), m < n,
             a < Top(bs[m]), bs[n].addr <= a
      PROVE  FALSE
  <2>1. Top(bs[m]) <= bs[n].addr /\ Top(bs[m]) \in Nat /\ bs[n].addr \in Nat
    BY <1>1, LaidBlock
  <2> QED BY <1>1, <2>1
<1>2. i \in Nat /\ j \in Nat
  BY LaidBlock
<1>3. ~(i < j) /\ ~(j < i)
  BY <1>1
<1> QED BY <1>2, <1>3

\* What is in memory for such a list.
LEMMA LaidBytes ==
    ASSUME NEW bs, Laid(bs), NEW p
    PROVE  p \in Bytes(bs) <=> \E i \in 1 .. Len(bs) : \E k \in 1 .. Len32(bs[i]) :
                                   p = <<bs[i].addr + k - 1, bs[i].data[k]>>
<1>1. ASSUME NEW i \in 1 .. Len(bs), NEW k \in 0 .. Len32(bs[i])-1
      PROVE  (bs[i].addr + k) % W = bs[i].addr + k
  <2>1. bs[i].addr \in Nat /\ Len32(bs[i]) = Top(bs[i]) - bs[i].addr /\ Top(bs[i]) <= W
        /\ Top(bs[i]) \in Nat
    BY LaidBlock
  <2>2. bs[i].addr + k \in 0 .. W-1
    BY <2>1, Sizes, SMTT(30)
  <2> QED BY <2>2, WrapSmall, Sizes
<1>2. ASSUME p \in Bytes(bs)
      PROVE  \E i \in 1 .. Len(bs) : \E k \in 1 .. Len32(bs[i]) :
                 p = <<bs[i].addr + k - 1, bs[i].data[k]>>
  <2>1. PICK i \in 1 .. Len(bs) : p \in BytesOf(bs[i])
    BY <1>2 DEF Bytes
  <2>2. PICK k \in 0 .. Len32(bs[i])-1 : p = <<(bs[i].addr + k) % W, bs[i].data[k+1]>>
    BY <2>1 DEF BytesOf
  <2>3. Len32(bs[i]) \in Nat /\ bs[i].addr \in Nat
    BY LaidBlock, ListBlocks
  <2>4. k+1 \in 1 .. Len32(bs[i]) /\ bs[i].addr + (k+1) - 1 = bs[i].addr + k
    BY <2>3
  <2> QED BY <1>1, <2>2, <2>4
<1>3. ASSUME NEW i \in 1 .. Len(bs), NEW k \in 1 .. Len32(bs[i]),
             p = <<bs[i].addr + k - 1, bs[i].data[k]>>
      PROVE  p \in Bytes(bs)
  <2>1. Len32(bs[i]) \in Nat /\ bs[i].addr \in Nat
    BY LaidBlock, ListBlocks
  <2>2. k-1 \in 0 .. Len32(bs[i])-1 /\ bs[i].addr + (k-1) = bs[i].addr + k - 1 /\ (k-1)+1 = k
    BY <2>1
  <2>3. p = <<(bs[i].addr + (k-1)) % W, bs[i].data[(k-1)+1]>>
    BY <1>1, <1>3, <2>2
  <2>4. p \in BytesOf(bs[i])
    BY <2>2, <2>3 DEF BytesOf
  <2> QED BY <2>4 DEF Bytes
<1> QED BY <1>2, <1>3

LEMMA LaidImage ==
    ASSUME NEW bs, Laid(bs)
    PROVE  /\ DOMAIN Image(bs) \subseteq Nat
           /\ \A a \in DOMAIN Image(bs) : a < W
           /\ \A a \in Nat : a \in DOMAIN Image(bs) <=>
                 \E i \in 1 .. Len(bs) : bs[i].addr <= a /\ a < Top(bs[i])
           /\ \A i \in 1 .. Len(bs) : \A a \in Nat :
                 bs[i].addr <= a /\ a < Top(bs[i])
                     => a \in DOMAIN Image(bs) /\ Image(bs)[a] = bs[i].data[a - bs[i].addr + 1]
<1>1. /\ DOMAIN Image(bs) = {p[1] : p \in Bytes(bs)}
      /\ \A x \in DOMAIN Image(bs) : <<x, Image(bs)[x]>> \in Bytes(bs)
  BY LaidBlock, ImageBytes
<1>2. ASSUME NEW a \in DOMAIN Image(bs)
      PROVE  /\ a \in Nat /\ a < W
             /\ \E i \in 1 .. Len(bs) :
                  /\ bs[i].addr <= a /\ a < Top(bs[i])
                  /\ Image(bs)[a] = bs[i].data[a - bs[i].addr + 1]
  <2> DEFINE p == <<a, Image(bs)[a]>>
  <2>1. p \in Bytes(bs)
    BY <1>1
  <2>2. \E i \in 1 .. Len(bs) : \E k \in 1 .. Len32(bs[i]) :
               p = <<bs[i].addr + k - 1, bs[i].data[k]>>
    <3> HIDE DEF p
    <3> QED BY <2>1, LaidBytes, ZenonT(40)
  <2>3. PICK i \in 1 .. Len(bs) : \E k \in 1 .. Len32(bs[i]) :
               <<a, Image(bs)[a]>> = <<bs[i].addr + k - 1, bs[i].data[k]>>
    BY <2>2
  <2>4. PICK k \in 1 .. Len32(bs[i]) :
               <<a, Image(bs)[a]>> = <<bs[i].addr + k - 1, bs[i].data[k]>>
    BY <2>3
  <2>5. a = bs[i].addr + k - 1 /\ Image(bs)[a] = bs[i].data[k]
    BY <2>4
  <2>6. /\ bs[i].addr \in Nat /\ Top(bs[i]) \in Nat /\ Top(bs[i]) <= W /\ W \in Nat
        /\ Len32(bs[i]) = Top(bs[i]) - bs[i].addr
    BY LaidBlock, Sizes
  <2>7. a \in Nat /\ a < W /\ bs[i].addr <= a /\ a < Top(bs[i]) /\ a - bs[i].addr + 1 = k
    BY <2>5, <2>6
  <2> QED BY <2>5, <2>7
<1>3. ASSUME NEW i \in 1 .. Len(bs), NEW a \in Nat, bs[i].addr <= a, a < Top(bs[i])
      PROVE  a \in DOMAIN Image(bs) /\ Image(bs)[a] = bs[i].data[a - bs[i].addr + 1]
  <2> DEFINE k == a - bs[i].addr + 1
             p == <<a, bs[i].data[k]>>
  <2>1. /\ bs[i].addr \in Nat /\ Top(bs[i]) \in Nat
        /\ Len32(bs[i]) = Top(bs[i]) - bs[i].addr
    BY LaidBlock
  <2>2. k \in 1 .. Len32(bs[i]) /\ a = bs[i].addr + k - 1
    BY <1>3, <2>1
  <2>3. p \in Bytes(bs)
    <3>1. p = <<bs[i].addr + k - 1, bs[i].data[k]>>
      BY <2>2
    <3> HIDE DEF p, k
    <3> QED BY <2>2, <3>1, LaidBytes
  <2>4. p[1] = a
    OBVIOUS
  <2>5. a \in DOMAIN Image(bs)
    BY <1>1, <2>3, <2>4, Zenon
  <2>6. PICK j \in 1 .. Len(bs) :
                  /\ bs[j].addr <= a /\ a < Top(bs[j])
                  /\ Image(bs)[a] = bs[j].data[a - bs[j].addr + 1]
    BY <1>2, <2>5
  <2>7. i = j
    BY <1>3, <2>6, LaidApart
  <2> QED BY <2>5, <2>6, <2>7
<1> QED BY <1>2, <1>3

LEMMA ReadLaid ==
    ASSUME NEW bs \in ReadLists(MaxBlocks, 1 .. MaxLength)
    PROVE  Laid(bs)
<1> DEFINE n == Len(bs)
<1>1. /\ bs \in Seq(BlockType) /\ n \in Nat
      /\ \A i \in 1 .. n : Len32(bs[i]) \in Nat \ {0} /\ bs[i].addr \in Nat /\ bs[i].addr < W
  <2>1. bs \in Seq(BlockType) /\ \A i \in 1 .. n : Len(bs[i].data) \in Nat \ {0}
    BY ReadListsType
  <2>2. \A i \in 1 .. n : bs[i].addr \in Address
    BY <2>1, ListBlocks
  <2> QED BY <2>1, <2>2, LenProperties, Sizes DEF Len32, Address
<1>2. \A i \in 1 .. n-1 : bs[i].addr + Len32(bs[i]) <= bs[i+1].addr
  BY DEF ReadLists, Ascending
<1> HIDE DEF n
<1>3. \A i \in 1 .. n : Top(bs[i]) \in Nat /\ bs[i].addr < Top(bs[i])
  BY <1>1 DEF Top
<1>4. \A i \in 1 .. n-1 : Top(bs[i]) <= bs[i+1].addr
  BY <1>2 DEF Top
<1>5. ASSUME NEW i \in 1 .. n, NEW j \in 1 .. n, i < j
      PROVE  Top(bs[i]) <= bs[j].addr
  <2> DEFINE l == n-i-1
             T == {m \in 0 .. l : Top(bs[i]) <= bs[i+1+m].addr}
  <2>1. l \in Nat /\ i \in 1 .. n-1
    BY <1>1, <1>5
  <2>2. 0 \in T
    <3>1. i+1+0 = i+1 /\ 0 \in 0 .. l
      BY <2>1
    <3> QED BY <1>4, <2>1, <3>1
  <2>3. ASSUME NEW m \in 1 .. l, m-1 \in T PROVE m \in T
    <3>1. i+1+(m-1) = i+m /\ i+m \in 1 .. n-1 /\ i+1+m = (i+m)+1 /\ i+m \in 1 .. n
          /\ (i+m)+1 \in 1 .. n /\ m \in 0 .. l
      BY <1>1, <2>1
    <3>2. Top(bs[i]) <= bs[i+m].addr
      BY <2>3, <3>1
    <3>3. bs[i+m].addr < Top(bs[i+m]) /\ Top(bs[i+m]) <= bs[(i+m)+1].addr
      BY <1>3, <1>4, <3>1
    <3>4. bs[i+m].addr \in Nat /\ Top(bs[i+m]) \in Nat /\ bs[(i+m)+1].addr \in Nat
          /\ Top(bs[i]) \in Nat
      BY <1>1, <1>3, <3>1
    <3>5. Top(bs[i]) <= bs[(i+m)+1].addr
      BY <3>2, <3>3, <3>4
    <3> QED BY <3>1, <3>5
  <2>4. T \in SUBSET (0 .. l)
    OBVIOUS
  <2>5. \A m \in 0 .. l : m \in T
    <3> HIDE DEF T, l
    <3> QED BY <2>1, <2>2, <2>3, <2>4, Stepwise
  <2>6. j-i-1 \in 0 .. l /\ i+1+(j-i-1) = j
    BY <1>1, <1>5
  <2> QED BY <2>5, <2>6
<1>6. ASSUME NEW i \in 1 .. n PROVE Top(bs[i]) <= W
  <2>1. Top(bs[n]) <= W
    <3>1. bs # << >>
      BY <1>1, <1>6 DEF n
    <3> QED BY <3>1, ReadListsType DEF Top, Last, n
  <2>2. CASE i = n
    BY <2>1, <2>2
  <2>3. CASE i # n
    <3>1. Top(bs[i]) <= bs[n].addr /\ bs[n].addr < W
      BY <1>1, <1>5, <1>6, <2>3
    <3>2. Top(bs[i]) \in Nat /\ bs[n].addr \in Nat /\ W \in Nat
      BY <1>1, <1>3, <1>6, Sizes
    <3> QED BY <3>1, <3>2
  <2> QED BY <2>2, <2>3
<1> QED BY <1>1, <1>5, <1>6 DEF Laid, n

-----------------------------------------------------------------------------
\* The lowest and the highest address that was read.
LEMMA WasReadEnds ==
    ASSUME Laid(before), before # << >>
    PROVE  LET lo == before[1].addr
               top == Top(Last(before))
           IN  /\ Last(before) = before[Len(before)]
               /\ lo \in Nat /\ top \in Nat /\ top <= W
               /\ lo \in WasRead /\ top-1 \in WasRead
               /\ \A a \in WasRead : a \in Nat /\ lo <= a /\ a <= top-1
<1> DEFINE n == Len(before)
           lo == before[1].addr
           top == Top(Last(before))
<1>1. before \in Seq(BlockType) /\ n \in Nat /\ n # 0
  BY LaidBlock, EmptySeq
<1>2. 1 \in 1 .. n /\ n \in 1 .. n /\ Last(before) = before[n]
  BY <1>1 DEF Last
<1>3. /\ lo \in Nat /\ Top(before[1]) \in Nat /\ lo < Top(before[1])
      /\ before[n].addr \in Nat /\ top \in Nat /\ before[n].addr < top /\ top <= W
  BY <1>2, LaidBlock
<1>4. /\ WasRead \subseteq Nat
      /\ \A a \in Nat : a \in WasRead <=>
            \E i \in 1 .. n : before[i].addr <= a /\ a < Top(before[i])
  BY LaidImage DEF WasRead
<1>5. lo \in WasRead
  <2>1. before[1].addr <= lo /\ lo < Top(before[1])
    BY <1>3
  <2> QED BY <1>2, <1>3, <1>4, <2>1
<1>6. top-1 \in WasRead
  <2>1. top-1 \in Nat /\ before[n].addr <= top-1 /\ top-1 < top
    BY <1>3
  <2> QED BY <1>2, <1>4, <2>1
<1>7. ASSUME NEW a \in WasRead PROVE a \in Nat /\ lo <= a /\ a <= top-1
  <2>1. a \in Nat
    BY <1>4
  <2>2. PICK i \in 1 .. n : before[i].addr <= a /\ a < Top(before[i])
    BY <1>4, <2>1
  <2>3. before[i].addr \in Nat /\ Top(before[i]) \in Nat /\ i \in Nat
    BY <1>1, LaidBlock
  <2>4. lo <= a
    <3>1. CASE i = 1
      BY <2>2, <3>1
    <3>2. CASE i # 1
      <4>1. Top(before[1]) <= before[i].addr
        BY <1>2, <2>3, <3>2 DEF Laid
      <4> QED BY <1>3, <2>1, <2>2, <2>3, <4>1
    <3> QED BY <3>1, <3>2
  <2>5. a <= top-1
    <3>1. CASE i = n
      BY <1>2, <1>3, <2>1, <2>2, <3>1
    <3>2. CASE i # n
      <4>1. i < n
        BY <1>1, <3>2
      <4>2. Top(before[i]) <= before[n].addr
        BY <1>2, <4>1 DEF Laid
      <4> QED BY <1>3, <2>1, <2>2, <2>3, <4>2
    <3> QED BY <3>1, <3>2
  <2> QED BY <2>1, <2>4, <2>5
<1> QED BY <1>2, <1>3, <1>5, <1>6, <1>7

\* HexMerge's test, said of the bytes.
LEMMA MergesIfApart ==
    ASSUME before \in ReadLists(MaxBlocks, 1 .. MaxLength), blocks = before, "hex" \notin failed
    PROVE  MergeWrites <=> Merged
<1>1. CASE before = << >>
  <2>1. WasRead = {}
    BY <1>1 DEF WasRead, Image
  <2> QED BY <1>1, <2>1 DEF MergeWrites, Merged
<1>2. CASE before # << >>
  <2> DEFINE lo == before[1].addr
             top == Top(Last(before))
             e == (LoaderAt + LoaderLength) % W
  <2>1. /\ lo \in Nat /\ top \in Nat /\ top <= W /\ lo \in WasRead /\ top-1 \in WasRead
        /\ \A a \in WasRead : a \in Nat /\ lo <= a /\ a <= top-1
    BY <1>2, ReadLaid, WasReadEnds
  <2>2. /\ LoaderAt \in Nat /\ LoaderAt < W /\ LoaderLength \in Nat /\ W \in Nat \ {0} /\ e \in Nat
    BY PublishAssumption, SizesAssumption, SMTT(30) DEF Address
  <2>3. End(Last(Loader)) = e
    <3>1. Last(Loader) = Block(LoaderAt, BytesAt(LoaderAt, LoaderLength))
      BY DEF Loader, Last
    <3>2. Len(BytesAt(LoaderAt, LoaderLength)) = LoaderLength
      BY <2>2 DEF BytesAt
    <3> QED BY <3>1, <3>2 DEF End, Len32, Block
  <2>4. End(Last(blocks)) = top % W
    BY DEF End, Top
  <2>5. LoaderIsLower <=> \A a \in WasRead : a > e
    <3> HIDE DEF lo, top, e
    <3>1. LoaderIsLower <=> lo > e
      BY <2>3 DEF LoaderIsLower, lo
    <3> QED BY <2>1, <2>2, <3>1
  <2>6. End(Last(blocks)) <= LoaderAt <=> (\A a \in WasRead : a < LoaderAt) \/ W-1 \in WasRead
    <3> HIDE DEF lo, top, e
    <3>1. CASE top = W
      <4>1. W % W = 0 /\ W-1 \in WasRead
        BY <2>1, <2>2, <3>1
      <4> QED BY <2>2, <2>4, <3>1, <4>1
    <3>2. CASE top # W
      <4>1. top \in 0 .. W-1
        BY <2>1, <2>2, <3>2
      <4>2. top % W = top
        BY <2>2, <4>1, WrapSmall
      <4>3. W-1 \notin WasRead
        BY <2>1, <2>2, <3>2
      <4>4. top <= LoaderAt <=> \A a \in WasRead : a < LoaderAt
        BY <2>1, <2>2
      <4> QED BY <2>4, <4>2, <4>3, <4>4
    <3> QED BY <3>1, <3>2
  <2>7. WasRead # {} /\ blocks # << >>
    BY <1>2, <2>1
  <2>8. SeemApart <=> LoaderIsLower \/ End(Last(blocks)) <= LoaderAt
    BY <2>5, <2>6 DEF SeemApart
  <2> QED BY <2>7, <2>8 DEF MergeWrites, Merged
<1> QED BY <1>1, <1>2

-----------------------------------------------------------------------------
\* The file being read, and how far: the buffer is a beginning of it.
Reading == /\ dir.bin = "new" => files # << >>
           /\ step \in {"HexMerge", "HexToBin", "GenUpdateFile"} => got = << >>
           /\ step = "read" => Len(got) <= Len(BinData) /\ got = SubSeq(BinData, 1, Len(got))
           /\ step = "write" => got = BinData

\* What decides whether .hex, .bin and .dat are this publication's, as far as
\* the script has come.
Update == {"bin", "dat", "memory"}
Following ==
    /\ step = "HexMerge" => blocks = before /\ failed = {} /\ dir.hex = "before"
    /\ step # "HexMerge" => (dir.hex = "new" <=> Merged)
    /\ step \in {"HexMerge", "HexToBin"} => dir.bin # "new" /\ "bin" \notin failed
    /\ step \in {"GenUpdateFile", "read", "write"} => (dir.bin = "new" <=> "bin" \notin failed)
    /\ step \notin {"del", "ExecCP"} =>
          dir.dat # "new" /\ "dat" \notin failed /\ "memory" \notin failed
    /\ step \in {"del", "ExecCP"} => (dir.dat = "new" <=> failed \cap Update = {})

\* PackedBuilds and ReadToItsEnd rest on this.
PInv ==
    /\ BinInv
    /\ step \in Steps /\ dir \in DirType /\ got \in Seq(Int)
    /\ before \in ReadLists(MaxBlocks, 1 .. MaxLength)
    /\ Reading
    /\ Following

LEMMA InitPInv == PublishInit => PInv
<1> SUFFICES ASSUME PublishInit PROVE PInv
  OBVIOUS
<1>1. BinInv /\ before \in ReadLists(MaxBlocks, 1 .. MaxLength) /\ blocks = before
  BY InitBinInv DEF PublishInit, Init
<1>2. step = "HexMerge" /\ got = << >> /\ failed = {}
  BY DEF PublishInit
<1>3. PICK bin \in {"none", "before"} :
          dir = [hex |-> "before", bin |-> bin, dat |-> "before", program |-> << >>]
  BY DEF PublishInit
<1>4. dir \in DirType /\ dir.hex = "before" /\ dir.bin # "new" /\ dir.dat = "before"
  BY <1>3 DEF DirType
<1> QED BY <1>1, <1>2, <1>4 DEF PInv, Steps, Reading, Following

\* WasRead and SeemApart are about `before', which no step changes.
LEMMA ReadStays ==
    ASSUME before' = before
    PROVE  WasRead' = WasRead /\ (SeemApart' <=> SeemApart)
<1>1. WasRead' = WasRead
  BY SMTT(30) DEF WasRead, Image, Span, Len32
<1> QED BY <1>1 DEF SeemApart
LEMMA MergedStays ==
    ASSUME before' = before, terminal' = terminal, loader' = loader,
           "hex" \in failed' <=> "hex" \in failed
    PROVE  Merged' <=> Merged
BY ReadStays DEF Merged
LEMMA NextKeepsRead == Next => before' = before
BY DEF Next, FillStops, StartFails, FillGap, WriteOn, NewFile, NewFileFails, BinEnds

LEMMA MinOfTwo ==
    ASSUME NEW a \in Int, NEW b \in Int
    PROVE  Min({a, b}) = IF a <= b THEN a ELSE b
<1>1. \E x \in {a, b} : \A y \in {a, b} : x <= y
  OBVIOUS
<1> QED BY <1>1 DEF Min

LEMMA BinDataType ==
    ASSUME BinInv, Reading
    PROVE  BinData \in Seq(Int)
<1>1. CASE dir.bin = "new"
  <2>1. files \in Seq(FileType) /\ files # << >>
    BY <1>1 DEF BinInv, Reading
  <2>2. files[1] \in FileType
    BY <2>1, EmptySeq, ElementOfSeq
  <2> QED BY <1>1, <2>2 DEF BinData, FileType
<1>2. CASE dir.bin # "new"
  BY <1>2 DEF BinData, Filler
<1> QED BY <1>1, <1>2

\* One turn of the reading loop: a short chunk is the last one.
LEMMA ChunkReads ==
    ASSUME PInv, ReadChunk
    PROVE  /\ got' \in Seq(Int)
           /\ step' = "read" => Len(got') <= Len(BinData) /\ got' = SubSeq(BinData, 1, Len(got'))
           /\ step' \in {"read", "write"} /\ (step' = "write" => got' = BinData)
<1> DEFINE n == Len(got)
           m == Min({n + Chunk, Len(BinData)})
           chunk == SubSeq(BinData, n+1, m)
<1>1. /\ step = "read" /\ got' = got \o chunk
      /\ step' = IF Len(chunk) = Chunk THEN "read" ELSE "write"
  BY DEF ReadChunk, Filled
<1>2. BinData \in Seq(Int)
  BY BinDataType DEF PInv
<1>3. /\ got \in Seq(Int) /\ n \in Nat /\ Len(BinData) \in Nat /\ Chunk \in Nat \ {0}
      /\ n <= Len(BinData) /\ got = SubSeq(BinData, 1, n)
  BY <1>1, <1>2, LenProperties, PublishAssumption DEF PInv, Reading
<1>4. m = IF n + Chunk <= Len(BinData) THEN n + Chunk ELSE Len(BinData)
  BY <1>3, MinOfTwo
<1>5. m \in n .. Len(BinData)
  BY <1>3, <1>4
<1> HIDE DEF n, m
<1>6. got \o chunk = SubSeq(BinData, 1, m)
  BY <1>2, <1>3, <1>5, ConcatAdjacentSubSeq, SMTT(30)
<1>7. /\ Len(chunk) = m - n
      /\ SubSeq(BinData, 1, m) \in Seq(Int) /\ Len(SubSeq(BinData, 1, m)) = m
  <2>1. \A i \in 1 .. Len(BinData) : BinData[i] \in Int
    BY <1>2, ElementOfSeq
  <2>2. Len(chunk) = m - n
    BY <1>3, <1>5, <2>1, SubSeqProperties
  <2>3. SubSeq(BinData, 1, m) \in Seq(Int) /\ Len(SubSeq(BinData, 1, m)) = m
    BY <1>3, <1>5, <2>1, SubSeqProperties
  <2> QED BY <2>2, <2>3
<1>8. Len(chunk) # Chunk => m = Len(BinData)
  BY <1>3, <1>4, <1>7
<1>9. SubSeq(BinData, 1, Len(BinData)) = BinData
  BY <1>2, SubSeqFull
<1>10. got' = SubSeq(BinData, 1, m) /\ Len(got') = m /\ got' \in Seq(Int) /\ m <= Len(BinData)
  BY <1>1, <1>3, <1>5, <1>6, <1>7
<1> QED BY <1>1, <1>8, <1>9, <1>10

LEMMA StepPInv == PInv /\ [PublishNext]_publishVars => PInv'
<1> SUFFICES ASSUME PInv, [PublishNext]_publishVars PROVE PInv'
  OBVIOUS
<1>1. CASE HexMerge
  <2>1. /\ UNCHANGED <<vars, terminal, loader, got, failed>>
        /\ step = "HexMerge" /\ step' = "HexToBin" /\ dir' \in DirType
        /\ dir'.bin = dir.bin /\ dir'.dat = dir.dat
        /\ dir'.hex = IF MergeWrites THEN "new" ELSE dir.hex
    BY <1>1 DEF HexMerge, PInv, DirType
  <2>2. BinInv' /\ before' = before
    BY <2>1 DEF vars, PInv, BinInv
  <2>3. blocks = before /\ failed = {} /\ dir.hex = "before"
    BY <2>1 DEF PInv, Following
  <2>4. (MergeWrites <=> Merged) /\ (Merged' <=> Merged)
    BY <2>1, <2>2, <2>3, MergesIfApart, MergedStays DEF PInv
  <2>5. dir'.hex = "new" <=> Merged'
    BY <2>1, <2>3, <2>4
  <2>6. Reading'
    BY <2>1 DEF PInv, Reading, Following
  <2>7. Following'
    BY <2>1, <2>5 DEF PInv, Following
  <2> QED BY <2>1, <2>2, <2>6, <2>7 DEF PInv, Steps
<1>2. CASE HexMergeFails
  <2>1. /\ UNCHANGED <<vars, terminal, loader, dir, got>>
        /\ step = "HexMerge" /\ step' = "HexToBin" /\ failed' = failed \cup {"hex"}
    BY <1>2 DEF HexMergeFails, Fails
  <2>2. BinInv' /\ before' = before
    BY <2>1 DEF vars, PInv, BinInv
  <2>3. ~Merged' /\ dir.hex = "before"
    BY <2>1 DEF PInv, Following, Merged
  <2>4. Reading'
    BY <2>1 DEF PInv, Reading, Following
  <2>5. Following'
    BY <2>1, <2>3 DEF PInv, Following
  <2> QED BY <2>1, <2>2, <2>4, <2>5 DEF PInv, Steps
<1>3. CASE HexToBin
  <2>1. /\ Next /\ before' = before /\ UNCHANGED <<terminal, loader, got>>
        /\ step = "HexToBin"
    BY <1>3, NextKeepsRead DEF HexToBin
  <2>2. BinInv' /\ dir \in DirType /\ got = << >>
    BY <2>1, StepBinInv DEF PInv, Reading
  <2>3. /\ dir.hex = "new" <=> Merged
        /\ dir.bin # "new" /\ "bin" \notin failed
        /\ dir.dat # "new" /\ "dat" \notin failed /\ "memory" \notin failed
    BY <2>1 DEF PInv, Following
  <2>4. /\ dir' \in DirType /\ dir'.hex = dir.hex /\ dir'.dat = dir.dat
        /\ "hex" \in failed' <=> "hex" \in failed
        /\ "dat" \notin failed' /\ "memory" \notin failed'
        /\ dir'.bin = "new" => files' # << >>
        /\ \/ step' = "HexToBin" /\ dir' = dir /\ failed' = failed
           \/ step' = "GenUpdateFile" /\ (dir'.bin = "new" <=> "bin" \notin failed')
    <3>1. CASE pc' \notin {"done", "failed"}
      <4>1. step' = "HexToBin" /\ dir' = dir /\ failed' = failed
        BY <1>3, <2>1, <3>1 DEF HexToBin
      <4> QED BY <2>2, <2>3, <4>1
    <3>2. CASE pc' \in {"done", "failed"} /\ files' = << >>
      <4>1. step' = "GenUpdateFile" /\ dir' = dir /\ failed' = failed \cup {"bin"}
        BY <1>3, <3>2 DEF HexToBin, Fails
      <4> QED BY <2>2, <2>3, <4>1
    <3>3. CASE pc' \in {"done", "failed"} /\ files' # << >>
      <4>1. step' = "GenUpdateFile" /\ dir' = [dir EXCEPT !.bin = "new"] /\ failed' = failed
        BY <1>3, <3>3 DEF HexToBin
      <4>2. dir' \in DirType /\ dir'.hex = dir.hex /\ dir'.dat = dir.dat /\ dir'.bin = "new"
        BY <2>2, <4>1 DEF DirType
      <4> QED BY <2>3, <3>3, <4>1, <4>2
    <3> QED BY <3>1, <3>2, <3>3
  <2>5. Merged' <=> Merged
    BY <2>1, <2>4, MergedStays
  <2>6. Reading'
    BY <2>1, <2>2, <2>4 DEF Reading
  <2>7. Following'
    BY <2>3, <2>4, <2>5 DEF Following
  <2>8. step' \in Steps
    BY <2>4 DEF Steps
  <2> QED BY <2>1, <2>2, <2>4, <2>6, <2>7, <2>8 DEF PInv
<1>4. ASSUME UNCHANGED <<vars, terminal, loader>>
      PROVE  /\ BinInv' /\ before' = before /\ blocks' = blocks /\ files' = files
             /\ before' \in ReadLists(MaxBlocks, 1 .. MaxLength)
             /\ ("hex" \in failed' <=> "hex" \in failed) => (Merged' <=> Merged)
             /\ dir'.bin = dir.bin => BinData' = BinData
  BY <1>4, MergedStays DEF vars, PInv, BinInv, BinData
<1>5. CASE HexToBinFails
  <2>1. /\ UNCHANGED <<vars, terminal, loader, dir, got>>
        /\ step = "HexToBin" /\ step' = "GenUpdateFile" /\ failed' = failed \cup {"bin"}
    BY <1>5 DEF HexToBinFails, Fails
  <2>2. Reading'
    BY <1>4, <2>1 DEF PInv, Reading
  <2>3. Following'
    BY <1>4, <2>1 DEF PInv, Following
  <2> QED BY <1>4, <2>1, <2>2, <2>3 DEF PInv, Steps
<1>6. CASE GenUpdateFails
  <2>1. /\ UNCHANGED <<vars, terminal, loader, dir, got>>
        /\ step = "GenUpdateFile" /\ step' = "del" /\ failed' = failed \cup {"dat"}
    BY <1>6 DEF GenUpdateFails, Fails
  <2>2. Reading'
    BY <1>4, <2>1 DEF PInv, Reading
  <2>3. Following'
    BY <1>4, <2>1 DEF PInv, Following, Update
  <2> QED BY <1>4, <2>1, <2>2, <2>3 DEF PInv, Steps
<1>7. CASE GenUpdateOpens
  <2>1. /\ UNCHANGED <<vars, terminal, loader, got, failed>>
        /\ step = "GenUpdateFile" /\ step' = "read" /\ got = << >>
        /\ dir' \in DirType /\ dir'.hex = dir.hex /\ dir'.dat = "emptied" /\ dir'.bin = dir.bin
    BY <1>7 DEF GenUpdateOpens, PInv, Reading, DirType
  <2>2. Len(got') <= Len(BinData') /\ got' = SubSeq(BinData', 1, Len(got'))
    <3>1. BinData \in Seq(Int)
      BY BinDataType DEF PInv
    <3> QED BY <1>4, <2>1, <3>1, LenProperties, EmptySeq, SubSeqEmpty
  <2>3. Reading'
    BY <1>4, <2>1, <2>2 DEF PInv, Reading
  <2>4. Following'
    BY <1>4, <2>1 DEF PInv, Following
  <2> QED BY <1>4, <2>1, <2>3, <2>4 DEF PInv, Steps
<1>8. CASE ReadChunk
  <2>1. UNCHANGED <<vars, terminal, loader, dir, failed>> /\ step = "read"
    BY <1>8 DEF ReadChunk
  <2>2. /\ got' \in Seq(Int) /\ step' \in {"read", "write"}
        /\ step' = "read" => Len(got') <= Len(BinData) /\ got' = SubSeq(BinData, 1, Len(got'))
        /\ step' = "write" => got' = BinData
    BY <1>8, ChunkReads
  <2>3. Reading'
    BY <1>4, <2>1, <2>2 DEF PInv, Reading
  <2>4. Following'
    BY <1>4, <2>1, <2>2 DEF PInv, Following
  <2> QED BY <1>4, <2>1, <2>2, <2>3, <2>4 DEF PInv, Steps
<1>9. CASE ReadFails
  <2>1. /\ UNCHANGED <<vars, terminal, loader, dir, got>>
        /\ step = "read" /\ step' = "del" /\ failed' = failed \cup {"memory"}
    BY <1>9 DEF ReadFails, Fails
  <2>2. Reading'
    BY <1>4, <2>1 DEF PInv, Reading
  <2>3. Following'
    BY <1>4, <2>1 DEF PInv, Following, Update
  <2> QED BY <1>4, <2>1, <2>2, <2>3 DEF PInv, Steps
<1>10. CASE WriteUpdate
  <2>1. /\ UNCHANGED <<vars, terminal, loader, got, failed>>
        /\ step = "write" /\ step' = "del" /\ dir' \in DirType
        /\ dir'.hex = dir.hex /\ dir'.bin = dir.bin
        /\ dir'.dat = IF dir.bin = "new" THEN "new" ELSE "stale"
    BY <1>10 DEF WriteUpdate, PInv, DirType
  <2>2. Reading'
    BY <1>4, <2>1 DEF PInv, Reading
  <2>3. dir'.dat = "new" <=> failed' \cap Update = {}
    BY <2>1 DEF PInv, Following, Update
  <2>4. Following'
    BY <1>4, <2>1, <2>3 DEF PInv, Following
  <2> QED BY <1>4, <2>1, <2>2, <2>4 DEF PInv, Steps
<1>11. CASE Delete
  <2>1. /\ UNCHANGED <<vars, terminal, loader, got, failed>>
        /\ step = "del" /\ step' = "ExecCP" /\ dir' \in DirType
        /\ dir'.hex = dir.hex /\ dir'.dat = dir.dat
        /\ dir'.bin = "new" => dir.bin = "new"
    BY <1>11 DEF Delete, PInv, DirType
  <2>2. Reading'
    BY <1>4, <2>1 DEF PInv, Reading
  <2>3. Following'
    BY <1>4, <2>1 DEF PInv, Following
  <2> QED BY <1>4, <2>1, <2>2, <2>3 DEF PInv, Steps
<1>12. CASE UNCHANGED publishVars
  <2>1. UNCHANGED <<vars, terminal, loader, step, dir, got, failed>>
    BY <1>12 DEF publishVars
  <2>2. Reading'
    BY <1>4, <2>1 DEF PInv, Reading
  <2>3. Following'
    BY <1>4, <2>1 DEF PInv, Following
  <2> QED BY <1>4, <2>1, <2>2, <2>3 DEF PInv, Steps
<1> QED BY <1>1, <1>2, <1>3, <1>5, <1>6, <1>7, <1>8, <1>9, <1>10, <1>11, <1>12 DEF PublishNext

-----------------------------------------------------------------------------
\* What is packed: .hex is of this publication exactly if it could be written
\* and both files were complete and apart, .dat exactly if no step of its own
\* making failed; each whatever became of the other.
THEOREM PackedAre == PublishSpec => []PackedBuilds
<1>1. PInv => PackedBuilds
  BY DEF PInv, Following, PackedBuilds, Update
<1> QED BY <1>1, InitPInv, StepPInv, PTL DEF PublishSpec

\* Whatever the chunk and the length of the .bin, GenerateUpdateFile has read
\* all of it, and nothing else, by the time it writes.
ReadToItsEnd == step = "write" => got = BinData
THEOREM ReadsAll == PublishSpec => []ReadToItsEnd
<1>1. PInv => ReadToItsEnd
  BY DEF PInv, Reading, ReadToItsEnd
<1> QED BY <1>1, InitPInv, StepPInv, PTL DEF PublishSpec
-----------------------------------------------------------------------------
\* A list with the gap behind its first block filled.
Gap(bs) == bs[2].addr - Top(bs[1])
Plug(bs) == Block(Top(bs[1]), [i \in 1 .. Gap(bs) |-> Filler])
Plugged(bs) == InsertAt(bs, 2, Plug(bs))

LEMMA PlugIs ==
    ASSUME NEW bs, Laid(bs), Len(bs) > 1, Gap(bs) > 0
    PROVE  /\ Plug(bs) \in BlockType /\ Plug(bs).addr = Top(bs[1])
           /\ Len32(Plug(bs)) = Gap(bs) /\ Top(Plug(bs)) = bs[2].addr
           /\ \A k \in 1 .. Gap(bs) : Plug(bs).data[k] = Filler
<1>1. 1 \in 1 .. Len(bs) /\ 2 \in 1 .. Len(bs)
  BY LaidBlock
<1>2. Top(bs[1]) \in Nat /\ bs[2].addr \in Nat /\ bs[2].addr < W /\ Top(bs[1]) <= bs[2].addr
  BY <1>1, LaidBlock
<1>3. Gap(bs) \in Nat
  BY <1>2 DEF Gap
<1>4. Top(bs[1]) \in Address
  BY <1>2, Sizes DEF Address
<1>5. [i \in 1 .. Gap(bs) |-> Filler] \in Seq(Int) /\ Len([i \in 1 .. Gap(bs) |-> Filler]) = Gap(bs)
  BY <1>3 DEF Filler
<1>6. Plug(bs) \in BlockType /\ Plug(bs).addr = Top(bs[1])
      /\ Plug(bs).data = [i \in 1 .. Gap(bs) |-> Filler]
  BY <1>4, <1>5 DEF Plug, Block, BlockType
<1>7. Len32(Plug(bs)) = Gap(bs)
  BY <1>5, <1>6 DEF Len32
<1>8. Top(Plug(bs)) = bs[2].addr
  <2>1. Top(Plug(bs)) = Top(bs[1]) + Gap(bs)
    BY <1>6, <1>7 DEF Top
  <2> QED BY <1>2, <2>1 DEF Gap
<1> QED BY <1>6, <1>7, <1>8

LEMMA PluggedIs ==
    ASSUME NEW bs, Laid(bs), Len(bs) > 1, Gap(bs) > 0
    PROVE  /\ Len(Plugged(bs)) = Len(bs) + 1
           /\ Plugged(bs)[1] = bs[1] /\ Plugged(bs)[2] = Plug(bs)
           /\ \A j \in 3 .. Len(bs)+1 : Plugged(bs)[j] = bs[j-1]
           /\ \A j \in 2 .. Len(bs) : Plugged(bs)[j+1] = bs[j]
           /\ Laid(Plugged(bs))
<1> DEFINE cs == Plugged(bs)
<1>1. /\ bs \in Seq(BlockType) /\ Len(bs) \in Nat /\ 2 \in 1 .. Len(bs)+1 /\ Plug(bs) \in BlockType
      /\ 1 \in 1 .. Len(bs) /\ 2 \in 1 .. Len(bs)
  BY LaidBlock, PlugIs
<1>2. /\ cs \in Seq(BlockType) /\ Len(cs) = Len(bs) + 1 /\ cs[2] = Plug(bs)
      /\ \A j \in 1 .. 2-1 : cs[j] = bs[j]
      /\ \A j \in 2+1 .. Len(bs)+1 : cs[j] = bs[j-1]
  BY <1>1, InsertedBlock DEF Plugged
<1>3. cs[1] = bs[1] /\ \A j \in 3 .. Len(bs)+1 : cs[j] = bs[j-1]
  BY <1>2
<1>4. \A j \in 2 .. Len(bs) : cs[j+1] = bs[j]
  <2> SUFFICES ASSUME NEW j \in 2 .. Len(bs) PROVE cs[j+1] = bs[j]
    OBVIOUS
  <2>1. j+1 \in 3 .. Len(bs)+1 /\ (j+1)-1 = j
    BY <1>1
  <2> QED BY <1>3, <2>1
<1> HIDE DEF cs
<1> DEFINE from(j) == IF j = 1 THEN 1 ELSE j-1
<1>5. ASSUME NEW j \in 1 .. Len(bs)+1, j # 2
      PROVE  from(j) \in 1 .. Len(bs) /\ cs[j] = bs[from(j)]
             /\ (j = 1 => from(j) = 1) /\ (j # 1 => from(j) = j-1 /\ j > 2)
  BY <1>1, <1>3, <1>5
<1>6. Len32(cs[2]) # 0 /\ Top(cs[2]) <= W /\ cs[2].addr = Top(bs[1]) /\ Top(cs[2]) = bs[2].addr
  <2>1. bs[2].addr \in Nat /\ bs[2].addr < W /\ Top(bs[1]) \in Nat
    BY <1>1, LaidBlock
  <2>2. Gap(bs) # 0
    BY <2>1 DEF Gap
  <2>3. bs[2].addr <= W
    BY <2>1, Sizes
  <2> QED BY <1>2, <2>2, <2>3, PlugIs
<1>7. ASSUME NEW j \in 1 .. Len(bs)+1
      PROVE  Len32(cs[j]) # 0 /\ Top(cs[j]) <= W
  BY <1>5, <1>6 DEF Laid
<1>8. ASSUME NEW i \in 1 .. Len(bs)+1, NEW j \in 1 .. Len(bs)+1, i < j
      PROVE  Top(cs[i]) <= cs[j].addr
  <2>1. CASE i # 2 /\ j # 2
    <3>1. from(i) \in 1 .. Len(bs) /\ from(j) \in 1 .. Len(bs) /\ from(i) < from(j)
      BY <1>1, <1>5, <1>8, <2>1
    <3> QED BY <1>5, <2>1, <3>1 DEF Laid
  <2>2. CASE i = 2
    <3>1. j # 2 /\ j > 2 /\ from(j) \in 1 .. Len(bs) /\ cs[j] = bs[from(j)] /\ from(j) = j-1
      BY <1>5, <1>8, <2>2
    <3>2. from(j) = 2 \/ from(j) > 2
      BY <1>1, <3>1
    <3>3. bs[2].addr <= bs[from(j)].addr
      <4>1. CASE from(j) = 2
        <5>1. bs[2].addr \in Nat
          BY <1>1, LaidBlock
        <5> QED BY <4>1, <5>1
      <4>2. CASE from(j) > 2
        <5>1. bs[2].addr \in Nat /\ bs[2].addr < Top(bs[2]) /\ Top(bs[2]) \in Nat
          BY <1>1, LaidBlock
        <5>2. Top(bs[2]) <= bs[from(j)].addr
          BY <1>1, <3>1, <4>2 DEF Laid
        <5>3. bs[from(j)].addr \in Nat
          BY <3>1, LaidBlock
        <5> QED BY <5>1, <5>2, <5>3
      <4> QED BY <3>2, <4>1, <4>2
    <3> QED BY <1>6, <2>2, <3>1, <3>3
  <2>3. CASE j = 2
    <3>1. i = 1
      BY <1>8, <2>3
    <3>2. Top(bs[1]) \in Nat
      BY <1>1, LaidBlock
    <3> QED BY <1>3, <1>6, <2>3, <3>1, <3>2
  <2> QED BY <2>1, <2>2, <2>3
<1>9. Laid(cs)
  BY <1>2, <1>7, <1>8 DEF Laid
<1> QED BY <1>2, <1>3, <1>4, <1>9 DEF cs

\* The arithmetic of ToBin and of the filling does not wrap before the last
\* block's end.
LEMMA EndIsTop ==
    ASSUME NEW bs, Laid(bs), NEW i \in 1 .. Len(bs), i < Len(bs)
    PROVE  /\ i+1 \in 1 .. Len(bs)
           /\ End(bs[i]) = Top(bs[i])
           /\ (bs[i+1].addr - End(bs[i])) % W = bs[i+1].addr - Top(bs[i])
           /\ bs[i+1].addr - Top(bs[i]) \in Nat
<1>1. Len(bs) \in Nat /\ i+1 \in 1 .. Len(bs) /\ i < i+1
  BY LaidBlock
<1>2. Top(bs[i]) \in Nat /\ Top(bs[i]) <= bs[i+1].addr
  BY <1>1, LaidBlock
<1>3. bs[i+1].addr \in Nat /\ bs[i+1].addr < W /\ W \in Nat \ {0}
  BY <1>1, LaidBlock, Sizes
<1>4. Top(bs[i]) \in 0 .. W-1 /\ bs[i+1].addr - Top(bs[i]) \in 0 .. W-1
  BY <1>2, <1>3
<1>5. End(bs[i]) = Top(bs[i])
  BY <1>3, <1>4, WrapSmall DEF End, Top
<1>6. (bs[i+1].addr - Top(bs[i])) % W = bs[i+1].addr - Top(bs[i])
  BY <1>3, <1>4, WrapSmall
<1> QED BY <1>1, <1>4, <1>5, <1>6

\* What the filling does: nothing if there is no gap behind the first block,
\* else it fills that one and then stops.
Untouched == /\ blocks = before /\ count = 0
             /\ pc = "fill" => current = 1
             /\ pc # "fill" /\ Len(before) > 1 => Gap(before) = 0
FilledOnce == /\ Len(before) > 1 /\ Gap(before) > 0
              /\ blocks = Plugged(before) /\ count = Gap(before)
              /\ pc = "fill" => current = 2
FillInv == Laid(before) /\ (Untouched \/ FilledOnce)

LEMMA FillLaid == FillInv => Laid(blocks)
BY PluggedIs DEF FillInv, Untouched, FilledOnce

LEMMA InitFillInv == Init => FillInv
BY ReadLaid DEF Init, FillInv, Untouched

LEMMA StepFillInv ==
    ASSUME FillInv, [Next]_vars
    PROVE  FillInv'
<1>1. before' = before
  BY NextKeepsRead DEF vars
<1>2. Laid(before) /\ Laid(before)' /\ Len(before) \in Nat
  BY <1>1, LaidBlock DEF FillInv
<1>3. CASE FillStops \/ StartFails
  <2>1. /\ pc = "fill" /\ pc' \in {"bin", "failed"} /\ blocks' = blocks /\ count' = count
        /\ (current < Len(blocks) => GapAfter(current) = 0)
    BY <1>3 DEF FillStops, StartFails, FillEnds, StartBin
  <2>2. CASE Untouched
    <3>1. Len(before) > 1 => Gap(before) = 0
      <4> SUFFICES ASSUME Len(before) > 1 PROVE Gap(before) = 0
        OBVIOUS
      <4>1. GapAfter(1) = 0 /\ blocks = before
        BY <2>1, <2>2 DEF Untouched
      <4>2. 1 \in 1 .. Len(before) /\ 1+1 = 2
        BY <1>2
      <4> QED BY <1>2, <4>1, <4>2, EndIsTop DEF GapAfter, Gap
    <3> QED BY <1>1, <1>2, <2>1, <2>2, <3>1 DEF FillInv, Untouched
  <2>3. CASE FilledOnce
    BY <1>1, <1>2, <2>1, <2>3 DEF FillInv, FilledOnce
  <2> QED BY <2>2, <2>3 DEF FillInv
<1>4. CASE FillGap
  <2>1. /\ pc = "fill" /\ pc' = "fill" /\ current < Len(blocks) /\ GapAfter(current) # 0
        /\ current' = current + 1 /\ count' = count + GapAfter(current)
        /\ blocks' = InsertAt(blocks, current+1, Block(End(blocks[current]),
                                  [i \in 1 .. GapAfter(current) |-> Filler]))
    BY <1>4 DEF FillGap
  <2>2. CASE Untouched
    <3>1. blocks = before /\ count = 0 /\ current = 1
      BY <2>1, <2>2 DEF Untouched
    <3>2. Len(before) > 1 /\ 1 \in 1 .. Len(before) /\ 1+1 = 2
      BY <1>2, <2>1, <3>1
    <3>3. GapAfter(1) = Gap(before) /\ Gap(before) \in Nat /\ End(before[1]) = Top(before[1])
      BY <1>2, <3>1, <3>2, EndIsTop DEF GapAfter, Gap
    <3>4. Gap(before) > 0
      BY <2>1, <3>1, <3>3
    <3>5. blocks' = InsertAt(before, 2, Block(Top(before[1]), [i \in 1 .. Gap(before) |-> Filler]))
      BY <2>1, <3>1, <3>2, <3>3
    <3>6. blocks' = Plugged(before)
      BY <3>5 DEF Plugged, Plug
    <3>7. count' = Gap(before) /\ current' = 2
      BY <2>1, <3>1, <3>3
    <3>8. FilledOnce'
      BY <1>1, <3>2, <3>4, <3>6, <3>7 DEF FilledOnce, Gap, Plugged, Plug, Top, Len32
    <3> QED BY <1>2, <3>8 DEF FillInv
  <2>3. CASE FilledOnce
    <3>1. Len(before) > 1 /\ Gap(before) > 0 /\ blocks = Plugged(before) /\ current = 2
      BY <2>1, <2>3 DEF FilledOnce
    <3>2. /\ Laid(blocks) /\ blocks[2] = Plug(before) /\ blocks[3] = before[2]
          /\ Top(blocks[2]) = before[2].addr /\ Len(blocks) = Len(before) + 1
      <4>1. /\ Laid(Plugged(before)) /\ Plugged(before)[2] = Plug(before)
            /\ Len(Plugged(before)) = Len(before)+1 /\ Top(Plug(before)) = before[2].addr
        BY <1>2, <3>1, PluggedIs, PlugIs
      <4>2. Plugged(before)[2+1] = before[2]
        BY <1>2, <3>1, PluggedIs
      <4> QED BY <3>1, <4>1, <4>2
    <3>3. 2 \in 1 .. Len(blocks) /\ 2 < Len(blocks) /\ 2+1 = 3
      BY <1>2, <3>1, <3>2
    <3>4. GapAfter(2) = blocks[3].addr - Top(blocks[2]) /\ blocks[3].addr - Top(blocks[2]) \in Nat
      BY <3>2, <3>3, EndIsTop DEF GapAfter
    <3>5. before[2].addr \in Nat
      BY <1>2, <3>1, LaidBlock, SMTT(30)
    <3>6. GapAfter(2) = 0
      BY <3>2, <3>4, <3>5
    <3> QED BY <2>1, <3>1, <3>6
  <2> QED BY <2>2, <2>3 DEF FillInv
<1>5. ASSUME blocks' = blocks, count' = count,
             (pc # "fill" /\ pc' # "fill") \/ (pc' = pc /\ current' = current)
      PROVE  FillInv'
  <2>1. CASE Untouched
    BY <1>1, <1>2, <1>5, <2>1 DEF FillInv, Untouched, Gap, Top, Len32
  <2>2. CASE FilledOnce
    BY <1>1, <1>2, <1>5, <2>2 DEF FillInv, FilledOnce, Gap, Plugged, Plug, Top, Len32
  <2> QED BY <2>1, <2>2 DEF FillInv
<1>6. CASE WriteOn
  <2>1. blocks' = blocks /\ count' = count /\ pc = "bin" /\ pc' = pc
    BY <1>6 DEF WriteOn
  <2> QED BY <1>5, <2>1
<1>7. CASE NewFile
  <2>1. blocks' = blocks /\ count' = count /\ pc = "bin" /\ pc' \in {"bin", "undefined"}
    BY <1>7 DEF NewFile
  <2> QED BY <1>5, <2>1
<1>8. CASE NewFileFails \/ BinEnds
  BY <1>5, <1>8 DEF NewFileFails, BinEnds
<1>9. CASE UNCHANGED vars
  BY <1>5, <1>9 DEF vars
<1> QED BY <1>3, <1>4, <1>6, <1>7, <1>8, <1>9 DEF Next

-----------------------------------------------------------------------------
\* The addresses and bytes of the filled list.
LEMMA PluggedImage ==
    ASSUME NEW bs, Laid(bs), Len(bs) > 1, Gap(bs) > 0
    PROVE  LET cs == Plugged(bs)
           IN  /\ DOMAIN Image(bs) \subseteq DOMAIN Image(cs)
               /\ \A a \in DOMAIN Image(bs) : Image(cs)[a] = Image(bs)[a]
               /\ DOMAIN Image(cs) \ DOMAIN Image(bs) = Top(bs[1]) .. bs[2].addr - 1
               /\ \A a \in Top(bs[1]) .. bs[2].addr - 1 : Image(cs)[a] = Filler
<1> DEFINE cs == Plugged(bs)
<1>1. /\ Laid(cs) /\ Len(cs) = Len(bs)+1 /\ cs[1] = bs[1] /\ cs[2] = Plug(bs)
      /\ \A j \in 3 .. Len(bs)+1 : cs[j] = bs[j-1]
      /\ \A j \in 2 .. Len(bs) : cs[j+1] = bs[j]
      /\ Plug(bs).addr = Top(bs[1]) /\ Top(Plug(bs)) = bs[2].addr /\ Len32(Plug(bs)) = Gap(bs)
      /\ \A k \in 1 .. Gap(bs) : Plug(bs).data[k] = Filler
  BY PluggedIs, PlugIs
<1>2. /\ Len(bs) \in Nat /\ 1 \in 1 .. Len(bs) /\ 2 \in 1 .. Len(bs)
      /\ 2 \in 1 .. Len(cs)
  BY <1>1, LaidBlock
<1> HIDE DEF cs
<1>3. Top(bs[1]) \in Nat /\ bs[2].addr \in Nat
  BY <1>2, LaidBlock
<1>4. ASSUME NEW a \in DOMAIN Image(bs)
      PROVE  a \in DOMAIN Image(cs) /\ Image(cs)[a] = Image(bs)[a]
             /\ ~(Top(bs[1]) <= a /\ a < bs[2].addr)
  <2>1. a \in Nat
    BY LaidImage
  <2>2. PICK i \in 1 .. Len(bs) : bs[i].addr <= a /\ a < Top(bs[i])
    BY <2>1, LaidImage
  <2>3. Image(bs)[a] = bs[i].data[a - bs[i].addr + 1]
    BY <2>1, <2>2, LaidImage
  <2>4. \E j \in 1 .. Len(cs) : cs[j] = bs[i] /\ j # 2
    <3>1. CASE i = 1
      BY <1>1, <1>2, <3>1
    <3>2. CASE i # 1
      <4>1. i \in 2 .. Len(bs) /\ i+1 \in 1 .. Len(cs) /\ i+1 # 2
        BY <1>1, <1>2, <3>2
      <4> QED BY <1>1, <4>1
    <3> QED BY <3>1, <3>2
  <2>5. PICK j \in 1 .. Len(cs) : cs[j] = bs[i] /\ j # 2
    BY <2>4
  <2>6. a \in DOMAIN Image(cs) /\ Image(cs)[a] = cs[j].data[a - cs[j].addr + 1]
    BY <1>1, <2>1, <2>2, <2>5, LaidImage
  <2>7. ~(cs[2].addr <= a /\ a < Top(cs[2]))
    <3>1. ASSUME cs[2].addr <= a, a < Top(cs[2]) PROVE j = 2
      BY <1>1, <1>2, <2>1, <2>2, <2>5, <3>1, LaidApart
    <3> QED BY <2>5, <3>1
  <2> QED BY <1>1, <2>3, <2>5, <2>6, <2>7
<1>5. ASSUME NEW a \in Top(bs[1]) .. bs[2].addr - 1
      PROVE  a \in DOMAIN Image(cs) /\ Image(cs)[a] = Filler
  <2>1. a \in Nat /\ cs[2].addr <= a /\ a < Top(cs[2]) /\ cs[2].addr \in Nat /\ Top(cs[2]) \in Nat
    BY <1>1, <1>3
  <2>2. a \in DOMAIN Image(cs) /\ Image(cs)[a] = cs[2].data[a - cs[2].addr + 1]
    BY <1>1, <1>2, <2>1, LaidImage, SMTT(30)
  <2>3. a - cs[2].addr + 1 \in 1 .. Gap(bs)
    BY <1>1, <1>3, <2>1 DEF Gap
  <2> QED BY <1>1, <2>2, <2>3
<1>6. ASSUME NEW a \in DOMAIN Image(cs), a \notin DOMAIN Image(bs)
      PROVE  a \in Top(bs[1]) .. bs[2].addr - 1
  <2>1. a \in Nat
    BY <1>1, LaidImage
  <2>2. PICK j \in 1 .. Len(cs) : cs[j].addr <= a /\ a < Top(cs[j])
    BY <1>1, <2>1, LaidImage
  <2>3. j = 2
    <3> SUFFICES ASSUME j # 2 PROVE \E i \in 1 .. Len(bs) : cs[j] = bs[i]
      BY <1>6, <2>1, <2>2, LaidImage
    <3>1. CASE j = 1
      BY <1>1, <1>2, <3>1
    <3>2. CASE j # 1
      <4>1. j \in 3 .. Len(bs)+1 /\ j-1 \in 1 .. Len(bs)
        BY <1>1, <1>2, <3>2
      <4> QED BY <1>1, <4>1
    <3> QED BY <3>1, <3>2
  <2> QED BY <1>1, <1>3, <2>1, <2>2, <2>3
<1>7. DOMAIN Image(cs) \ DOMAIN Image(bs) = Top(bs[1]) .. bs[2].addr - 1
  <2>1. ASSUME NEW a \in Top(bs[1]) .. bs[2].addr - 1 PROVE a \notin DOMAIN Image(bs)
    <3>1. Top(bs[1]) <= a /\ a < bs[2].addr
      BY <1>3
    <3> QED BY <1>4, <3>1
  <2> QED BY <1>5, <1>6, <2>1
<1> QED BY <1>4, <1>5, <1>7 DEF cs

LEMMA FilledKeeps == FillInv => FillKeepsData
<1> SUFFICES ASSUME FillInv PROVE FillKeepsData
  OBVIOUS
<1>1. CASE Untouched
  <2>1. blocks = before /\ count = 0
    BY <1>1 DEF Untouched
  <2>2. Written \ WasRead = {}
    BY <2>1 DEF Written, WasRead
  <2>3. Cardinality(Written \ WasRead) = 0
    BY <2>2, FS_EmptySet
  <2> QED BY <2>1, <2>2, <2>3 DEF FillKeepsData, WasRead, Written
<1>2. CASE FilledOnce
  <2>1. /\ Laid(before) /\ Len(before) > 1 /\ Gap(before) > 0
        /\ blocks = Plugged(before) /\ count = Gap(before)
    BY <1>2 DEF FilledOnce, FillInv
  <2>2. /\ \A a \in WasRead : Image(blocks)[a] = Image(before)[a]
        /\ Written \ WasRead = Top(before[1]) .. before[2].addr - 1
        /\ \A a \in Top(before[1]) .. before[2].addr - 1 : Image(blocks)[a] = Filler
    BY <2>1, PluggedImage DEF Written, WasRead
  <2>3. Len(before) \in Nat /\ 1 \in 1 .. Len(before) /\ 2 \in 1 .. Len(before)
    BY <2>1, LaidBlock
  <2>4. /\ Top(before[1]) \in Nat /\ before[1].addr \in Nat /\ before[1].addr < Top(before[1])
    BY <2>1, <2>3, LaidBlock
  <2>5. /\ Top(before[2]) \in Nat /\ before[2].addr \in Nat /\ before[2].addr < Top(before[2])
    BY <2>1, <2>3, LaidBlock
  <2>6. before[1].addr \in WasRead /\ before[2].addr \in WasRead
    <3>1. before[1].addr <= before[1].addr /\ before[2].addr <= before[2].addr
      BY <2>4, <2>5
    <3> QED BY <2>1, <2>3, <2>4, <2>5, <3>1, LaidImage DEF WasRead
  <2>7. \A a \in Written \ WasRead : \E l, h \in WasRead : l < a /\ a < h
    <3> SUFFICES ASSUME NEW a \in Top(before[1]) .. before[2].addr - 1
                 PROVE  before[1].addr < a /\ a < before[2].addr
      BY <2>2, <2>6
    <3> QED BY <2>4, <2>5
  <2>8. Cardinality(Top(before[1]) .. before[2].addr - 1) = Gap(before)
    <3> DEFINE lo == Top(before[1])
               hi == before[2].addr - 1
    <3>1. lo \in Int /\ hi \in Int /\ ~(lo > hi) /\ hi - lo + 1 = Gap(before)
      BY <2>1, <2>4, <2>5 DEF Gap
    <3> HIDE DEF lo, hi
    <3> QED BY <3>1, FS_Interval DEF lo, hi
  <2> QED BY <2>1, <2>2, <2>7, <2>8 DEF FillKeepsData
<1> QED BY <1>1, <1>2 DEF FillInv
-----------------------------------------------------------------------------
\* Sequences put behind one another: a list of sequences as the values that
\* its flattening goes through.
IsFlat(p, s) == /\ p \in [0 .. Len(s) -> Seq(Int)] /\ p[0] = << >>
                /\ \A m \in 1 .. Len(s) : p[m] = p[m-1] \o s[m]

LEMMA FlatExists ==
    ASSUME NEW s \in Seq(Seq(Int))
    PROVE  \E p : IsFlat(p, s)
<1> DEFINE n == Len(s)
           g == [m \in 1 .. n |-> [x \in Seq(Int) |-> x \o s[m]]]
<1>1. n \in Nat /\ \A m \in 1 .. n : s[m] \in Seq(Int)
  BY LenProperties, ElementOfSeq
<1>2. g \in [1 .. n -> [Seq(Int) -> Seq(Int)]]
  <2> SUFFICES ASSUME NEW m \in 1 .. n, NEW x \in Seq(Int) PROVE x \o s[m] \in Seq(Int)
    OBVIOUS
  <2> QED BY <1>1, ConcatProperties
<1>3. \A m \in 1 .. n : \A x \in Seq(Int) : g[m][x] = x \o s[m]
  OBVIOUS
<1> HIDE DEF g, n
<1>4. << >> \in Seq(Int)
  OBVIOUS
<1>5. PICK p \in [0 .. n -> Seq(Int)] : Runs(p, n, << >>, g)
  BY <1>1, <1>2, <1>4, FoldPrefix
<1>6. p[0] = << >> /\ \A m \in 1 .. n : p[m] = g[m][p[m-1]]
  BY <1>5 DEF Runs
<1>7. \A m \in 1 .. n : p[m-1] \in Seq(Int)
  <2> SUFFICES ASSUME NEW m \in 1 .. n PROVE m-1 \in 0 .. n
    OBVIOUS
  <2> QED BY <1>1
<1>8. \A m \in 1 .. n : p[m] = p[m-1] \o s[m]
  BY <1>3, <1>6, <1>7
<1> QED BY <1>5, <1>6, <1>8 DEF IsFlat, n

LEMMA FlatIs ==
    ASSUME NEW s \in Seq(Seq(Int)), NEW p, IsFlat(p, s)
    PROVE  FlattenSeq(s) = p[Len(s)]
<1> DEFINE n == Len(s)
           Next1(h) == [i \in 1 .. Len(s) |-> IF i = 1 THEN s[i] ELSE h[i-1] \o s[i]]
           it == CHOOSE h : h = Next1(h)
           f == [i \in 1 .. n |-> p[i]]
<1>1. n \in Nat /\ \A m \in 1 .. n : s[m] \in Seq(Int)
  BY LenProperties, ElementOfSeq
<1>2. /\ p \in [0 .. n -> Seq(Int)] /\ p[0] = << >>
      /\ \A m \in 1 .. n : p[m] = p[m-1] \o s[m]
  BY DEF IsFlat
<1>3. CASE n = 0
  <2>1. s = << >>
    BY <1>3, EmptySeq
  <2>2. FlattenSeq(s) = s
    BY <1>3 DEF FlattenSeq
  <2> QED BY <1>2, <1>3, <2>1, <2>2
<1>4. CASE n # 0
  <2>1. p[1] = s[1]
    <3>1. 1 \in 1 .. n /\ 1-1 = 0
      BY <1>1, <1>4
    <3>2. p[1] = << >> \o s[1] /\ s[1] \in Seq(Int)
      BY <1>1, <1>2, <3>1
    <3> QED BY <3>2, ConcatEmptySeq
  <2>2. f = Next1(f)
    <3> SUFFICES ASSUME NEW i \in 1 .. n
                 PROVE  p[i] = IF i = 1 THEN s[i] ELSE f[i-1] \o s[i]
      OBVIOUS
    <3>1. CASE i = 1
      BY <2>1, <3>1
    <3>2. CASE i # 1
      <4>1. i-1 \in 1 .. n
        BY <1>1, <3>2
      <4> QED BY <1>2, <3>2, <4>1
    <3> QED BY <3>1, <3>2
  <2>3. it = Next1(it)
    <3> HIDE DEF Next1, f
    <3> QED BY <2>2, Zenon
  <2>4. FlattenSeq(s) = it[n]
    BY <1>4, Zenon DEF FlattenSeq
  <2> HIDE DEF it
  <2> DEFINE T == {m \in 0 .. n : m > 0 => it[m] = p[m]}
  <2>5. 0 \in T
    BY <1>1
  <2>6. ASSUME NEW m \in 1 .. n, m-1 \in T PROVE m \in T
    <3>1. it[m] = IF m = 1 THEN s[m] ELSE it[m-1] \o s[m]
      BY <2>3
    <3>2. CASE m = 1
      BY <2>1, <3>1, <3>2
    <3>3. CASE m # 1
      <4>1. m-1 > 0
        BY <1>1, <3>3
      <4>2. it[m-1] = p[m-1]
        BY <2>6, <4>1
      <4>3. it[m] = it[m-1] \o s[m]
        BY <3>1, <3>3
      <4>4. it[m] = p[m]
        BY <1>2, <4>2, <4>3
      <4> QED BY <1>1, <4>4
    <3> QED BY <3>2, <3>3
  <2>7. T \in SUBSET (0 .. n)
    OBVIOUS
  <2>8. \A m \in 0 .. n : m \in T
    <3> HIDE DEF T
    <3> QED BY <1>1, <2>5, <2>6, <2>7, Stepwise
  <2>9. n \in 0 .. n /\ n > 0
    BY <1>1, <1>4
  <2>10. it[n] = p[n]
    BY <2>8, <2>9
  <2> QED BY <2>4, <2>10
<1> QED BY <1>3, <1>4

\* One more sequence at the end, or the last one longer: either way the bytes
\* go to the end of the whole.
LEMMA FlatMore ==
    ASSUME NEW s \in Seq(Seq(Int)), NEW x \in Seq(Int)
    PROVE  FlattenSeq(Append(s, x)) = FlattenSeq(s) \o x
<1> DEFINE n == Len(s)
           t == Append(s, x)
<1>1. PICK p : IsFlat(p, s)
  BY FlatExists
<1>2. /\ p \in [0 .. n -> Seq(Int)] /\ p[0] = << >> /\ FlattenSeq(s) = p[n]
      /\ \A m \in 1 .. n : p[m] = p[m-1] \o s[m]
  BY <1>1, FlatIs DEF IsFlat
<1>3. /\ n \in Nat /\ t \in Seq(Seq(Int)) /\ Len(t) = n+1 /\ t[n+1] = x
      /\ \A m \in 1 .. n : t[m] = s[m]
  BY AppendProperties
<1> HIDE DEF t, n
<1> DEFINE q == [m \in 0 .. n+1 |-> IF m = n+1 THEN p[n] \o x ELSE p[m]]
<1>4. /\ q[n+1] = p[n] \o x /\ \A m \in 0 .. n : q[m] = p[m]
  BY <1>3
<1>5. p[n] \o x \in Seq(Int)
  BY <1>2, <1>3, ConcatProperties
<1>6. q \in [0 .. n+1 -> Seq(Int)]
  BY <1>2, <1>3, <1>5
<1> HIDE DEF q
<1>7. ASSUME NEW m \in 1 .. n+1 PROVE q[m] = q[m-1] \o t[m]
  <2>1. CASE m = n+1
    <3>1. m-1 = n /\ n \in 0 .. n
      BY <1>3, <2>1
    <3>2. q[m-1] = p[n] /\ q[m] = p[n] \o x /\ t[m] = x
      BY <1>3, <1>4, <2>1, <3>1
    <3> QED BY <3>2
  <2>2. CASE m # n+1
    <3>1. m \in 1 .. n /\ m-1 \in 0 .. n /\ m \in 0 .. n
      BY <1>3, <2>2
    <3>2. q[m] = p[m] /\ q[m-1] = p[m-1] /\ t[m] = s[m] /\ p[m] = p[m-1] \o s[m]
      BY <1>2, <1>3, <1>4, <3>1
    <3> QED BY <3>2
  <2> QED BY <2>1, <2>2
<1>8. q[0] = << >>
  <2>1. 0 \in 0 .. n
    BY <1>3
  <2> QED BY <1>2, <1>4, <2>1
<1>9. IsFlat(q, t)
  BY <1>3, <1>6, <1>7, <1>8 DEF IsFlat
<1>10. FlattenSeq(t) = q[n+1]
  BY <1>3, <1>9, FlatIs
<1> QED BY <1>2, <1>4, <1>10 DEF t

LEMMA FlatFront ==
    ASSUME NEW s \in Seq(Seq(Int)), s # << >>
    PROVE  LET f == SubSeq(s, 1, Len(s)-1)
           IN  /\ f \in Seq(Seq(Int)) /\ Len(f) = Len(s)-1 /\ Len(s)-1 \in Nat
               /\ \A m \in 1 .. Len(s)-1 : f[m] = s[m]
               /\ s[Len(s)] \in Seq(Int) /\ s = Append(f, s[Len(s)])
               /\ FlattenSeq(s) = FlattenSeq(f) \o s[Len(s)]
<1> DEFINE n == Len(s)
           f == SubSeq(s, 1, n-1)
<1>1. n \in Nat \ {0} /\ \A m \in 1 .. n : s[m] \in Seq(Int)
  BY LenProperties, EmptySeq, ElementOfSeq
<1>2. n-1 \in Nat /\ n-1 <= n /\ n \in 1 .. n /\ n-1 \in 1-1 .. n
  BY <1>1
<1>3. f \in Seq(Seq(Int)) /\ Len(f) = n-1 /\ \A m \in 1 .. n-1 : f[m] = s[m]
  <2>1. \A m \in 1 .. n-1 : s[m] \in Seq(Int)
    BY <1>1
  <2>2. f = [m \in 1 .. n-1 |-> s[m]]
    BY <1>2
  <2>3. Len(f) = n-1
    <3> HIDE DEF f, n
    <3> QED BY <1>2, <2>2
  <2>4. f \in Seq(Seq(Int))
    BY <1>2, <2>1, <2>2
  <2> QED BY <2>2, <2>3, <2>4
<1> HIDE DEF f, n
<1>4. s = Append(f, s[n])
  <2> DEFINE t == Append(f, s[n])
  <2>1. t \in Seq(Seq(Int)) /\ Len(t) = n-1+1 /\ t[n-1+1] = s[n] /\ \A m \in 1 .. n-1 : t[m] = f[m]
    BY <1>1, <1>2, <1>3, AppendProperties
  <2>2. n-1+1 = n
    BY <1>1
  <2>3. ASSUME NEW m \in 1 .. n PROVE t[m] = s[m]
    <3>1. CASE m = n
      BY <2>1, <2>2, <3>1
    <3>2. CASE m # n
      <4>1. m \in 1 .. n-1
        BY <1>1, <3>2
      <4> QED BY <1>3, <2>1, <4>1
    <3> QED BY <3>1, <3>2
  <2> HIDE DEF t
  <2>4. t = s
    BY <2>1, <2>2, <2>3, SeqEqual DEF n
  <2> QED BY <2>4 DEF t
<1>5. FlattenSeq(Append(f, s[n])) = FlattenSeq(f) \o s[n]
  BY <1>1, <1>2, <1>3, FlatMore
<1>6. FlattenSeq(s) = FlattenSeq(f) \o s[n]
  BY <1>4, <1>5
<1> QED BY <1>1, <1>2, <1>3, <1>4, <1>6 DEF f, n

LEMMA FlatSeq ==
    ASSUME NEW s \in Seq(Seq(Int))
    PROVE  FlattenSeq(s) \in Seq(Int)
<1>1. PICK p : IsFlat(p, s)
  BY FlatExists
<1>2. FlattenSeq(s) = p[Len(s)] /\ p \in [0 .. Len(s) -> Seq(Int)]
  BY <1>1, FlatIs DEF IsFlat
<1>3. Len(s) \in 0 .. Len(s)
  BY LenProperties
<1> QED BY <1>2, <1>3

LEMMA Regrouped ==
    ASSUME NEW a \in Seq(Int), NEW b \in Seq(Int), NEW c \in Seq(Int)
    PROVE  (a \o b) \o c = a \o (b \o c)
BY ConcatAssociative, SMTT(30)

LEMMA FlatLonger ==
    ASSUME NEW s \in Seq(Seq(Int)), s # << >>, NEW x \in Seq(Int)
    PROVE  FlattenSeq([s EXCEPT ![Len(s)] = @ \o x]) = FlattenSeq(s) \o x
<1> DEFINE n == Len(s)
           f == SubSeq(s, 1, n-1)
           t == [s EXCEPT ![n] = @ \o x]
<1>1. /\ f \in Seq(Seq(Int)) /\ Len(f) = n-1 /\ n-1 \in Nat
      /\ \A m \in 1 .. n-1 : f[m] = s[m]
      /\ s[n] \in Seq(Int) /\ FlattenSeq(s) = FlattenSeq(f) \o s[n]
  BY FlatFront
<1>2. n \in Nat /\ n \in 1 .. n /\ s \in [1 .. n -> Seq(Int)]
  BY <1>1, LenProperties
<1>3. s[n] \o x \in Seq(Int)
  BY <1>1, ConcatProperties
<1>4. t \in Seq(Seq(Int)) /\ Len(t) = n /\ t[n] = s[n] \o x /\ \A m \in 1 .. n-1 : t[m] = s[m]
  <2> DEFINE e == s[n] \o x
  <2>1. t = [s EXCEPT ![n] = e]
    OBVIOUS
  <2> HIDE DEF e, t
  <2>2. /\ t \in Seq(Seq(Int)) /\ Len(t) = n
        /\ \A j \in 1 .. n : t[j] = IF j = n THEN e ELSE s[j]
    BY <1>2, <1>3, <2>1, ExceptSeq DEF e
  <2>3. \A m \in 1 .. n-1 : m \in 1 .. n /\ m # n
    <3> HIDE DEF n
    <3> QED BY <1>2
  <2>4. \A m \in 1 .. n-1 : t[m] = s[m]
    BY <2>2, <2>3
  <2>5. t[n] = e
    BY <1>2, <2>2
  <2> QED BY <2>2, <2>4, <2>5 DEF e
<1>5. t # << >>
  BY <1>2, <1>4, EmptySeq
<1> HIDE DEF t, f
<1>6. FlattenSeq(t) = FlattenSeq(SubSeq(t, 1, n-1)) \o t[n]
  BY <1>4, <1>5, FlatFront
<1>7. SubSeq(t, 1, n-1) = f
  <2>1. /\ SubSeq(t, 1, n-1) \in Seq(Seq(Int)) /\ Len(SubSeq(t, 1, n-1)) = n-1
        /\ \A m \in 1 .. n-1 : SubSeq(t, 1, n-1)[m] = t[m]
    BY <1>4, <1>5, FlatFront
  <2>2. \A m \in 1 .. n-1 : SubSeq(t, 1, n-1)[m] = f[m]
    BY <1>1, <1>4, <2>1
  <2> QED BY <1>1, <2>1, <2>2, SeqEqual
<1>8. FlattenSeq(f) \in Seq(Int)
  BY <1>1, FlatSeq
<1>9. FlattenSeq(f) \o (s[n] \o x) = (FlattenSeq(f) \o s[n]) \o x
  <2> DEFINE a == FlattenSeq(f)
             b == s[n]
  <2>1. a \in Seq(Int) /\ b \in Seq(Int) /\ x \in Seq(Int)
    BY <1>1, <1>8
  <2> HIDE DEF a, b
  <2>2. (a \o b) \o x = a \o (b \o x)
    BY <2>1, Regrouped
  <2> QED BY <2>2 DEF a, b
<1> QED BY <1>1, <1>4, <1>6, <1>7, <1>9 DEF t

-----------------------------------------------------------------------------
\* The blocks that begin a section.
Starts(bs) == {i \in 1 .. Len(bs) : i = 1 \/ Top(bs[i-1]) # bs[i].addr}

\* The lowest address of a section is that of a block that begins one.
LEMMA StartsBegin ==
    ASSUME NEW bs, Laid(bs)
    PROVE  SectionStarts(DOMAIN Image(bs)) = {bs[i].addr : i \in Starts(bs)}
<1> DEFINE as == DOMAIN Image(bs)
<1>1. ASSUME NEW a \in SectionStarts(as)
      PROVE  \E i \in Starts(bs) : a = bs[i].addr
  <2>1. a \in as /\ a-1 \notin as /\ a \in Nat
    BY LaidImage DEF SectionStarts
  <2>2. PICK i \in 1 .. Len(bs) : bs[i].addr <= a /\ a < Top(bs[i])
    BY <2>1, LaidImage
  <2>3. bs[i].addr \in Nat /\ Top(bs[i]) \in Nat /\ Len(bs) \in Nat
    BY LaidBlock
  <2>4. a = bs[i].addr
    <3> SUFFICES ASSUME a # bs[i].addr PROVE FALSE
      OBVIOUS
    <3>1. a-1 \in Nat /\ bs[i].addr <= a-1 /\ a-1 < Top(bs[i])
      BY <2>1, <2>2, <2>3
    <3>2. a-1 \in as
      BY <3>1, LaidImage
    <3> QED BY <2>1, <3>2
  <2>5. ASSUME i # 1, Top(bs[i-1]) = bs[i].addr PROVE FALSE
    <3>1. i-1 \in 1 .. Len(bs)
      BY <2>3, <2>5
    <3>2. bs[i-1].addr \in Nat /\ bs[i-1].addr < Top(bs[i-1]) /\ Top(bs[i-1]) \in Nat
      BY <3>1, LaidBlock
    <3>3. a-1 \in Nat /\ bs[i-1].addr <= a-1 /\ a-1 < Top(bs[i-1])
      BY <2>3, <2>4, <2>5, <3>2
    <3>4. a-1 \in as
      BY <3>1, <3>3, LaidImage
    <3> QED BY <2>1, <3>4
  <2> QED BY <2>4, <2>5 DEF Starts
<1>2. ASSUME NEW i \in Starts(bs)
      PROVE  bs[i].addr \in SectionStarts(as)
  <2> DEFINE a == bs[i].addr
  <2>1. i \in 1 .. Len(bs) /\ (i = 1 \/ Top(bs[i-1]) # bs[i].addr) /\ Len(bs) \in Nat
    BY LaidBlock DEF Starts
  <2>2. a \in Nat /\ a < Top(bs[i]) /\ a <= a
    BY <2>1, LaidBlock
  <2>3. a \in as
    BY <2>1, <2>2, LaidImage
  <2>4. ASSUME a-1 \in as PROVE FALSE
    <3>1. a-1 \in Nat
      BY <2>4, LaidImage
    <3>2. PICK j \in 1 .. Len(bs) : bs[j].addr <= a-1 /\ a-1 < Top(bs[j])
      BY <2>4, <3>1, LaidImage
    <3>3. bs[j].addr \in Nat /\ Top(bs[j]) \in Nat /\ bs[j].addr < Top(bs[j])
      BY LaidBlock
    <3>4. ~(i < j)
      <4>1. i < j => Top(bs[i]) <= bs[j].addr
        BY <2>1 DEF Laid
      <4>2. Top(bs[i]) \in Nat
        BY <2>1, LaidBlock
      <4> QED BY <2>2, <3>1, <3>2, <3>3, <4>1, <4>2, SMTT(30)
    <3>5. i # j
      BY <2>2, <3>1, <3>2, <3>3
    <3>6. j < i /\ i-1 \in 1 .. Len(bs)
      BY <2>1, <3>4, <3>5
    <3>7. Top(bs[j]) <= a
      BY <2>1, <3>6 DEF Laid
    <3>8. Top(bs[j]) = a
      BY <2>2, <3>1, <3>2, <3>3, <3>7
    <3>9. j = i-1
      <4> SUFFICES ASSUME j # i-1 PROVE FALSE
        OBVIOUS
      <4>1. j < i-1 /\ i-1 < i
        BY <2>1, <3>6
      <4>2. Top(bs[j]) <= bs[i-1].addr /\ Top(bs[i-1]) <= a
        BY <2>1, <3>6, <4>1 DEF Laid
      <4>3. bs[i-1].addr \in Nat /\ Top(bs[i-1]) \in Nat /\ bs[i-1].addr < Top(bs[i-1])
        BY <3>6, LaidBlock
      <4> QED BY <2>2, <3>3, <3>8, <4>2, <4>3
    <3> QED BY <2>1, <3>6, <3>8, <3>9
  <2> HIDE DEF a, as
  <2> QED BY <2>3, <2>4 DEF SectionStarts, a
<1>3. ASSUME NEW a PROVE a \in SectionStarts(as) <=> a \in {bs[i].addr : i \in Starts(bs)}
  <2> HIDE DEF as
  <2> QED BY <1>1, <1>2
<1> QED BY <1>3

\* Hence as many sections as there are such blocks.
LEMMA StartsCount ==
    ASSUME NEW bs, Laid(bs)
    PROVE  /\ IsFiniteSet(Starts(bs))
           /\ Cardinality(SectionStarts(DOMAIN Image(bs))) = Cardinality(Starts(bs))
<1> DEFINE A == {bs[i].addr : i \in Starts(bs)}
           f == [i \in Starts(bs) |-> bs[i].addr]
<1>1. IsFiniteSet(Starts(bs))
  <2>1. Len(bs) \in Nat
    BY LaidBlock
  <2>2. IsFiniteSet(1 .. Len(bs))
    BY <2>1, FS_Interval
  <2>3. Starts(bs) \in SUBSET (1 .. Len(bs))
    BY DEF Starts
  <2> QED BY <2>2, <2>3, FS_Subset
<1>2. ASSUME NEW i \in Starts(bs), NEW j \in Starts(bs), bs[i].addr = bs[j].addr
      PROVE  i = j
  <2>1. i \in 1 .. Len(bs) /\ j \in 1 .. Len(bs)
    BY DEF Starts
  <2>2. bs[i].addr \in Nat /\ bs[i].addr < Top(bs[i]) /\ bs[i].addr <= bs[i].addr
    BY <2>1, LaidBlock
  <2>3. bs[i].addr < Top(bs[j]) /\ bs[j].addr <= bs[i].addr
    BY <1>2, <2>1, <2>2, LaidBlock
  <2> QED BY <2>1, <2>2, <2>3, LaidApart
<1>3. f \in Bijection(Starts(bs), A)
  BY <1>2 DEF Bijection, Injection, Surjection, IsInjective
<1>4. ExistsBijection(Starts(bs), A)
  BY <1>3 DEF ExistsBijection
<1>5. Cardinality(A) = Cardinality(Starts(bs))
  BY <1>1, <1>4, FS_Bijection
<1> QED BY <1>1, <1>5, StartsBegin

\* How many of them are among the first m blocks.
StartsUpto(bs, m) == Starts(bs) \cap 1 .. m

LEMMA StartsGrow ==
    ASSUME NEW bs, Laid(bs), NEW m \in Nat
    PROVE  /\ IsFiniteSet(StartsUpto(bs, m)) /\ Cardinality(StartsUpto(bs, m)) \in Nat
           /\ Cardinality(StartsUpto(bs, m)) <= Cardinality(Starts(bs))
           /\ Cardinality(Starts(bs)) \in Nat
           /\ m >= Len(bs) => StartsUpto(bs, m) = Starts(bs)
           /\ m+1 \in Starts(bs) =>
                 Cardinality(StartsUpto(bs, m+1)) = Cardinality(StartsUpto(bs, m)) + 1
           /\ m+1 \notin Starts(bs) => StartsUpto(bs, m+1) = StartsUpto(bs, m)
           /\ StartsUpto(bs, 0) = {}
<1>1. IsFiniteSet(Starts(bs)) /\ Len(bs) \in Nat
  BY StartsCount, LaidBlock
<1>2. StartsUpto(bs, m) \in SUBSET Starts(bs)
  BY DEF StartsUpto
<1>3. /\ IsFiniteSet(StartsUpto(bs, m))
      /\ Cardinality(StartsUpto(bs, m)) <= Cardinality(Starts(bs))
  BY <1>1, <1>2, FS_Subset
<1>4. Cardinality(StartsUpto(bs, m)) \in Nat /\ Cardinality(Starts(bs)) \in Nat
  BY <1>1, <1>3, FS_CardinalityType
<1>5. m >= Len(bs) => StartsUpto(bs, m) = Starts(bs)
  BY <1>1 DEF StartsUpto, Starts
<1>6. ASSUME m+1 \in Starts(bs)
      PROVE  Cardinality(StartsUpto(bs, m+1)) = Cardinality(StartsUpto(bs, m)) + 1
  <2>1. StartsUpto(bs, m+1) = StartsUpto(bs, m) \cup {m+1} /\ m+1 \notin StartsUpto(bs, m)
    BY <1>6 DEF StartsUpto
  <2> QED BY <1>3, <2>1, FS_AddElement
<1>7. ASSUME m+1 \notin Starts(bs) PROVE StartsUpto(bs, m+1) = StartsUpto(bs, m)
  BY <1>7 DEF StartsUpto, Starts
<1>8. StartsUpto(bs, 0) = {}
  BY DEF StartsUpto
<1> QED BY <1>3, <1>4, <1>5, <1>6, <1>7, <1>8

-----------------------------------------------------------------------------
\* Memory from the first block to block j.
Stretch(bs, j) == [k \in 1 .. Top(bs[j]) - bs[1].addr |-> Image(bs)[bs[1].addr + k - 1]]

LEMMA InTwoParts ==
    ASSUME NEW V, NEW e \in Seq(V), NEW d \in Seq(V), NEW f \in Seq(V),
           Len(f) = Len(e) + Len(d),
           \A k \in 1 .. Len(e) : e[k] = f[k],
           \A k \in 1 .. Len(d) : d[k] = f[Len(e) + k]
    PROVE  e \o d = f
<1>1. Len(e) \in Nat /\ Len(d) \in Nat
  BY LenProperties
<1>2. /\ e \o d \in Seq(V) /\ Len(e \o d) = Len(f)
      /\ \A k \in 1 .. Len(e) + Len(d) :
            (e \o d)[k] = IF k <= Len(e) THEN e[k] ELSE d[k - Len(e)]
  BY ConcatProperties
<1>3. ASSUME NEW k \in 1 .. Len(f) PROVE (e \o d)[k] = f[k]
  <2>1. CASE k <= Len(e)
    <3>1. k \in 1 .. Len(e)
      BY <1>1, <2>1
    <3> QED BY <1>2, <2>1, <3>1
  <2>2. CASE ~(k <= Len(e))
    <3>1. k - Len(e) \in 1 .. Len(d) /\ Len(e) + (k - Len(e)) = k
      BY <1>1, <2>2
    <3> QED BY <1>2, <2>2, <3>1
  <2> QED BY <2>1, <2>2
<1> QED BY <1>2, <1>3, SeqEqual

LEMMA StretchGrows ==
    ASSUME NEW bs, Laid(bs), NEW j \in 1 .. Len(bs)
    PROVE  /\ Top(bs[j]) - bs[1].addr \in Nat \ {0}
           /\ Stretch(bs, 1) = bs[1].data
           /\ j+1 \in 1 .. Len(bs) /\ j+1 \notin Starts(bs) =>
                 Stretch(bs, j) \o bs[j+1].data = Stretch(bs, j+1)
<1>1. Len(bs) \in Nat /\ 1 \in 1 .. Len(bs)
  BY LaidBlock
<1>2. /\ bs[1].addr \in Nat /\ Top(bs[1]) \in Nat /\ bs[1].addr < Top(bs[1])
      /\ Top(bs[1]) - bs[1].addr = Len(bs[1].data) /\ bs[1].data \in Seq(Int)
  <2>1. /\ bs[1].addr \in Nat /\ Top(bs[1]) \in Nat /\ bs[1].addr < Top(bs[1])
        /\ Len32(bs[1]) = Top(bs[1]) - bs[1].addr
        /\ Len32(bs[1]) = Len(bs[1].data) /\ bs[1].data \in Seq(Int)
    BY <1>1, LaidBlock
  <2> QED BY <2>1
<1>3. /\ bs[j].addr \in Nat /\ Top(bs[j]) \in Nat /\ bs[j].addr < Top(bs[j])
  BY LaidBlock
<1>4. Top(bs[j]) - bs[1].addr \in Nat \ {0}
  <2>1. CASE j = 1
    BY <1>2, <2>1
  <2>2. CASE j # 1
    <3>1. 1 < j
      BY <1>1, <2>2
    <3>2. Top(bs[1]) <= bs[j].addr
      BY <1>1, <3>1 DEF Laid
    <3> QED BY <1>2, <1>3, <3>2, SMTT(30)
  <2> QED BY <2>1, <2>2
<1>5. Stretch(bs, 1) = bs[1].data
  <2>1. Stretch(bs, 1) = [k \in 1 .. Len(bs[1].data) |-> Image(bs)[bs[1].addr + k - 1]]
    BY <1>2 DEF Stretch
  <2>2. ASSUME NEW k \in 1 .. Len(bs[1].data)
        PROVE  Image(bs)[bs[1].addr + k - 1] = bs[1].data[k]
    <3> DEFINE lo == bs[1].addr
               hi == Top(bs[1])
               n == Len(bs[1].data)
               a == lo + k - 1
    <3>1. a \in Nat /\ lo <= a /\ a < hi /\ a - lo + 1 = k
      <4>1. lo \in Nat /\ hi \in Nat /\ hi - lo = n /\ k \in 1 .. n
        BY <1>2
      <4> HIDE DEF lo, hi, n
      <4> QED BY <4>1
    <3> HIDE DEF a
    <3>2. Image(bs)[a] = bs[1].data[a - bs[1].addr + 1]
      BY <1>1, <3>1, LaidImage
    <3> QED BY <3>1, <3>2 DEF a
  <2>3. bs[1].data = [k \in 1 .. Len(bs[1].data) |-> bs[1].data[k]]
    BY <1>2
  <2> QED BY <2>1, <2>2, <2>3
<1>6. ASSUME j+1 \in 1 .. Len(bs), j+1 \notin Starts(bs)
      PROVE  Stretch(bs, j) \o bs[j+1].data = Stretch(bs, j+1)
  <2> DEFINE lo == bs[1].addr
             mid == Top(bs[j])
             hi == Top(bs[j+1])
             d == bs[j+1].data
             V == Int \cup {Image(bs)[a] : a \in Nat}
  <2>1. mid = bs[j+1].addr
    <3>1. (j+1)-1 = j /\ j+1 # 1
      BY <1>1
    <3> QED BY <1>6, <3>1 DEF Starts
  <2>2. hi \in Nat /\ d \in Seq(Int) /\ Len(d) \in Nat /\ Len(d) = hi - mid
    <3>1. /\ Top(bs[j+1]) \in Nat /\ d \in Seq(Int)
          /\ Len32(bs[j+1]) = Len(d) /\ Len32(bs[j+1]) = Top(bs[j+1]) - bs[j+1].addr
      BY <1>6, LaidBlock
    <3> QED BY <2>1, <3>1, LenProperties
  <2>3. lo \in Nat /\ mid \in Nat /\ mid - lo \in Nat
    BY <1>2, <1>3, <1>4
  <2>4. /\ Stretch(bs, j) = [k \in 1 .. mid - lo |-> Image(bs)[lo + k - 1]]
        /\ Stretch(bs, j+1) = [k \in 1 .. hi - lo |-> Image(bs)[lo + k - 1]]
    BY DEF Stretch
  <2>5. \A a \in Nat : mid <= a /\ a < hi => Image(bs)[a] = d[a - mid + 1]
    BY <1>6, <2>1, LaidImage
  <2>6. \A a \in Nat : Image(bs)[a] \in V
    OBVIOUS
  <2>7. d \in Seq(V)
    <3> HIDE DEF d
    <3>1. Int \subseteq V
      OBVIOUS
    <3> QED BY <2>2, <3>1, SeqMonotonic
  <2> HIDE DEF lo, mid, hi, d, V
  <2> DEFINE e == [k \in 1 .. mid - lo |-> Image(bs)[lo + k - 1]]
             f == [k \in 1 .. hi - lo |-> Image(bs)[lo + k - 1]]
  <2>8. hi - lo \in Nat /\ hi - lo = (mid - lo) + Len(d)
    BY <2>2, <2>3
  <2>9. e \in Seq(V) /\ Len(e) = mid - lo
    <3>1. \A k \in 1 .. mid - lo : lo + k - 1 \in Nat
      BY <2>3
    <3>2. \A k \in 1 .. mid - lo : Image(bs)[lo + k - 1] \in V
      BY <2>6, <3>1
    <3> QED BY <2>3, <3>2
  <2>10. f \in Seq(V) /\ Len(f) = hi - lo
    <3>1. \A k \in 1 .. hi - lo : lo + k - 1 \in Nat
      BY <2>3
    <3>2. \A k \in 1 .. hi - lo : Image(bs)[lo + k - 1] \in V
      BY <2>6, <3>1
    <3> QED BY <2>8, <3>2
  <2>11. \A k \in 1 .. mid - lo : k \in 1 .. hi - lo
    BY <2>2, <2>3, <2>8
  <2>12. \A k \in 1 .. mid - lo : e[k] = f[k]
    BY <2>11
  <2>13. ASSUME NEW k \in 1 .. Len(d) PROVE d[k] = f[(mid - lo) + k]
    <3>1. mid + k - 1 \in Nat /\ mid <= mid + k - 1 /\ mid + k - 1 < hi
          /\ (mid + k - 1) - mid + 1 = k
      BY <2>2, <2>3
    <3>2. Image(bs)[mid + k - 1] = d[k]
      BY <2>5, <3>1
    <3>3. (mid - lo) + k \in 1 .. hi - lo /\ lo + ((mid - lo) + k) - 1 = mid + k - 1
      BY <2>2, <2>3, <2>8
    <3>4. f[(mid - lo) + k] = Image(bs)[lo + ((mid - lo) + k) - 1]
      BY <3>3
    <3> QED BY <3>2, <3>3, <3>4
  <2> HIDE DEF e, f
  <2>14. e \o d = f
    <3>1. /\ Len(f) = Len(e) + Len(d)
          /\ \A k \in 1 .. Len(e) : e[k] = f[k]
          /\ \A k \in 1 .. Len(d) : d[k] = f[Len(e) + k]
      BY <2>8, <2>9, <2>10, <2>12, <2>13
    <3> QED BY <2>7, <2>9, <2>10, <3>1, InTwoParts
  <2> QED BY <2>4, <2>14 DEF e, f, d
<1> QED BY <1>4, <1>5, <1>6
-----------------------------------------------------------------------------
\* The bytes of files and of blocks, as lists.
Datas(fs) == [k \in DOMAIN fs |-> fs[k].data]
Upto(bs, m) == [k \in 1 .. m |-> bs[k].data]

LEMMA DatasGrow ==
    ASSUME NEW fs \in Seq(FileType), NEW f \in FileType
    PROVE  /\ Datas(fs) \in Seq(Seq(Int)) /\ Len(Datas(fs)) = Len(fs)
           /\ f.data \in Seq(Int)
           /\ Datas(Append(fs, f)) = Append(Datas(fs), f.data)
<1> DEFINE n == Len(fs)
           gs == Append(fs, f)
<1>1. n \in Nat /\ DOMAIN fs = 1 .. n /\ \A k \in 1 .. n : fs[k].data \in Seq(Int)
  <2>1. \A k \in 1 .. n : fs[k] \in FileType
    BY ElementOfSeq
  <2> QED BY <2>1, LenProperties DEF FileType
<1>2. f.data \in Seq(Int)
  BY DEF FileType
<1>3. /\ gs \in Seq(FileType) /\ Len(gs) = n+1 /\ gs[n+1] = f
      /\ \A k \in 1 .. n : gs[k] = fs[k]
  BY AppendProperties
<1>4. DOMAIN gs = 1 .. n+1
  BY <1>3, LenProperties
<1> HIDE DEF n, gs
<1>5. Datas(fs) \in Seq(Seq(Int)) /\ Len(Datas(fs)) = n /\ \A k \in 1 .. n : Datas(fs)[k] = fs[k].data
  BY <1>1 DEF Datas
<1>6. /\ Append(Datas(fs), f.data) \in Seq(Seq(Int)) /\ Len(Append(Datas(fs), f.data)) = n+1
      /\ Append(Datas(fs), f.data)[n+1] = f.data
      /\ \A k \in 1 .. n : Append(Datas(fs), f.data)[k] = fs[k].data
  BY <1>2, <1>5, AppendProperties
<1>7. \A k \in 1 .. n+1 : Datas(gs)[k] = gs[k].data
  BY <1>4 DEF Datas
<1>8. ASSUME NEW k \in 1 .. n+1 PROVE Datas(gs)[k] = Append(Datas(fs), f.data)[k]
  <2>1. CASE k = n+1
    BY <1>3, <1>6, <1>7, <2>1
  <2>2. CASE k # n+1
    <3>1. k \in 1 .. n
      BY <1>1, <2>2
    <3> QED BY <1>3, <1>6, <1>7, <3>1
  <2> QED BY <2>1, <2>2
<1>9. \A k \in 1 .. n+1 : gs[k].data \in Seq(Int)
  <2>1. \A k \in 1 .. n+1 : gs[k] \in FileType
    BY <1>3, ElementOfSeq
  <2> QED BY <2>1 DEF FileType
<1>10. n+1 \in Nat
  BY <1>1
<1>11. Datas(gs) \in Seq(Seq(Int)) /\ Len(Datas(gs)) = n+1
  BY <1>4, <1>9, <1>10 DEF Datas
<1>12. Datas(gs) = Append(Datas(fs), f.data)
  <2> HIDE DEF Datas
  <2> QED BY <1>6, <1>8, <1>11, SeqEqual
<1> QED BY <1>2, <1>5, <1>12 DEF n, gs

LEMMA UptoGrows ==
    ASSUME NEW bs \in Seq(BlockType), NEW m \in Nat, m+1 \in 1 .. Len(bs)
    PROVE  /\ Upto(bs, m) \in Seq(Seq(Int)) /\ Len(Upto(bs, m)) = m
           /\ Upto(bs, m+1) = Append(Upto(bs, m), bs[m+1].data)
<1>1. \A k \in 1 .. m+1 : bs[k].data \in Seq(Int)
  <2>1. \A k \in 1 .. m+1 : k \in 1 .. Len(bs)
    BY LenProperties
  <2> QED BY <2>1, ListBlocks
<1>2. m+1 \in Nat /\ m+1 \in 1 .. m+1 /\ \A k \in 1 .. m : k \in 1 .. m+1
  OBVIOUS
<1>3. /\ Upto(bs, m) \in Seq(Seq(Int)) /\ Len(Upto(bs, m)) = m
      /\ \A k \in 1 .. m : Upto(bs, m)[k] = bs[k].data
  BY <1>1, <1>2 DEF Upto
<1>4. /\ Upto(bs, m+1) \in Seq(Seq(Int)) /\ Len(Upto(bs, m+1)) = m+1
      /\ \A k \in 1 .. m+1 : Upto(bs, m+1)[k] = bs[k].data
  BY <1>1, <1>2 DEF Upto
<1> DEFINE t == Append(Upto(bs, m), bs[m+1].data)
<1>5. /\ t \in Seq(Seq(Int)) /\ Len(t) = m+1 /\ t[m+1] = bs[m+1].data
      /\ \A k \in 1 .. m : t[k] = bs[k].data
  BY <1>1, <1>2, <1>3, AppendProperties
<1> HIDE DEF t
<1>6. ASSUME NEW k \in 1 .. m+1 PROVE Upto(bs, m+1)[k] = t[k]
  <2>1. CASE k = m+1
    BY <1>4, <1>5, <2>1
  <2>2. CASE k # m+1
    <3>1. k \in 1 .. m
      BY <2>2
    <3> QED BY <1>4, <1>5, <3>1
  <2> QED BY <2>1, <2>2
<1>7. Upto(bs, m+1) = t
  BY <1>4, <1>5, <1>6, SeqEqual
<1> QED BY <1>3, <1>7 DEF t

LEMMA BytesReplaced ==
    ASSUME NEW f \in FileType, NEW x
    PROVE  [f EXCEPT !.data = x] = [suffix |-> f.suffix, data |-> x]
BY DEF FileType

\* A block put behind what the last file has.
Longer(fs, x) == [fs EXCEPT ![Len(fs)].data = @ \o x]

LEMMA LongerIs ==
    ASSUME NEW fs \in Seq(FileType), fs # << >>, NEW x \in Seq(Int)
    PROVE  LET n == Len(fs)
               gs == Longer(fs, x)
           IN  /\ n \in Nat \ {0} /\ gs \in Seq(FileType) /\ Len(gs) = n
               /\ \A k \in 1 .. n : gs[k].suffix = fs[k].suffix
               /\ \A k \in 1 .. n-1 : gs[k].data = fs[k].data
               /\ gs[n].data = fs[n].data \o x
               /\ fs[n].data \in Seq(Int)
               /\ FlattenSeq(Datas(gs)) = FlattenSeq(Datas(fs)) \o x
<1> DEFINE n == Len(fs)
           gs == Longer(fs, x)
           f == fs[n]
           g == [suffix |-> f.suffix, data |-> f.data \o x]
<1>1. n \in Nat \ {0} /\ n \in 1 .. n /\ DOMAIN fs = 1 .. n
  BY LenProperties, EmptySeq
<1>2. f \in FileType /\ f.data \in Seq(Int) /\ f.suffix \in Seq(Address)
  <2>1. f \in FileType
    BY <1>1, ElementOfSeq
  <2> QED BY <2>1 DEF FileType
<1>3. g \in FileType
  <2>1. f.data \o x \in Seq(Int)
    BY <1>2, ConcatProperties
  <2> QED BY <1>2, <2>1 DEF FileType
<1>4. gs = [fs EXCEPT ![n] = g]
  <2> DEFINE y == f.data \o x
  <2>1. [f EXCEPT !.data = y] = [suffix |-> f.suffix, data |-> y]
    <3> HIDE DEF f, y
    <3> QED BY <1>2, BytesReplaced
  <2>2. [f EXCEPT !.data = f.data \o x] = g
    BY <2>1
  <2>3. gs = [fs EXCEPT ![n] = [f EXCEPT !.data = f.data \o x]]
    BY DEF Longer
  <2> QED BY <2>2, <2>3
<1>5. g.suffix = f.suffix /\ g.data = f.data \o x
  OBVIOUS
<1> HIDE DEF n, gs, f, g
<1>6. /\ gs \in Seq(FileType) /\ Len(gs) = n
      /\ \A k \in 1 .. n : gs[k] = IF k = n THEN g ELSE fs[k]
  BY <1>1, <1>3, <1>4, ExceptSeq DEF n
<1>7. gs[n] = g /\ \A k \in 1 .. n-1 : gs[k] = fs[k]
  <2>1. \A k \in 1 .. n-1 : k \in 1 .. n /\ k # n
    BY <1>1
  <2> QED BY <1>1, <1>6, <2>1
<1>8. \A k \in 1 .. n : gs[k].suffix = fs[k].suffix
  BY <1>5, <1>6 DEF f
<1>9. /\ Datas(fs) \in Seq(Seq(Int)) /\ Len(Datas(fs)) = n /\ Datas(fs) # << >>
  <2>1. Datas(fs) \in Seq(Seq(Int)) /\ Len(Datas(fs)) = n
    BY <1>3, DatasGrow DEF n
  <2> QED BY <1>1, <2>1, EmptySeq
<1>10. Datas(gs) = [Datas(fs) EXCEPT ![n] = @ \o x]
  <2>1. DOMAIN gs = 1 .. n
    BY <1>6, LenProperties
  <2>2. Datas(gs) = [k \in 1 .. n |-> gs[k].data] /\ Datas(fs) = [k \in 1 .. n |-> fs[k].data]
    BY <1>1, <2>1 DEF Datas
  <2>3. ASSUME NEW k \in 1 .. n
        PROVE  gs[k].data = IF k = n THEN fs[n].data \o x ELSE fs[k].data
    BY <1>5, <1>6 DEF f
  <2> QED BY <1>1, <2>2, <2>3
<1>11. FlattenSeq(Datas(gs)) = FlattenSeq(Datas(fs)) \o x
  BY <1>9, <1>10, FlatLonger
<1> QED BY <1>1, <1>2, <1>5, <1>6, <1>7, <1>8, <1>11 DEF n, gs, f

\* What ToBin has written when it has come past m blocks: a file for each
\* section begun, named by the address it begins at if it is not the first,
\* with the bytes of the blocks in their order.
Named(bs, fs, k) ==
    /\ Len(fs[k].suffix) = k-1 /\ fs[k].data # << >>
    /\ \E i \in Starts(bs) : /\ Last(fs[k].suffix) = bs[i].addr
                             /\ fs[k].data[1] = bs[i].data[1]
FirstOf(bs, fs, m, j) ==
    /\ fs[1].data = Stretch(bs, j)
    /\ \A i \in 2 .. j : i \notin Starts(bs)
    /\ IF Len(fs) = 1 THEN j = m ELSE j+1 \in Starts(bs)
Sectioned(bs, fs, m) ==
    /\ fs \in Seq(FileType) /\ fs # << >> /\ fs[1].suffix = << >>
    /\ Len(fs) = Cardinality(StartsUpto(bs, m))
    /\ FlattenSeq(Datas(fs)) = FlattenSeq(Upto(bs, m))
    /\ \A k \in 2 .. Len(fs) : Named(bs, fs, k)
    /\ \E j \in 1 .. m : FirstOf(bs, fs, m, j)
OneFile == <<[suffix |-> << >>, data |-> << >>]>>

LEMMA UptoFlat ==
    ASSUME NEW bs, Laid(bs), NEW m \in Nat, m+1 \in 1 .. Len(bs)
    PROVE  /\ bs[m+1].data \in Seq(Int) /\ bs[m+1].data # << >>
           /\ FlattenSeq(Upto(bs, m+1)) = FlattenSeq(Upto(bs, m)) \o bs[m+1].data
<1>1. bs \in Seq(BlockType) /\ bs[m+1].data \in Seq(Int)
  BY LaidBlock
<1>2. bs[m+1].data # << >>
  <2>1. Len32(bs[m+1]) # 0 /\ Len32(bs[m+1]) = Len(bs[m+1].data)
    <3>1. Len32(bs[m+1]) # 0
      BY DEF Laid
    <3> QED BY <3>1, LaidBlock
  <2> QED BY <2>1, EmptySeq
<1>3. Upto(bs, m) \in Seq(Seq(Int)) /\ Upto(bs, m+1) = Append(Upto(bs, m), bs[m+1].data)
  BY <1>1, UptoGrows
<1>4. FlattenSeq(Append(Upto(bs, m), bs[m+1].data)) = FlattenSeq(Upto(bs, m)) \o bs[m+1].data
  BY <1>1, <1>3, FlatMore
<1> QED BY <1>1, <1>2, <1>3, <1>4

LEMMA FirstBlockWritten ==
    ASSUME NEW bs, Laid(bs), bs # << >>
    PROVE  Sectioned(bs, Longer(OneFile, bs[1].data), 1)
<1> DEFINE fs == OneFile
           x == bs[1].data
           gs == Longer(fs, x)
<1>1. Len(bs) \in Nat /\ 1 \in 1 .. Len(bs) /\ bs \in Seq(BlockType)
  BY LaidBlock, EmptySeq
<1>2. x \in Seq(Int) /\ x # << >> /\ FlattenSeq(Upto(bs, 1)) = FlattenSeq(Upto(bs, 0)) \o x
  <2>1. 0+1 = 1 /\ 0 \in Nat
    OBVIOUS
  <2> QED BY <1>1, <2>1, UptoFlat
<1>3. /\ fs \in Seq(FileType) /\ fs # << >> /\ Len(fs) = 1
      /\ fs[1].suffix = << >> /\ fs[1].data = << >>
  <2>1. [suffix |-> << >>, data |-> << >>] \in FileType
    BY DEF FileType
  <2> QED BY <2>1 DEF OneFile
<1> HIDE DEF fs, gs, x
<1>4. /\ gs \in Seq(FileType) /\ Len(gs) = 1
      /\ gs[1].suffix = << >> /\ gs[1].data = << >> \o x
      /\ FlattenSeq(Datas(gs)) = FlattenSeq(Datas(fs)) \o x
  <2>1. /\ Longer(fs, x) \in Seq(FileType) /\ Len(Longer(fs, x)) = Len(fs)
        /\ \A k \in 1 .. Len(fs) : Longer(fs, x)[k].suffix = fs[k].suffix
        /\ Longer(fs, x)[Len(fs)].data = fs[Len(fs)].data \o x
        /\ FlattenSeq(Datas(Longer(fs, x))) = FlattenSeq(Datas(fs)) \o x
    BY <1>2, <1>3, LongerIs
  <2>2. 1 \in 1 .. Len(fs)
    BY <1>3
  <2> QED BY <1>3, <2>1, <2>2 DEF gs
<1>5. gs # << >>
  <2>1. Len(gs) = 1
    BY <1>4
  <2> QED BY <2>1
<1>6. 1 \in Starts(bs) /\ Len(gs) = Cardinality(StartsUpto(bs, 1))
  <2>1. 1 \in Starts(bs)
    BY <1>1 DEF Starts
  <2>2. StartsUpto(bs, 0) = {} /\ 0 \in Nat /\ 0+1 = 1
    BY StartsGrow
  <2>3. Cardinality(StartsUpto(bs, 0+1)) = Cardinality(StartsUpto(bs, 0)) + 1
    BY <2>1, <2>2, StartsGrow
  <2>4. Cardinality(StartsUpto(bs, 0)) = 0
    BY <2>2, FS_EmptySet
  <2> QED BY <1>4, <2>1, <2>2, <2>3, <2>4
<1>7. FlattenSeq(Datas(gs)) = FlattenSeq(Upto(bs, 1))
  <2>1. FlattenSeq(Datas(fs)) = << >>
    <3>1. Datas(fs) = Append(<< >>, << >>)
      <4>1. DOMAIN fs = 1 .. 1
        BY <1>3, LenProperties
      <4>2. Datas(fs) = [k \in 1 .. 1 |-> << >>]
        BY <1>3, <4>1 DEF Datas
      <4> QED BY <4>2
    <3>2. << >> \in Seq(Seq(Int)) /\ << >> \in Seq(Int) /\ << >> \o << >> = << >>
      OBVIOUS
    <3>3. FlattenSeq(<< >>) = << >>
      BY DEF FlattenSeq
    <3>4. FlattenSeq(Append(<< >>, << >>)) = FlattenSeq(<< >>) \o << >>
      BY <3>2, FlatMore
    <3> QED BY <3>1, <3>2, <3>3, <3>4
  <2>2. FlattenSeq(Upto(bs, 0)) = << >>
    <3>1. Upto(bs, 0) = << >>
      BY DEF Upto
    <3> QED BY <3>1 DEF FlattenSeq
  <2> QED BY <1>2, <1>4, <2>1, <2>2
<1>8. FirstOf(bs, gs, 1, 1)
  <2>1. gs[1].data = x
    BY <1>2, <1>4, ConcatEmptySeq
  <2>2. gs[1].data = Stretch(bs, 1)
    BY <1>1, <2>1, StretchGrows DEF x
  <2> QED BY <1>4, <2>2 DEF FirstOf
<1>9. \A k \in 2 .. Len(gs) : Named(bs, gs, k)
  BY <1>4
<1>10. Sectioned(bs, gs, 1)
  BY <1>4, <1>5, <1>6, <1>7, <1>8, <1>9 DEF Sectioned
<1> QED BY <1>10 DEF gs, x, fs

LEMMA BlockGoesOn ==
    ASSUME NEW bs, Laid(bs), NEW m \in Nat \ {0}, m+1 \in 1 .. Len(bs), m+1 \notin Starts(bs),
           NEW fs, Sectioned(bs, fs, m)
    PROVE  Sectioned(bs, Longer(fs, bs[m+1].data), m+1)
<1> DEFINE n == Len(fs)
           x == bs[m+1].data
           gs == Longer(fs, x)
<1>1. m \in Nat /\ x \in Seq(Int)
      /\ FlattenSeq(Upto(bs, m+1)) = FlattenSeq(Upto(bs, m)) \o x
  BY UptoFlat
<1>2. /\ fs \in Seq(FileType) /\ fs # << >> /\ fs[1].suffix = << >>
      /\ n = Cardinality(StartsUpto(bs, m))
      /\ FlattenSeq(Datas(fs)) = FlattenSeq(Upto(bs, m))
      /\ \A k \in 2 .. n : Named(bs, fs, k)
  BY DEF Sectioned
<1>3. PICK j \in 1 .. m : FirstOf(bs, fs, m, j)
  BY DEF Sectioned
<1> HIDE DEF gs, x
<1>4. /\ n \in Nat \ {0} /\ gs \in Seq(FileType) /\ Len(gs) = n
      /\ \A k \in 1 .. n : gs[k].suffix = fs[k].suffix
      /\ \A k \in 1 .. n-1 : gs[k].data = fs[k].data
      /\ gs[n].data = fs[n].data \o x
      /\ fs[n].data \in Seq(Int)
      /\ FlattenSeq(Datas(gs)) = FlattenSeq(Datas(fs)) \o x
  BY <1>1, <1>2, LongerIs DEF gs
<1> HIDE DEF n
<1>5. gs # << >> /\ gs[1].suffix = << >>
  <2>1. 1 \in 1 .. n
    BY <1>4
  <2> QED BY <1>2, <1>4, <2>1, EmptySeq
<1>6. Len(gs) = Cardinality(StartsUpto(bs, m+1))
  BY <1>1, <1>2, <1>4, StartsGrow
<1>7. ASSUME NEW k \in 2 .. n PROVE Named(bs, gs, k)
  <2>1. k \in 1 .. n /\ Named(bs, fs, k) /\ gs[k].suffix = fs[k].suffix
    BY <1>2, <1>4
  <2>2. gs[k].data # << >> /\ gs[k].data[1] = fs[k].data[1]
    <3>1. CASE k = n
      <4>1. /\ fs[n].data # << >> /\ fs[n].data \in Seq(Int) /\ x \in Seq(Int)
            /\ gs[n].data = fs[n].data \o x
        BY <1>1, <1>4, <2>1, <3>1 DEF Named
      <4> DEFINE d == fs[n].data
      <4> HIDE DEF d
      <4>2. d \in Seq(Int) /\ d # << >>
        BY <4>1 DEF d
      <4>3. Len(d) \in Nat \ {0}
        BY <4>2, LenProperties, EmptySeq
      <4>4. d \o x # << >> /\ (d \o x)[1] = d[1]
        <5>1. /\ d \o x \in Seq(Int) /\ Len(d \o x) = Len(d) + Len(x)
              /\ \A i \in 1 .. Len(d) + Len(x) : (d \o x)[i] = IF i <= Len(d) THEN d[i] ELSE x[i - Len(d)]
          BY <4>1, <4>2, ConcatProperties
        <5>2. Len(x) \in Nat /\ 1 \in 1 .. Len(d) + Len(x) /\ 1 <= Len(d) /\ Len(d \o x) # 0
          <6>1. Len(x) \in Nat
            BY <4>1, LenProperties
          <6> QED BY <4>3, <5>1, <6>1
        <5> QED BY <5>1, <5>2, EmptySeq
      <4> QED BY <3>1, <4>1, <4>4 DEF d
    <3>2. CASE k # n
      <4>1. k \in 1 .. n-1
        BY <1>4, <3>2
      <4> QED BY <1>4, <2>1, <4>1 DEF Named
    <3> QED BY <3>1, <3>2
  <2> QED BY <2>1, <2>2 DEF Named
<1>8. \E i \in 1 .. m+1 : FirstOf(bs, gs, m+1, i)
  <2>1. /\ fs[1].data = Stretch(bs, j) /\ (\A i \in 2 .. j : i \notin Starts(bs))
        /\ IF n = 1 THEN j = m ELSE j+1 \in Starts(bs)
    BY <1>3 DEF FirstOf, n
  <2>2. CASE n = 1
    <3>1. gs[1].data = Stretch(bs, m) \o x
      BY <1>4, <2>1, <2>2
    <3>2. gs[1].data = Stretch(bs, m+1)
      <4>1. m \in 1 .. Len(bs)
        BY LaidBlock
      <4> QED BY <3>1, <4>1, StretchGrows DEF x
    <3>3. \A i \in 2 .. m+1 : i \notin Starts(bs)
      BY <2>1, <2>2
    <3> QED BY <1>4, <2>2, <3>2, <3>3 DEF FirstOf
  <2>3. CASE n # 1
    <3>1. gs[1].data = fs[1].data
      <4>1. 1 \in 1 .. n-1
        BY <1>4, <2>3
      <4> QED BY <1>4, <4>1
    <3> QED BY <1>4, <2>1, <2>3, <3>1 DEF FirstOf
  <2> QED BY <2>2, <2>3
<1>9. FlattenSeq(Datas(gs)) = FlattenSeq(Upto(bs, m+1))
  BY <1>1, <1>2, <1>4
<1> QED BY <1>4, <1>5, <1>6, <1>7, <1>8, <1>9 DEF Sectioned, gs, x

LEMMA BlockBegins ==
    ASSUME NEW bs, Laid(bs), NEW m \in Nat \ {0}, m+1 \in Starts(bs),
           NEW fs, Sectioned(bs, fs, m)
    PROVE  LET suffix == Append(Last(fs).suffix, bs[m+1].addr)
           IN  /\ Len(suffix) = Len(fs)
               /\ Sectioned(bs, Append(fs, [suffix |-> suffix, data |-> bs[m+1].data]), m+1)
<1> DEFINE n == Len(fs)
           x == bs[m+1].data
           suffix == Append(Last(fs).suffix, bs[m+1].addr)
           f == [suffix |-> suffix, data |-> x]
           gs == Append(fs, f)
<1>0. m+1 \in 1 .. Len(bs)
  BY DEF Starts
<1>1. /\ m \in Nat /\ x \in Seq(Int) /\ x # << >> /\ bs[m+1].addr \in Address
      /\ FlattenSeq(Upto(bs, m+1)) = FlattenSeq(Upto(bs, m)) \o x
  BY <1>0, UptoFlat, LaidBlock, ListBlocks
<1>2. /\ fs \in Seq(FileType) /\ fs # << >> /\ fs[1].suffix = << >>
      /\ n = Cardinality(StartsUpto(bs, m))
      /\ FlattenSeq(Datas(fs)) = FlattenSeq(Upto(bs, m))
      /\ \A k \in 2 .. n : Named(bs, fs, k)
  BY DEF Sectioned
<1>3. PICK j \in 1 .. m : FirstOf(bs, fs, m, j)
  BY DEF Sectioned
<1>4. n \in Nat \ {0} /\ 1 \in 1 .. n /\ n \in 1 .. n
  BY <1>2, LenProperties, EmptySeq
<1>5. fs[n].suffix \in Seq(Address) /\ Len(fs[n].suffix) = n-1
  <2>1. fs[n] \in FileType
    BY <1>2, <1>4, ElementOfSeq
  <2>2. CASE n = 1
    <3>1. Len(fs[n].suffix) = 0
      BY <1>2, <2>2
    <3> QED BY <2>1, <2>2, <3>1 DEF FileType
  <2>3. CASE n # 1
    <3>1. n \in 2 .. n
      <4> HIDE DEF n
      <4> QED BY <1>4, <2>3
    <3> QED BY <1>2, <2>1, <3>1 DEF FileType, Named
  <2> QED BY <2>2, <2>3
<1>6. suffix \in Seq(Address) /\ Len(suffix) = n /\ suffix[n] = bs[m+1].addr
  <2> DEFINE t == fs[n].suffix
             a == bs[m+1].addr
  <2>1. suffix = Append(t, a)
    BY DEF Last
  <2>2. t \in Seq(Address) /\ Len(t) = n-1 /\ a \in Address
    BY <1>1, <1>5
  <2> HIDE DEF t, a, suffix
  <2>3. Append(t, a) \in Seq(Address) /\ Len(Append(t, a)) = n-1+1 /\ Append(t, a)[n-1+1] = a
    BY <2>2, AppendProperties
  <2>4. n-1+1 = n
    BY <1>4
  <2> QED BY <2>1, <2>3, <2>4 DEF a
<1>7. f \in FileType /\ f.data = x /\ f.suffix = suffix
  BY <1>1, <1>6 DEF FileType
<1> HIDE DEF f, suffix, x
<1>8. /\ gs \in Seq(FileType) /\ gs # << >> /\ Len(gs) = n+1 /\ gs[n+1] = f
      /\ \A k \in 1 .. n : gs[k] = fs[k]
  BY <1>2, <1>7, AppendProperties
<1>9. FlattenSeq(Datas(gs)) = FlattenSeq(Upto(bs, m+1))
  <2>1. Datas(fs) \in Seq(Seq(Int)) /\ Datas(gs) = Append(Datas(fs), x)
    BY <1>2, <1>7, DatasGrow
  <2>2. FlattenSeq(Datas(gs)) = FlattenSeq(Datas(fs)) \o x
    BY <1>1, <2>1, FlatMore
  <2> QED BY <1>1, <1>2, <2>2
<1> HIDE DEF gs, n
<1>10. Len(gs) = Cardinality(StartsUpto(bs, m+1))
  BY <1>1, <1>2, <1>8, StartsGrow
<1>11. ASSUME NEW k \in 2 .. n+1 PROVE Named(bs, gs, k)
  <2>1. CASE k = n+1
    <3>1. Last(f.suffix) = bs[m+1].addr
      BY <1>6, <1>7 DEF Last
    <3>2. Len(f.suffix) = k-1
      BY <1>4, <1>6, <1>7, <2>1
    <3> QED BY <1>1, <1>7, <1>8, <2>1, <3>1, <3>2 DEF Named, x
  <2>2. CASE k # n+1
    <3>1. k \in 1 .. n /\ k \in 2 .. n
      BY <1>4, <2>2
    <3>2. gs[k] = fs[k] /\ Named(bs, fs, k)
      BY <1>2, <1>8, <3>1
    <3> QED BY <3>2 DEF Named
  <2> QED BY <2>1, <2>2
<1>12. \E i \in 1 .. m+1 : FirstOf(bs, gs, m+1, i)
  <2>1. /\ fs[1].data = Stretch(bs, j) /\ (\A i \in 2 .. j : i \notin Starts(bs))
        /\ IF n = 1 THEN j = m ELSE j+1 \in Starts(bs)
    BY <1>3 DEF FirstOf, n
  <2>2. j+1 \in Starts(bs) /\ j \in 1 .. m+1
    BY <2>1
  <2>3. gs[1].data = Stretch(bs, j)
    BY <1>4, <1>8, <2>1
  <2>4. Len(gs) # 1
    BY <1>4, <1>8
  <2> QED BY <2>1, <2>2, <2>3, <2>4 DEF FirstOf
<1>13. gs[1].suffix = << >>
  BY <1>2, <1>4, <1>8
<1>14. Sectioned(bs, gs, m+1)
  BY <1>8, <1>9, <1>10, <1>11, <1>12, <1>13 DEF Sectioned
<1> QED BY <1>6, <1>14 DEF gs, f, x, n, suffix

-----------------------------------------------------------------------------
\* ToBin has come past the blocks before the current one.
Sectioning ==
    /\ current \in 1 .. Len(blocks)+1
    /\ current = 1 => files = OneFile /\ next = blocks[1].addr
    /\ current # 1 => next = End(blocks[current-1]) /\ Sectioned(blocks, files, current-1)
    /\ pc = "done" => current = Len(blocks)+1
    /\ pc = "failed" => current # 1 /\ current \in Starts(blocks)
    /\ pc = "undefined" => current # 1 /\ Len(files) >= 3
SectionInv ==
    \/ pc \in {"fill", "failed"} /\ files = << >>
    \/ pc \in {"bin", "done"} /\ blocks = << >> /\ files = OneFile
    \/ pc # "fill" /\ blocks # << >> /\ Sectioning

LEMMA InitSectionInv == Init => SectionInv
BY DEF Init, SectionInv

LEMMA StepSectionInv ==
    ASSUME BinInv, FillInv, SectionInv, [Next]_vars
    PROVE  SectionInv'
<1>1. Laid(blocks) /\ Len(blocks) \in Nat /\ blocks \in Seq(BlockType)
  BY FillLaid, LaidBlock
<1>2. blocks # << >> => 1 \in 1 .. Len(blocks)
  BY <1>1, EmptySeq
<1>3. CASE FillStops
  <2>1. /\ pc' = "bin" /\ blocks' = blocks /\ current' = 1 /\ files' = OneFile
        /\ next' = IF blocks = << >> THEN 0 ELSE blocks[1].addr
    BY <1>3 DEF FillStops, StartBin, OneFile
  <2> QED BY <1>1, <1>2, <2>1 DEF SectionInv, Sectioning
<1>4. CASE FillGap \/ StartFails
  <2>1. CASE FillGap
    BY <2>1 DEF FillGap, SectionInv
  <2>2. CASE StartFails
    <3>1. FillEnds /\ pc' = "failed" /\ files' = files
      BY <2>2 DEF StartFails
    <3>2. pc' = "failed" /\ files' = << >>
      BY <3>1 DEF FillEnds, SectionInv
    <3> QED BY <3>2 DEF SectionInv
  <2> QED BY <1>4, <2>1, <2>2
<1> DEFINE m == current - 1
<1>5. ASSUME pc = "bin", current <= Len(blocks)
      PROVE  /\ blocks # << >> /\ Sectioning
             /\ m \in Nat /\ m+1 \in 1 .. Len(blocks) /\ current = m+1
             /\ current # 1 =>
                   /\ m \in Nat \ {0} /\ next = Top(blocks[m])
                   /\ blocks[m+1].addr = next <=> m+1 \notin Starts(blocks)
  <2>1. current \in Nat \ {0}
    BY DEF BinInv
  <2>2. Len(blocks) # 0
    BY <1>1, <1>5, <2>1
  <2>3. blocks # << >> /\ Sectioning
    BY <1>5, <2>2, EmptySeq DEF SectionInv
  <2>4. m \in Nat /\ m+1 \in 1 .. Len(blocks) /\ current = m+1
    BY <1>1, <1>5, <2>1
  <2>5. ASSUME current # 1
        PROVE  /\ m \in Nat \ {0} /\ next = Top(blocks[m])
               /\ blocks[m+1].addr = next <=> m+1 \notin Starts(blocks)
    <3>1. m \in Nat \ {0} /\ m \in 1 .. Len(blocks) /\ m < Len(blocks)
      BY <1>1, <2>4, <2>5
    <3>2. next = End(blocks[m])
      BY <2>3, <2>5 DEF Sectioning
    <3>3. next = Top(blocks[m])
      BY <1>1, <3>1, <3>2, EndIsTop
    <3>4. m+1 \in Starts(blocks) <=> Top(blocks[m]) # blocks[m+1].addr
      <4>1. (m+1)-1 = m /\ m+1 # 1
        BY <3>1
      <4> HIDE DEF m
      <4> QED BY <2>4, <4>1 DEF Starts
    <3> QED BY <3>1, <3>3, <3>4
  <2> QED BY <2>3, <2>4, <2>5
<1>6. CASE WriteOn
  <2>1. /\ pc = "bin" /\ current <= Len(blocks) /\ blocks[current].addr = next
        /\ files' = Longer(files, blocks[current].data)
        /\ next' = End(blocks[current]) /\ current' = current + 1
        /\ blocks' = blocks /\ pc' = pc
    BY <1>6 DEF WriteOn, Longer, Continues
  <2>2. /\ blocks # << >> /\ Sectioning
        /\ m \in Nat /\ m+1 \in 1 .. Len(blocks) /\ current = m+1
        /\ current # 1 =>
              /\ m \in Nat \ {0} /\ next = Top(blocks[m])
              /\ blocks[m+1].addr = next <=> m+1 \notin Starts(blocks)
    BY <1>5, <2>1
  <2> HIDE DEF m
  <2>3. /\ current' = m+2 /\ m+2 \in 1 .. Len(blocks)+1 /\ m+2 # 1 /\ (m+2)-1 = m+1
        /\ next' = End(blocks[m+1])
    BY <1>1, <2>1, <2>2
  <2>4. Sectioned(blocks, files', m+1)
    <3>1. CASE current = 1
      <4>1. m+1 = 1 /\ files = OneFile
        BY <2>2, <3>1 DEF Sectioning
      <4>2. files' = Longer(OneFile, blocks[1].data)
        BY <2>1, <3>1, <4>1
      <4> QED BY <1>1, <2>2, <4>1, <4>2, FirstBlockWritten
    <3>2. CASE current # 1
      <4>1. m \in Nat \ {0} /\ m+1 \notin Starts(blocks)
        BY <2>1, <2>2, <3>2
      <4>2. Sectioned(blocks, files, m)
        <5>1. current - 1 = m
          BY <2>2
        <5> QED BY <2>2, <3>2, <5>1 DEF Sectioning
      <4>3. files' = Longer(files, blocks[m+1].data)
        BY <2>1, <2>2
      <4> QED BY <1>1, <2>2, <4>1, <4>2, <4>3, BlockGoesOn
    <3> QED BY <3>1, <3>2
  <2>5. Sectioning'
    BY <2>1, <2>3, <2>4 DEF Sectioning
  <2> QED BY <2>1, <2>2, <2>5 DEF SectionInv
<1>7. CASE NewFile
  <2> DEFINE suffix == Append(Last(files).suffix, blocks[current].addr)
  <2>1. /\ pc = "bin" /\ current <= Len(blocks) /\ blocks[current].addr # next
        /\ files' = Append(files, [suffix |-> suffix, data |-> blocks[current].data])
        /\ next' = End(blocks[current]) /\ current' = current + 1
        /\ blocks' = blocks
        /\ pc' = "bin" \/ (pc' = "undefined" /\ Len(suffix) > 1)
    BY <1>7 DEF NewFile, Continues, Overruns
  <2>2. /\ blocks # << >> /\ Sectioning
        /\ m \in Nat /\ m+1 \in 1 .. Len(blocks) /\ current = m+1
        /\ current # 1 =>
              /\ m \in Nat \ {0} /\ next = Top(blocks[m])
              /\ blocks[m+1].addr = next <=> m+1 \notin Starts(blocks)
    BY <1>5, <2>1
  <2> HIDE DEF m
  <2>3. /\ current' = m+2 /\ m+2 \in 1 .. Len(blocks)+1 /\ m+2 # 1 /\ (m+2)-1 = m+1
        /\ next' = End(blocks[m+1])
    BY <1>1, <2>1, <2>2
  <2>4. current # 1
    BY <2>1, <2>2 DEF Sectioning
  <2>5. m \in Nat \ {0} /\ m+1 \in Starts(blocks)
    BY <2>1, <2>2, <2>4
  <2>6. Sectioned(blocks, files, m)
    <3>1. current - 1 = m
      BY <2>2
    <3> QED BY <2>2, <2>4, <3>1 DEF Sectioning
  <2>7. Len(suffix) = Len(files) /\ Sectioned(blocks, files', m+1)
    BY <1>1, <2>1, <2>2, <2>5, <2>6, BlockBegins
  <2>8. pc' = "undefined" => Len(files') >= 3
    <3>1. files \in Seq(FileType) /\ files' \in Seq(FileType)
      BY <2>6, <2>7 DEF Sectioned
    <3>2. Len(files') = Len(files) + 1 /\ Len(files) \in Nat
      BY <2>1, <3>1
    <3> QED BY <2>1, <2>7, <3>2
  <2>9. Sectioning'
    BY <2>1, <2>3, <2>7, <2>8 DEF Sectioning
  <2> QED BY <2>1, <2>2, <2>9 DEF SectionInv
<1>8. CASE NewFileFails
  <2>1. /\ pc = "bin" /\ current <= Len(blocks) /\ blocks[current].addr # next
        /\ pc' = "failed" /\ UNCHANGED <<blocks, current, next, files>>
    BY <1>8 DEF NewFileFails, Continues
  <2>2. /\ blocks # << >> /\ Sectioning
        /\ m \in Nat /\ m+1 \in 1 .. Len(blocks) /\ current = m+1
        /\ current # 1 =>
              /\ m \in Nat \ {0} /\ next = Top(blocks[m])
              /\ blocks[m+1].addr = next <=> m+1 \notin Starts(blocks)
    BY <1>5, <2>1
  <2> HIDE DEF m
  <2>3. current # 1
    BY <2>1, <2>2 DEF Sectioning
  <2>4. current \in Starts(blocks)
    BY <2>1, <2>2, <2>3
  <2>5. Sectioning'
    BY <2>1, <2>2, <2>3, <2>4 DEF Sectioning
  <2> QED BY <2>1, <2>2, <2>5 DEF SectionInv
<1>9. CASE BinEnds
  <2>1. /\ pc = "bin" /\ pc' = "done" /\ blocks' = blocks /\ files' = files /\ next' = next
        /\ current' = current /\ current > Len(blocks)
    BY <1>9 DEF BinEnds
  <2>2. CASE blocks = << >>
    BY <2>1, <2>2 DEF SectionInv
  <2>3. CASE blocks # << >>
    <3>1. Sectioning
      BY <2>1, <2>3 DEF SectionInv
    <3>2. current = Len(blocks) + 1
      BY <1>1, <2>1, <3>1 DEF Sectioning
    <3>3. Sectioning'
      BY <2>1, <3>1, <3>2 DEF Sectioning
    <3> QED BY <2>1, <2>3, <3>3 DEF SectionInv
  <2> QED BY <2>2, <2>3
<1>10. CASE UNCHANGED vars
  BY <1>10 DEF vars, SectionInv, Sectioning
<1> QED BY <1>3, <1>4, <1>6, <1>7, <1>8, <1>9, <1>10 DEF Next

-----------------------------------------------------------------------------
LEMMA BinFiles == FillInv /\ SectionInv => FilesAreSections
<1> SUFFICES ASSUME FillInv, SectionInv, pc = "done", blocks # << >>
             PROVE  /\ Len(files) = Cardinality(SectionStarts(Written))
                    /\ FlattenSeq([k \in DOMAIN files |-> files[k].data])
                          = FlattenSeq([k \in DOMAIN blocks |-> blocks[k].data])
                    /\ \A k \in 2 .. Len(files) :
                          /\ Last(files[k].suffix) \in SectionStarts(Written)
                          /\ files[k].data[1] = Image(blocks)[Last(files[k].suffix)]
  BY DEF FilesAreSections
<1> DEFINE n == Len(blocks)
<1>1. Laid(blocks) /\ n \in Nat /\ n # 0 /\ DOMAIN blocks = 1 .. n
  BY FillLaid, LaidBlock, LenProperties, EmptySeq
<1>2. current = n+1 /\ current # 1 /\ current - 1 = n
  BY <1>1 DEF SectionInv, Sectioning
<1>3. Sectioned(blocks, files, n)
  BY <1>2 DEF SectionInv, Sectioning
<1> HIDE DEF n
<1>4. /\ Len(files) = Cardinality(StartsUpto(blocks, n))
      /\ FlattenSeq(Datas(files)) = FlattenSeq(Upto(blocks, n))
      /\ \A k \in 2 .. Len(files) : Named(blocks, files, k)
  BY <1>3 DEF Sectioned
<1>5. StartsUpto(blocks, n) = Starts(blocks)
  <2>1. n >= n
    BY <1>1
  <2> QED BY <1>1, <2>1, StartsGrow DEF n
<1>6. Len(files) = Cardinality(SectionStarts(Written))
  BY <1>1, <1>4, <1>5, StartsCount DEF Written
<1>7. FlattenSeq([k \in DOMAIN files |-> files[k].data])
         = FlattenSeq([k \in DOMAIN blocks |-> blocks[k].data])
  BY <1>1, <1>4 DEF Datas, Upto
<1>8. ASSUME NEW k \in 2 .. Len(files)
      PROVE  /\ Last(files[k].suffix) \in SectionStarts(Written)
             /\ files[k].data[1] = Image(blocks)[Last(files[k].suffix)]
  <2>1. PICK i \in Starts(blocks) : /\ Last(files[k].suffix) = blocks[i].addr
                                    /\ files[k].data[1] = blocks[i].data[1]
    BY <1>4 DEF Named
  <2>2. blocks[i].addr \in SectionStarts(Written)
    BY <1>1, StartsBegin DEF Written
  <2>3. i \in 1 .. Len(blocks)
    BY DEF Starts
  <2> DEFINE a == blocks[i].addr
  <2>4. a \in Nat /\ a <= a /\ a < Top(blocks[i]) /\ a - blocks[i].addr + 1 = 1
    BY <1>1, <2>3, LaidBlock
  <2>5. Image(blocks)[a] = blocks[i].data[a - blocks[i].addr + 1]
    BY <1>1, <2>3, <2>4, LaidImage
  <2> QED BY <2>1, <2>2, <2>4, <2>5
<1> QED BY <1>6, <1>7, <1>8

LEMMA BinOverrun == FillInv /\ SectionInv => OverrunNeedsThreeSections
<1> SUFFICES ASSUME FillInv, SectionInv, pc = "undefined"
             PROVE  Cardinality(SectionStarts(Written)) >= 3
  BY DEF OverrunNeedsThreeSections
<1>1. Laid(blocks)
  BY FillLaid
<1>2. CASE blocks = << >>
  <2>1. FALSE
    BY <1>2 DEF SectionInv
  <2> QED BY <2>1
<1>3. CASE blocks # << >>
  <2>1. Sectioning
    BY <1>3 DEF SectionInv
  <2> DEFINE m == current - 1
  <2>2. m \in Nat /\ Sectioned(blocks, files, m) /\ Len(files) >= 3
    BY <1>1, <2>1, LaidBlock DEF Sectioning
  <2> HIDE DEF m
  <2>3. Len(files) = Cardinality(StartsUpto(blocks, m))
    BY <2>2 DEF Sectioned
  <2>4. /\ Cardinality(StartsUpto(blocks, m)) <= Cardinality(Starts(blocks))
        /\ Cardinality(StartsUpto(blocks, m)) \in Nat /\ Cardinality(Starts(blocks)) \in Nat
    BY <1>1, <2>2, StartsGrow
  <2>5. Cardinality(Starts(blocks)) >= 3
    BY <2>2, <2>3, <2>4
  <2> QED BY <1>1, <2>5, StartsCount DEF Written
<1> QED BY <1>2, <1>3

-----------------------------------------------------------------------------
LEMMA MaxMinAre ==
    ASSUME NEW T \in SUBSET Nat, NEW l \in T, NEW h \in T, \A y \in T : l <= y /\ y <= h
    PROVE  Min(T) = l /\ Max(T) = h
<1>1. \A y \in T : y \in Int
  OBVIOUS
<1>2. Min(T) \in T /\ \A y \in T : Min(T) <= y
  BY DEF Min
<1>3. Max(T) \in T /\ \A y \in T : Max(T) >= y
  BY DEF Max
<1>4. l \in Int /\ h \in Int /\ Min(T) \in Int /\ Max(T) \in Int
  BY <1>1, <1>2, <1>3
<1>5. l <= Min(T) /\ Min(T) <= l /\ Max(T) <= h /\ Max(T) >= h
  BY <1>2, <1>3
<1> QED BY <1>4, <1>5

\* The first section of what ToBin sees: no block up to block j begins
\* another one, and the next one does.
FirstEnds(j) == /\ j \in 1 .. Len(blocks) /\ \A i \in 2 .. j : i \notin Starts(blocks)
                /\ j # Len(blocks) => j+1 \in Starts(blocks)

\* Its addresses are all there, and what is above it is above the next block.
LEMMA FirstSection ==
    ASSUME FillInv, NEW j, FirstEnds(j)
    PROVE  /\ \A a \in Nat : blocks[1].addr <= a /\ a < Top(blocks[j]) => a \in Written
           /\ \A a \in Written : Top(blocks[j]) <= a =>
                 j+1 \in Starts(blocks) /\ blocks[j+1].addr <= a
<1>1. /\ Laid(blocks) /\ Len(blocks) \in Nat /\ j \in 1 .. Len(blocks)
      /\ \A i \in 2 .. j : i \notin Starts(blocks)
      /\ j # Len(blocks) => j+1 \in Starts(blocks)
  BY FillLaid, LaidBlock DEF FirstEnds
<1> DEFINE lo == blocks[1].addr
           T == {m \in 0 .. j : m > 0 => \A a \in Nat : lo <= a /\ a < Top(blocks[m]) => a \in Written}
<1>2. 1 \in 1 .. Len(blocks) /\ j \in Nat /\ j \in 0 .. j /\ j > 0
  BY <1>1
<1>3. \A i \in 1 .. Len(blocks) : \A a \in Nat :
         blocks[i].addr <= a /\ a < Top(blocks[i]) => a \in Written
  BY <1>1, LaidImage DEF Written
<1>4. 0 \in T
  BY <1>1
<1>5. ASSUME NEW m \in 1 .. j, m-1 \in T PROVE m \in T
  <2>1. m \in 1 .. Len(blocks) /\ m \in 0 .. j
    BY <1>1
  <2>2. ASSUME NEW a \in Nat, lo <= a, a < Top(blocks[m]) PROVE a \in Written
    <3>1. CASE m = 1
      BY <1>3, <2>1, <2>2, <3>1
    <3>2. CASE m # 1
      <4>1. m \in 2 .. j /\ m-1 > 0 /\ m-1 \in 1 .. Len(blocks)
        BY <1>1, <3>2
      <4>2. Top(blocks[m-1]) = blocks[m].addr
        BY <1>1, <2>1, <4>1 DEF Starts
      <4>3. blocks[m].addr \in Nat
        BY <1>1, <2>1, LaidBlock
      <4>4. CASE a < blocks[m].addr
        <5>1. a < Top(blocks[m-1])
          BY <4>2, <4>4
        <5> QED BY <1>5, <2>2, <4>1, <5>1
      <4>5. CASE ~(a < blocks[m].addr)
        <5>1. blocks[m].addr <= a
          BY <4>3, <4>5
        <5> QED BY <1>3, <2>1, <2>2, <5>1
      <4> QED BY <4>4, <4>5
    <3> QED BY <3>1, <3>2
  <2> QED BY <2>1, <2>2
<1>6. T \in SUBSET (0 .. j)
  OBVIOUS
<1>7. \A m \in 0 .. j : m \in T
  <2> HIDE DEF T
  <2> QED BY <1>2, <1>4, <1>5, <1>6, Stepwise
<1>8. \A a \in Nat : lo <= a /\ a < Top(blocks[j]) => a \in Written
  BY <1>2, <1>7
<1>9. ASSUME NEW a \in Written, Top(blocks[j]) <= a
      PROVE  j+1 \in Starts(blocks) /\ blocks[j+1].addr <= a
  <2>1. a \in Nat
    BY <1>1, LaidImage DEF Written
  <2>2. PICK i \in 1 .. Len(blocks) : blocks[i].addr <= a /\ a < Top(blocks[i])
    BY <1>1, <2>1, LaidImage DEF Written
  <2>3. /\ Top(blocks[j]) \in Nat /\ blocks[j].addr \in Nat /\ blocks[j].addr < Top(blocks[j])
    BY <1>1, LaidBlock
  <2>4. /\ Top(blocks[i]) \in Nat /\ blocks[i].addr \in Nat /\ blocks[i].addr < Top(blocks[i])
    BY <1>1, LaidBlock
  <2>5. ~(i < j)
    <3>1. i < j => Top(blocks[i]) <= blocks[j].addr
      BY <1>1 DEF Laid
    <3> QED BY <1>9, <2>1, <2>2, <2>3, <2>4, <3>1
  <2>6. i # j
    BY <1>9, <2>1, <2>2, <2>3
  <2>7. j # Len(blocks) /\ j+1 \in 1 .. Len(blocks) /\ (i = j+1 \/ j+1 < i)
    BY <1>1, <2>5, <2>6
  <2>8. blocks[j+1].addr <= a
    <3>1. CASE i = j+1
      BY <2>2, <3>1
    <3>2. CASE j+1 < i
      <4>1. Top(blocks[j+1]) <= blocks[i].addr
        BY <1>1, <2>7, <3>2 DEF Laid
      <4>2. /\ Top(blocks[j+1]) \in Nat /\ blocks[j+1].addr \in Nat
            /\ blocks[j+1].addr < Top(blocks[j+1])
        BY <1>1, <2>7, LaidBlock
      <4> QED BY <2>1, <2>2, <2>4, <4>1, <4>2
    <3> QED BY <2>7, <3>1, <3>2
  <2> QED BY <1>1, <2>7, <2>8
<1> QED BY <1>8, <1>9

\* The section ends with a block that was read, and the next one begins with
\* one behind the first two.
LEMMA FirstEndsRead ==
    ASSUME FillInv, pc # "fill", NEW j, FirstEnds(j)
    PROVE  /\ \E i \in 1 .. Len(before) : blocks[j] = before[i]
           /\ j+1 \in Starts(blocks) => \E i \in 3 .. Len(before) : blocks[j+1] = before[i]
           /\ blocks[1] = before[1] /\ 1 \in 1 .. Len(before)
<1>1. /\ Laid(blocks) /\ Laid(before) /\ Len(blocks) \in Nat /\ Len(before) \in Nat
      /\ j \in 1 .. Len(blocks) /\ (j # Len(blocks) => j+1 \in Starts(blocks))
      /\ j+1 \in Starts(blocks) => j+1 \in 1 .. Len(blocks)
  BY FillLaid, LaidBlock DEF FirstEnds, FillInv, Starts
<1>2. CASE Untouched
  <2>1. blocks = before /\ (Len(before) > 1 => Gap(before) = 0)
    BY <1>2 DEF Untouched
  <2>2. ASSUME j+1 \in Starts(blocks) PROVE j+1 \in 3 .. Len(before)
    <3> SUFFICES ASSUME j = 1 PROVE FALSE
      BY <1>1, <2>1, <2>2
    <3>1. Len(before) > 1 /\ 1 \in 1 .. Len(before) /\ 2 \in 1 .. Len(before) /\ 1+1 = 2
      BY <1>1, <2>1, <2>2
    <3>2. Top(before[1]) \in Nat /\ before[2].addr \in Nat /\ before[2].addr - Top(before[1]) = 0
      BY <1>1, <2>1, <3>1, LaidBlock DEF Gap
    <3>3. Top(before[1]) = before[2].addr
      BY <3>2
    <3>4. 2 \in Starts(before) /\ 2-1 = 1
      BY <2>1, <2>2, <3>1
    <3> QED BY <3>3, <3>4 DEF Starts
  <2>3. 1 \in 1 .. Len(before)
    BY <1>1, <2>1
  <2> QED BY <1>1, <2>1, <2>2, <2>3
<1>3. CASE FilledOnce
  <2>1. Len(before) > 1 /\ Gap(before) > 0 /\ blocks = Plugged(before)
    BY <1>3 DEF FilledOnce
  <2>2. /\ Len(blocks) = Len(before)+1 /\ blocks[1] = before[1] /\ blocks[2] = Plug(before)
        /\ \A i \in 3 .. Len(before)+1 : blocks[i] = before[i-1]
        /\ Plug(before).addr = Top(before[1]) /\ Top(Plug(before)) = before[2].addr
    BY <1>1, <2>1, PluggedIs, PlugIs
  <2>3. blocks[3] = before[2] /\ 3-1 = 2 /\ 2-1 = 1
    <3>1. 3 \in 3 .. Len(before)+1 /\ 3-1 = 2
      BY <1>1, <2>1
    <3> QED BY <2>2, <3>1
  <2>4. 2 \notin Starts(blocks) /\ 3 \notin Starts(blocks)
    BY <2>2, <2>3 DEF Starts
  <2>5. j # 1 /\ j # 2
    <3>1. ASSUME j = 1 PROVE FALSE
      <4>1. j # Len(blocks) /\ j+1 = 2
        BY <1>1, <2>1, <2>2, <3>1
      <4> QED BY <1>1, <2>4, <4>1
    <3>2. ASSUME j = 2 PROVE FALSE
      <4>1. j # Len(blocks) /\ j+1 = 3
        BY <1>1, <2>1, <2>2, <3>2
      <4> QED BY <1>1, <2>4, <4>1
    <3> QED BY <3>1, <3>2
  <2>6. j \in 3 .. Len(before)+1 /\ j-1 \in 1 .. Len(before) /\ 1 \in 1 .. Len(before)
    BY <1>1, <2>2, <2>5
  <2>7. ASSUME j+1 \in Starts(blocks)
        PROVE  j \in 3 .. Len(before) /\ blocks[j+1] = before[j]
    <3>1. j+1 \in 3 .. Len(before)+1 /\ (j+1)-1 = j /\ j \in 3 .. Len(before)
      BY <1>1, <2>2, <2>6, <2>7
    <3> QED BY <2>2, <3>1
  <2>8. blocks[j] = before[j-1]
    BY <2>2, <2>6
  <2> QED BY <2>2, <2>6, <2>7, <2>8
<1> QED BY <1>2, <1>3 DEF FillInv

\* The program of the update file is the memory of the first section.
LEMMA ProgramIs ==
    ASSUME FillInv, pc # "fill", NEW j, FirstEnds(j)
    PROVE  Program = Stretch(blocks, j)
<1> DEFINE lo == blocks[1].addr
           hi == Top(blocks[j])
           as == {a \in WasRead : \A s \in FurtherStarts : a < s}
<1>1. /\ Laid(blocks) /\ Laid(before) /\ Len(blocks) \in Nat /\ j \in 1 .. Len(blocks)
      /\ Len(before) \in Nat
  BY FillLaid, LaidBlock DEF FirstEnds, FillInv
<1>2. blocks[1] = before[1] /\ 1 \in 1 .. Len(before) /\ 1 \in 1 .. Len(blocks)
  BY <1>1, FirstEndsRead
<1>3. /\ lo \in Nat /\ Top(blocks[1]) \in Nat /\ lo < Top(blocks[1])
      /\ hi \in Nat /\ lo < hi
  <2>1. lo \in Nat /\ Top(blocks[1]) \in Nat /\ lo < Top(blocks[1]) /\ hi \in Nat
    BY <1>1, <1>2, LaidBlock
  <2>2. Top(blocks[j]) - blocks[1].addr \in Nat \ {0}
    BY <1>1, StretchGrows
  <2> QED BY <2>1, <2>2
<1>4. /\ \A a \in Nat : lo <= a /\ a < hi => a \in Written
      /\ \A a \in Written : hi <= a => j+1 \in Starts(blocks) /\ blocks[j+1].addr <= a
  BY FirstSection
<1>5. /\ WasRead \subseteq Nat
      /\ \A a \in Nat : a \in WasRead <=>
            \E i \in 1 .. Len(before) : before[i].addr <= a /\ a < Top(before[i])
  BY <1>1, LaidImage DEF WasRead
<1>6. WasRead \subseteq Written /\ (\A a \in WasRead : Image(blocks)[a] = Image(before)[a])
      /\ \A a \in Written \ WasRead : Image(blocks)[a] = Filler
  <2>1. FillKeepsData
    BY FilledKeeps
  <2>2. WasRead \subseteq Written
    <3>1. CASE Untouched
      BY <3>1 DEF Untouched, Written, WasRead
    <3>2. CASE FilledOnce
      BY <1>1, <3>2, PluggedImage DEF FilledOnce, Written, WasRead
    <3> QED BY <3>1, <3>2 DEF FillInv
  <2> QED BY <2>1, <2>2 DEF FillKeepsData
<1>7. \A a \in Written \ WasRead : Len(before) > 1 /\ a < before[2].addr
  <2>1. CASE Untouched
    BY <2>1 DEF Untouched, Written, WasRead
  <2>2. CASE FilledOnce
    <3>1. Len(before) > 1 /\ Written \ WasRead = Top(before[1]) .. before[2].addr - 1
      BY <1>1, <2>2, PluggedImage DEF FilledOnce, Written, WasRead
    <3>2. 2 \in 1 .. Len(before)
      BY <1>1, <3>1
    <3>3. before[2].addr \in Nat /\ Top(before[1]) \in Nat
      BY <1>1, <1>2, <3>2, LaidBlock
    <3> QED BY <3>1, <3>3
  <2> QED BY <2>1, <2>2 DEF FillInv
\* The lowest address that was read, and the last one of the section.
<1>8. lo \in WasRead /\ \A a \in WasRead : lo <= a
  <2>1. lo \in WasRead
    <3>1. before[1].addr <= lo /\ lo < Top(before[1])
      BY <1>2, <1>3
    <3> QED BY <1>2, <1>3, <1>5, <3>1
  <2>2. ASSUME NEW a \in WasRead PROVE lo <= a
    <3>1. PICK i \in 1 .. Len(before) : before[i].addr <= a /\ a < Top(before[i])
      BY <1>5
    <3>2. a \in Nat /\ before[i].addr \in Nat
      BY <1>1, <1>5, LaidBlock
    <3>3. CASE i = 1
      BY <1>2, <3>1, <3>3
    <3>4. CASE i # 1
      <4>1. Top(before[1]) <= before[i].addr
        BY <1>1, <1>2, <3>4 DEF Laid
      <4> QED BY <1>2, <1>3, <3>1, <3>2, <4>1
    <3> QED BY <3>3, <3>4
  <2> QED BY <2>1, <2>2
<1>9. hi - 1 \in WasRead
  <2>1. PICK i \in 1 .. Len(before) : blocks[j] = before[i]
    BY FirstEndsRead
  <2>2. before[i].addr \in Nat /\ before[i].addr < Top(before[i]) /\ Top(before[i]) = hi
    BY <1>1, <2>1, LaidBlock
  <2>3. hi - 1 \in Nat /\ before[i].addr <= hi - 1 /\ hi - 1 < Top(before[i])
    BY <1>3, <2>2
  <2> QED BY <1>5, <2>3
\* The further starts are above the section, and the lowest one is the next
\* block's.
<1>10. ASSUME NEW s \in FurtherStarts
       PROVE  s \in Nat /\ hi <= s
  <2>1. PICK i \in 3 .. Len(before) : s = before[i].addr
    BY DEF FurtherStarts
  <2>2. s-1 \notin WasRead
    BY DEF FurtherStarts, SectionStarts
  <2>3. i \in 1 .. Len(before) /\ 2 \in 1 .. Len(before) /\ 1 < i /\ 2 < i
    BY <1>1
  <2>4. s \in Nat /\ before[2].addr \in Nat /\ Top(before[2]) \in Nat
        /\ before[2].addr < Top(before[2])
    BY <1>1, <2>1, <2>3, LaidBlock
  <2>5. Top(before[1]) <= s /\ Top(before[2]) <= s
    BY <1>1, <1>2, <2>1, <2>3 DEF Laid
  <2> SUFFICES ASSUME s < hi PROVE FALSE
    BY <1>3, <2>4
  <2>6. lo < s
    BY <1>2, <1>3, <2>4, <2>5
  <2>7. s-1 \in Nat /\ lo <= s-1 /\ s-1 < hi
    BY <1>3, <2>4, <2>6
  <2>8. s-1 \in Written \ WasRead
    BY <1>4, <2>2, <2>7
  <2>9. s-1 < before[2].addr
    BY <1>7, <2>8
  <2> QED BY <2>4, <2>5, <2>9
<1>11. ASSUME j+1 \in Starts(blocks) PROVE blocks[j+1].addr \in FurtherStarts
  <2>1. PICK i \in 3 .. Len(before) : blocks[j+1] = before[i]
    BY <1>11, FirstEndsRead
  <2>2. blocks[j+1].addr - 1 \notin WasRead
    <3>1. blocks[j+1].addr \in SectionStarts(Written)
      BY <1>1, <1>11, StartsBegin DEF Written
    <3> QED BY <1>6, <3>1 DEF SectionStarts
  <2>3. i \in 1 .. Len(before)
    BY <1>1
  <2>4. before[i].addr \in Nat /\ before[i].addr < Top(before[i]) /\ before[i].addr <= before[i].addr
    BY <1>1, <2>3, LaidBlock
  <2>5. before[i].addr \in WasRead
    BY <1>5, <2>3, <2>4
  <2> QED BY <2>1, <2>2, <2>5 DEF FurtherStarts, SectionStarts
<1> HIDE DEF lo, hi
<1>12. lo \in as /\ hi - 1 \in as
  <2>1. ASSUME NEW s \in FurtherStarts PROVE lo < s /\ hi - 1 < s
    BY <1>3, <1>10
  <2> QED BY <1>8, <1>9, <2>1
<1>13. ASSUME NEW a \in as PROVE lo <= a /\ a <= hi - 1
  <2>1. a \in WasRead /\ a \in Nat /\ a \in Written /\ \A s \in FurtherStarts : a < s
    BY <1>5, <1>6
  <2>2. ASSUME hi <= a PROVE FALSE
    <3>1. j+1 \in Starts(blocks) /\ blocks[j+1].addr <= a
      BY <1>4, <2>1, <2>2
    <3>2. a < blocks[j+1].addr /\ blocks[j+1].addr \in Nat
      BY <1>10, <1>11, <2>1, <3>1
    <3> QED BY <2>1, <3>1, <3>2
  <2> QED BY <1>3, <1>8, <2>1, <2>2
<1>14. Min(as) = lo /\ Max(as) = hi - 1
  <2>1. as \in SUBSET Nat
    BY <1>5
  <2> HIDE DEF as
  <2> QED BY <1>12, <1>13, <2>1, MaxMinAre
<1>15. Program = [k \in 1 .. Max(as) - Min(as) + 1 |->
                    LET a == Min(as) + k - 1 IN IF a \in WasRead THEN Image(before)[a] ELSE Filler]
  <2>1. as # {}
    BY <1>12
  <2> QED BY <2>1 DEF Program
<1> HIDE DEF as
<1>16. (hi - 1) - lo + 1 = hi - lo
  BY <1>3
<1>17. Program = [k \in 1 .. hi - lo |->
                    IF lo + k - 1 \in WasRead THEN Image(before)[lo + k - 1] ELSE Filler]
  BY <1>14, <1>15, <1>16
<1>18. ASSUME NEW k \in 1 .. hi - lo
       PROVE  (IF lo + k - 1 \in WasRead THEN Image(before)[lo + k - 1] ELSE Filler)
                 = Image(blocks)[lo + k - 1]
  <2> DEFINE a == lo + k - 1
  <2>1. a \in Nat /\ lo <= a /\ a < hi
    BY <1>3
  <2> HIDE DEF a
  <2>2. a \in Written
    BY <1>4, <2>1 DEF lo, hi
  <2>3. (IF a \in WasRead THEN Image(before)[a] ELSE Filler) = Image(blocks)[a]
    BY <1>6, <2>2
  <2> QED BY <2>3 DEF a
<1>19. Program = [k \in 1 .. hi - lo |-> Image(blocks)[lo + k - 1]]
  BY <1>17, <1>18
<1> QED BY <1>19 DEF Stretch, lo, hi

\* So the first file holds the program when ToBin is done.
LEMMA FirstIsProgram ==
    FillInv /\ SectionInv /\ pc \in {"done", "failed"} /\ files # << >> => files[1].data = Program
<1> SUFFICES ASSUME FillInv, SectionInv, pc \in {"done", "failed"}, files # << >>
             PROVE  files[1].data = Program
  OBVIOUS
<1>1. CASE blocks = << >>
  <2>1. files = OneFile
    BY <1>1 DEF SectionInv
  <2>2. before = << >>
    <3>1. CASE Untouched
      BY <1>1, <3>1 DEF Untouched
    <3>2. CASE FilledOnce
      <4>1. Laid(before) /\ Len(before) > 1 /\ Gap(before) > 0 /\ blocks = Plugged(before)
        BY <3>2 DEF FilledOnce, FillInv
      <4>2. Len(blocks) = Len(before) + 1 /\ Len(before) \in Nat
        BY <4>1, PluggedIs, LaidBlock
      <4> QED BY <1>1, <4>2
    <3> QED BY <3>1, <3>2 DEF FillInv
  <2>3. WasRead = {}
    BY <2>2 DEF WasRead, Image
  <2>4. Program = << >>
    BY <2>3 DEF Program
  <2> QED BY <2>1, <2>4 DEF OneFile
<1>2. CASE blocks # << >>
  <2> DEFINE n == Len(blocks)
             m == current - 1
  <2>1. Laid(blocks) /\ n \in Nat /\ n # 0
    BY <1>2, FillLaid, LaidBlock, EmptySeq
  <2>2. Sectioning
    BY <1>2 DEF SectionInv
  <2>3. /\ m \in 1 .. n /\ Sectioned(blocks, files, m)
        /\ m # n => m+1 \in Starts(blocks)
    <3>1. current \in 1 .. n+1 /\ current # 1
      BY <2>1, <2>2 DEF Sectioning
    <3>2. m \in 1 .. n /\ m+1 = current
      BY <2>1, <3>1
    <3> QED BY <2>2, <3>1, <3>2 DEF Sectioning
  <2> HIDE DEF m
  <2>4. PICK j \in 1 .. m : FirstOf(blocks, files, m, j)
    BY <2>3 DEF Sectioned
  <2>5. FirstEnds(j)
    <3>1. j \in 1 .. n
      BY <2>1, <2>3
    <3>2. j # n => j+1 \in Starts(blocks)
      BY <2>3, <2>4 DEF FirstOf
    <3> QED BY <2>4, <3>1, <3>2 DEF FirstEnds, FirstOf
  <2>6. Program = Stretch(blocks, j)
    BY <2>5, ProgramIs
  <2> QED BY <2>4, <2>6 DEF FirstOf
<1> QED BY <1>1, <1>2

-----------------------------------------------------------------------------
\* Program is about `before', which no step changes.
ReadBytes(bs) == DOMAIN Image(bs)
FurtherStartsOf(bs) == {bs[i].addr : i \in 3 .. Len(bs)} \cap SectionStarts(ReadBytes(bs))
ProgramOf(bs) ==
    LET as == {a \in ReadBytes(bs) : \A s \in FurtherStartsOf(bs) : a < s}
    IN  IF as = {} THEN << >>
        ELSE [k \in 1 .. Max(as) - Min(as) + 1 |->
                LET a == Min(as) + k - 1 IN IF a \in ReadBytes(bs) THEN Image(bs)[a] ELSE Filler]

LEMMA ProgramOfRead == Program = ProgramOf(before)
BY Zenon DEF Program, ProgramOf, FurtherStarts, FurtherStartsOf, ReadBytes, WasRead
LEMMA ProgramOfReadThen == (Program = ProgramOf(before))'
BY ProgramOfRead, PTL
LEMMA ProgramStays ==
    ASSUME before' = before
    PROVE  Program' = Program
<1>1. ProgramOf(before)' = ProgramOf(before)
  <2> HIDE DEF ProgramOf
  <2> QED BY Zenon
<1> QED BY <1>1, ProgramOfRead, ProgramOfReadThen, Zenon

LEMMA FirstIsProgramThen ==
    (FillInv /\ SectionInv /\ pc \in {"done", "failed"} /\ files # << >>
        => files[1].data = Program)'
BY FirstIsProgram, PTL

\* UpdateHoldsProgram rests on: a .bin of this publication holds the program.
HoldsBin == step \in {"GenUpdateFile", "read", "write"} /\ dir.bin = "new" => BinData = Program
UInv ==
    /\ PInv /\ FillInv /\ SectionInv
    /\ HoldsBin
    /\ UpdateHoldsProgram

LEMMA InitUInv == PublishInit => UInv
<1> SUFFICES ASSUME PublishInit PROVE UInv
  OBVIOUS
<1>1. PInv /\ FillInv /\ SectionInv
  BY InitPInv, InitFillInv, InitSectionInv DEF PublishInit
<1>2. step = "HexMerge" /\ dir.dat # "new"
  BY <1>1 DEF PublishInit, PInv, Following
<1> QED BY <1>1, <1>2 DEF UInv, HoldsBin, UpdateHoldsProgram

LEMMA StepUInv == UInv /\ [PublishNext]_publishVars => UInv'
<1> SUFFICES ASSUME UInv, [PublishNext]_publishVars PROVE UInv'
  OBVIOUS
<1>1. PInv /\ PInv'
  BY StepPInv DEF UInv
<1>2. [Next]_vars
  BY DEF PublishNext, publishVars, HexMerge, HexMergeFails, HexToBin, HexToBinFails,
         GenUpdateFails, GenUpdateOpens, ReadChunk, ReadFails, WriteUpdate, Delete
<1>3. FillInv' /\ SectionInv'
  BY <1>2, StepFillInv, StepSectionInv DEF UInv, PInv
<1>4. before' = before
  BY <1>2, NextKeepsRead DEF vars
<1>5. Program' = Program
  BY <1>4, ProgramStays
<1>6. dir \in DirType /\ dir' \in DirType
  BY <1>1 DEF PInv
<1> SUFFICES HoldsBin' /\ UpdateHoldsProgram'
  BY <1>1, <1>3 DEF UInv
<1>7. ASSUME files' = files, dir'.bin = dir.bin, dir'.dat = "new" => dir' = dir,
             step' \in {"GenUpdateFile", "read", "write"} /\ dir.bin = "new"
                => step \in {"GenUpdateFile", "read", "write"}
      PROVE  HoldsBin' /\ UpdateHoldsProgram'
  <2>1. BinData' = BinData
    BY <1>7 DEF BinData
  <2>2. HoldsBin'
    BY <1>5, <1>7, <2>1 DEF UInv, HoldsBin
  <2>3. UpdateHoldsProgram'
    BY <1>5, <1>7 DEF UInv, UpdateHoldsProgram
  <2> QED BY <2>2, <2>3
<1>8. CASE HexMerge
  <2>1. dir'.bin = dir.bin /\ dir'.dat # "new" /\ files' = files /\ step' = "HexToBin"
    BY <1>1, <1>6, <1>8 DEF HexMerge, vars, PInv, Following, DirType
  <2> QED BY <1>7, <2>1
<1>9. CASE HexMergeFails
  BY <1>7, <1>9 DEF HexMergeFails, vars
<1>10. CASE HexToBin
  <2>1. step = "HexToBin" /\ dir.bin # "new" /\ dir.dat # "new"
    BY <1>1, <1>10 DEF HexToBin, PInv, Following
  <2>2. CASE pc' \in {"done", "failed"} /\ files' # << >>
    <3>1. dir' = [dir EXCEPT !.bin = "new"]
      BY <1>10, <2>2 DEF HexToBin
    <3>2. dir'.bin = "new" /\ dir'.dat # "new"
      BY <1>6, <2>1, <3>1 DEF DirType
    <3>3. BinData' = Program'
      BY <1>3, <2>2, <3>2, FirstIsProgramThen DEF BinData
    <3> QED BY <3>2, <3>3 DEF HoldsBin, UpdateHoldsProgram
  <2>3. CASE ~(pc' \in {"done", "failed"} /\ files' # << >>)
    <3>1. dir' = dir
      BY <1>10, <2>3 DEF HexToBin
    <3> QED BY <2>1, <3>1 DEF HoldsBin, UpdateHoldsProgram
  <2> QED BY <2>2, <2>3
<1>11. CASE HexToBinFails
  <2>1. dir' = dir /\ files' = files /\ dir.bin # "new"
    BY <1>1, <1>11 DEF HexToBinFails, vars, PInv, Following
  <2> QED BY <1>7, <2>1
<1>12. CASE GenUpdateFails
  BY <1>7, <1>12 DEF GenUpdateFails, vars
<1>13. CASE GenUpdateOpens
  <2>1. /\ step = "GenUpdateFile" /\ files' = files
        /\ dir'.bin = dir.bin /\ dir'.dat = "emptied"
    BY <1>6, <1>13 DEF GenUpdateOpens, DirType, vars
  <2> QED BY <1>7, <2>1
<1>14. CASE ReadChunk
  <2>1. step = "read" /\ dir' = dir /\ files' = files
    BY <1>14 DEF ReadChunk, vars
  <2> QED BY <1>7, <2>1
<1>15. CASE ReadFails
  BY <1>7, <1>15 DEF ReadFails, vars
<1>16. CASE WriteUpdate
  <2>1. /\ step = "write" /\ step' = "del" /\ dir'.program = got
        /\ dir'.dat = "new" => dir.bin = "new"
    BY <1>6, <1>16 DEF WriteUpdate, DirType
  <2>2. got = BinData /\ (dir.bin = "new" => BinData = Program)
    BY <1>1, <2>1 DEF UInv, HoldsBin, PInv, Reading
  <2>3. UpdateHoldsProgram'
    BY <1>5, <2>1, <2>2 DEF UpdateHoldsProgram
  <2> QED BY <2>1, <2>3 DEF HoldsBin
<1>17. CASE Delete
  <2>1. /\ step' = "ExecCP" /\ dir'.dat = dir.dat /\ dir'.program = dir.program
    BY <1>6, <1>17 DEF Delete, DirType
  <2> QED BY <1>5, <2>1 DEF UInv, HoldsBin, UpdateHoldsProgram
<1>18. CASE UNCHANGED publishVars
  <2>1. dir' = dir /\ step' = step /\ files' = files
    BY <1>18 DEF publishVars, vars
  <2> QED BY <1>7, <2>1
<1> QED BY <1>8, <1>9, <1>10, <1>11, <1>12, <1>13, <1>14, <1>15, <1>16, <1>17, <1>18
        DEF PublishNext

-----------------------------------------------------------------------------
LEMMA Updated == PublishSpec => []UInv
BY InitUInv, StepUInv, PTL DEF PublishSpec

\* Filling adds filler bytes between the first block and the last, as many as
\* it reports, and changes no byte that was read.
THEOREM FillKeeps == PublishSpec => []FillKeepsData
<1>1. UInv => FillKeepsData
  BY FilledKeeps DEF UInv
<1> QED BY <1>1, Updated, PTL

\* The binary files are the sections of the blocks in ascending order, one
\* file each, with every byte at its place.
THEOREM OneFileEach == PublishSpec => []FilesAreSections
<1>1. UInv => FilesAreSections
  BY BinFiles DEF UInv
<1> QED BY <1>1, Updated, PTL

\* Only a file of at least three sections comes to the end of the buffer that
\* ToBin makes the names in.
THEOREM OverrunNeedsThree == PublishSpec => []OverrunNeedsThreeSections
<1>1. UInv => OverrunNeedsThreeSections
  BY BinOverrun DEF UInv
<1> QED BY <1>1, Updated, PTL

\* An update file that was written holds the terminal's memory from its first
\* byte to the end of its first section, the gap behind the first block filled.
THEOREM HoldsProgram == PublishSpec => []UpdateHoldsProgram
<1>1. UInv => UpdateHoldsProgram
  BY DEF UInv
<1> QED BY <1>1, Updated, PTL
=============================================================================
