------------------------------ MODULE HexFile ------------------------------
(***************************************************************************)
(* The in-memory Intel HEX file of src/intel hex/intel.c: a list of        *)
(* address blocks, kept as a sequence (BlockHead is its first element,     *)
(* BlockTail its last), and what one line of a file or one library call    *)
(* does to it.  Addresses are unsigned and wrap at W, which stands for     *)
(* 2^32; S stands for the 2^16 bytes a 16-bit address field reaches.       *)
(***************************************************************************)
EXTENDS Integers, SequencesExt

CONSTANTS W, S

ASSUME SizesAssumption == /\ W \in Nat \ {0} /\ S \in Nat \ {0} /\ W % S = 0

Address == 0 .. W-1
Block(a, d) == [addr |-> a, data |-> d]
Len32(b) == Len(b.data)

\* The address after a block, in u32 arithmetic.
End(b) == (b.addr + Len32(b)) % W

\* The addresses a byte string placed at a covers.
Span(a, n) == {(a + k) % W : k \in 0 .. n-1}

\* What memory holds after loading the blocks, later ones over earlier ones;
\* addresses of no block are not in the domain.
Image(bs) ==
    LET covers(i) == Span(bs[i].addr, Len32(bs[i]))
    IN  [a \in UNION {covers(i) : i \in DOMAIN bs} |->
            LET i == SelectLastInSeq(bs, LAMBDA b : a \in Span(b.addr, Len32(b)))
            IN  bs[i].data[((a - bs[i].addr) % W) + 1]]

-----------------------------------------------------------------------------
\* AddBlock appends to the last block if it ends at a; only if that block ends
\* above a does it look for another one that ends there, from the first on.
AppendIndex(bs, a) ==
    CASE End(Last(bs)) = a -> Len(bs)
      [] End(Last(bs)) < a -> 0
      [] OTHER -> SelectInSeq(bs, LAMBDA b : End(b) = a)

\* Otherwise the new block goes after the last of those that end below a.  Bug
\* variant: always after the last block.
InsertIndex_Tail(bs, a) == Len(bs)
InsertIndex(bs, a) == SelectLastInSeq(bs, LAMBDA b : End(b) < a)

\* The overlaps AddBlock notices: a lies in the first block, or the new block
\* reaches into the one behind it.  Bug variant: to touch it is to overlap.
Overlaps_Touching(bs, k, a, n) ==
    IF k = 0 THEN a > bs[1].addr
             ELSE k < Len(bs) /\ (a + n) % W >= bs[k+1].addr
Overlaps(bs, k, a, n) ==
    IF k = 0 THEN a > bs[1].addr
             ELSE k < Len(bs) /\ (a + n) % W > bs[k+1].addr

\* realloc to no bytes returns NULL.  Bug variant: asked for the new bytes only.
NothingAsked_NewOnly(old, new) == new = << >>
NothingAsked(old, new) == old \o new = << >>

\* AddBlock: how it ends and the list it leaves.  The error path behind a NULL
\* from realloc follows a pointer that is NULL there.
AddBlock(bs, a, d) ==
    IF bs = << >> THEN [how |-> "added", blocks |-> <<Block(a, d)>>]
    ELSE LET i == AppendIndex(bs, a)
             k == InsertIndex(bs, a)
         IN CASE i > 0 /\ NothingAsked(bs[i].data, d) ->
                     [how |-> "crash", blocks |-> bs]
              [] i > 0 /\ ~NothingAsked(bs[i].data, d) ->
                     [how |-> "added", blocks |-> [bs EXCEPT ![i].data = @ \o d]]
              [] i = 0 /\ Overlaps(bs, k, a, Len(d)) ->
                     [how |-> "overlap", blocks |-> bs]
              [] OTHER -> [how |-> "added",
                           blocks |-> InsertAt(bs, k+1, Block(a, d))]

-----------------------------------------------------------------------------
\* A struct IntelHexFormat as IntelHexFileInput first leaves it.
EmptyHex == [blocks |-> << >>, total |-> 0, eof |-> FALSE, mode |-> "linear",
             base |-> 0, start |-> 0]

\* AddBlock followed by the update of TotalLength; the parser stops on FALSE.
\* Bug variant: the length is counted before the block is accepted.
Store_CountsFirst(h, a, d) ==
    LET r == AddBlock(h.blocks, a, d)
    IN  [how |-> r.how,
         hex |-> [h EXCEPT !.blocks = r.blocks, !.total = (@ + Len(d)) % W]]
Store(h, a, d) ==
    LET r == AddBlock(h.blocks, a, d)
    IN  [how |-> r.how,
         hex |-> IF r.how = "added"
                   THEN [h EXCEPT !.blocks = r.blocks, !.total = (@ + Len(d)) % W]
                   ELSE h]

\* How much of a record at a fits below the top.  Bug variant: one byte less.
FitsBelowTop_OffByOne(a) == W - a - 1
FitsBelowTop(a) == W - a

\* A data record in linear mode.  One that runs over the top of memory is
\* split, and the part that wraps to address 0 is stored first.
StoreLinear(h, field, d) ==
    LET a == h.base + field
        split == FitsBelowTop(a)
    IN  IF a + Len(d) <= W THEN Store(h, a, d)
        ELSE LET wrapped == Store(h, 0, SubSeq(d, split+1, Len(d)))
             IN  IF wrapped.how = "added"
                   THEN Store(wrapped.hex, a, SubSeq(d, 1, split))
                   ELSE wrapped

\* The base an extended linear address record sets.
BaseOf(v) == v * S

\* What a line can be once ParseOneLine has decoded it: blank or garbage, or
\* of an unknown type ("ignored"); wrong in its length, count or checksum or in
\* what its type demands ("malformed"); or a record.  An extended segment
\* record counts as malformed unless it carries no data, so its base is 0.  A
\* start segment record sets a field that nothing reads and that is not kept.
Line(k) == [kind |-> k]
DataLine(f, d) == [kind |-> "data", field |-> f, data |-> d]
LinearBase(v) == [kind |-> "linearBase", value |-> v]
StartLinear(v) == [kind |-> "startLinear", value |-> v]

\* ParseOneLine: "added" lets the caller read on, anything else stops it.
ParseOneLine(h, line) ==
    LET more(g) == [how |-> "added", hex |-> g]
    IN CASE line.kind \in {"ignored", "startSegment"} -> more(h)
         [] line.kind = "malformed" -> [how |-> "malformed", hex |-> h]
         [] line.kind = "data" /\ h.mode = "linear" ->
                StoreLinear(h, line.field, line.data)
         [] line.kind = "data" /\ h.mode = "segmented" -> more(h)
         [] line.kind = "eof" -> more([h EXCEPT !.eof = TRUE])
         [] line.kind = "segmentBase" ->
                more([h EXCEPT !.base = 0, !.mode = "segmented"])
         [] line.kind = "linearBase" ->
                more([h EXCEPT !.base = BaseOf(line.value), !.mode = "linear"])
         [] line.kind = "startLinear" -> more([h EXCEPT !.start = line.value])

-----------------------------------------------------------------------------
\* The lists that reading a file leaves, for files whose records come in
\* ascending order: blocks that may touch (a later record can close a gap) and
\* come to the top of memory at most.  Bytes are told apart by their address.
BytesAt(a, n) == [i \in 1 .. n |-> a + i - 1]
Ascending(bs) == \A i \in 1 .. Len(bs)-1 : bs[i].addr + Len32(bs[i]) <= bs[i+1].addr
ReadLists(most, lengths) ==
    {bs \in BoundedSeq({Block(a, BytesAt(a, n)) : a \in Address, n \in lengths}, most) :
        Ascending(bs) /\ (bs # << >> => Last(bs).addr + Len32(Last(bs)) <= W)}

\* The bytes of a list, as TotalLength counts them.
LengthOf(bs) == FoldLeft(LAMBDA n, b : n + Len32(b), 0, bs) % W
=============================================================================
