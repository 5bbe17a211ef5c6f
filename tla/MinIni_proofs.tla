--------------------------- MODULE MinIni_proofs ---------------------------
(***************************************************************************)
(* Proofs about module MinIni, for files of any length, any names and      *)
(* values, any number of calls, and crashes at any point of them: first    *)
(* what the copying loops of ini_puts make of a file, then what the calls  *)
(* keep.                                                                   *)
(***************************************************************************)
EXTENDS MinIni, SequenceTheorems, FiniteSetTheorems, WellFoundedInduction, TLAPS

\* There is no library theorem without an operator parameter that gives a
\* least number, so that it is taken from the well-founded order.
LEMMA LeastNatural ==
    ASSUME NEW T \in SUBSET Nat, T # {}
    PROVE  \E x \in T : \A y \in T : x <= y
<1>1. PICK x \in T : \A y \in T : ~(<<y, x>> \in OpToRel(<, Nat))
  BY WFMin, NatLessThanWellFounded, Zenon
<1>2. \A y \in T : ~(y < x)
  BY <1>1, Zenon DEF OpToRel
<1> QED BY <1>2

LEMMA MinIsLeast ==
    ASSUME NEW T \in SUBSET Nat, T # {}
    PROVE  Min(T) \in T /\ \A y \in T : Min(T) <= y
<1>1. \E x \in T : \A y \in T : x <= y
  BY LeastNatural
<1> QED BY <1>1, Zenon DEF Min

LEMMA GreatestBelow ==
    ASSUME NEW n \in Nat, NEW T \in SUBSET (1 .. n), T # {}
    PROVE  \E x \in T : \A y \in T : y <= x
<1> DEFINE U == {n - y : y \in T}
<1>1. U \in SUBSET Nat /\ U # {}
  <2>1. \A y \in T : y \in Nat /\ n - y \in Nat
    OBVIOUS
  <2> QED BY <2>1
<1>2. PICK u \in U : \A w \in U : u <= w
  BY <1>1, LeastNatural
<1>3. PICK x \in T : u = n - x
  BY <1>2
<1>4. \A y \in T : n - x <= n - y
  BY <1>2, <1>3
<1> QED BY <1>4

-----------------------------------------------------------------------------
Texts == Seq(Lines)
IsHeader(f, i) == f[i].kind = "header"
NoHeader(f, i, j) == \A m \in i .. j : ~IsHeader(f, m)

\* Line i of f is the entry of the setting <<s, k>>.
Holds(f, s, k, i) == /\ i \in 1 .. Len(f) /\ f[i].kind = "entry" /\ f[i].name = k
                     /\ SectionOf(f, i) = s

-----------------------------------------------------------------------------
LEMMA LineTypes ==
    ASSUME NEW l \in Lines
    PROVE  /\ l.kind \in {"header", "entry", "comment"}
           /\ l.kind = "header" => l.name \in Sections /\ l = Header(l.name)
           /\ l.kind = "entry" => l.name \in Keys /\ l.value \in Values
                                  /\ l = Entry(l.name, l.value)
BY DEF Lines, Header, Entry, Comment

LEMMA TextLines ==
    ASSUME NEW f \in Texts
    PROVE  Len(f) \in Nat /\ \A i \in 1 .. Len(f) : f[i] \in Lines
BY LenProperties, ElementOfSeq DEF Texts

\* The section of a line is named by the last header that is not below it.
LEMMA SectionIs ==
    ASSUME NEW f \in Texts, NEW i \in 1 .. Len(f), NEW h \in 1 .. i,
           IsHeader(f, h), NoHeader(f, h+1, i)
    PROVE  SectionOf(f, i) = f[h].name
<1> DEFINE H == {j \in 1 .. i : f[j].kind = "header"}
           x == CHOOSE j \in H : \A m \in H : m <= j
<1>1. h \in H /\ \A m \in H : m <= h
  BY TextLines DEF IsHeader, NoHeader
<1>2. x \in H /\ \A m \in H : m <= x
  BY <1>1, Zenon
<1>3. x = h
  BY <1>1, <1>2
<1>4. SectionOf(f, i) = f[x].name
  <2>1. H # {}
    BY <1>1
  <2> QED BY <2>1, Zenon DEF SectionOf
<1> QED BY <1>3, <1>4

LEMMA SectionIsTop ==
    ASSUME NEW f \in Texts, NEW i \in 1 .. Len(f), NoHeader(f, 1, i)
    PROVE  SectionOf(f, i) = Top
<1>1. {j \in 1 .. i : f[j].kind = "header"} = {}
  BY DEF NoHeader, IsHeader
<1> QED BY <1>1, Zenon DEF SectionOf

LEMMA LastHeader ==
    ASSUME NEW f \in Texts, NEW i \in 1 .. Len(f)
    PROVE  \/ NoHeader(f, 1, i) /\ SectionOf(f, i) = Top
           \/ \E h \in 1 .. i : /\ IsHeader(f, h) /\ NoHeader(f, h+1, i)
                                /\ SectionOf(f, i) = f[h].name /\ f[h].name \in Sections
<1>1. CASE NoHeader(f, 1, i)
  BY <1>1, SectionIsTop
<1>2. CASE ~NoHeader(f, 1, i)
  <2> DEFINE H == {j \in 1 .. i : IsHeader(f, j)}
  <2>1. H # {} /\ H \in SUBSET (1 .. i) /\ i \in Nat
    BY <1>2, TextLines DEF NoHeader
  <2>2. PICK h \in H : \A m \in H : m <= h
    BY <2>1, GreatestBelow
  <2>3. h \in 1 .. i /\ IsHeader(f, h) /\ NoHeader(f, h+1, i)
    BY <2>2, <2>1 DEF NoHeader
  <2>4. f[h].name \in Sections
    BY <2>3, TextLines, LineTypes DEF IsHeader
  <2> QED BY <2>3, <2>4, SectionIs
<1> QED BY <1>1, <1>2

-----------------------------------------------------------------------------
\* getkeystring's search for a section, and for the line that ends the search
\* for a key in it.
LEMMA SectionFound ==
    ASSUME NEW f \in Texts, NEW s \in Places, HasSection(f, s)
    PROVE  /\ s = Top => SectionAt(f, s) = 0
           /\ s # Top => SectionAt(f, s) \in 1 .. Len(f) /\ f[SectionAt(f, s)] = Header(s)
<1>1. CASE s = Top
  BY <1>1 DEF SectionAt
<1>2. CASE s # Top
  <2> DEFINE I == {i \in 1 .. Len(f) : f[i] = Header(s)}
  <2>1. SectionAt(f, s) = IF I # {} THEN Min(I) ELSE 0
    BY <1>2, Zenon DEF SectionAt, SelectInSeq
  <2>2. I # {}
    BY <1>2, <2>1 DEF HasSection
  <2>3. Min(I) \in I
    <3>1. I \in SUBSET Nat
      BY TextLines
    <3> QED BY <2>2, <3>1, MinIsLeast
  <2> QED BY <1>2, <2>1, <2>2, <2>3
<1> QED BY <1>1, <1>2

LEMMA SectionMissing ==
    ASSUME NEW f \in Texts, NEW s \in Places, ~HasSection(f, s)
    PROVE  s # Top /\ s \in Sections /\ \A i \in 1 .. Len(f) : f[i] # Header(s)
<1>1. s # Top /\ SectionAt(f, s) = 0
  BY DEF HasSection
<1> DEFINE I == {i \in 1 .. Len(f) : f[i] = Header(s)}
<1>2. SectionAt(f, s) = IF I # {} THEN Min(I) ELSE 0
  BY <1>1, Zenon DEF SectionAt, SelectInSeq
<1>3. I = {}
  <2> SUFFICES ASSUME I # {} PROVE FALSE
    OBVIOUS
  <2>1. I \in SUBSET Nat
    BY TextLines
  <2>2. Min(I) \in I
    BY <2>1, MinIsLeast
  <2> QED BY <1>1, <1>2, <2>2
<1> QED BY <1>1, <1>3 DEF Places

LEMMA StopFound ==
    ASSUME NEW f \in Texts, NEW s \in Places, HasSection(f, s), NEW k \in Keys \union {None}
    PROVE  LET n == SectionAt(f, s)
               e == EndAt(f, s, k)
           IN  /\ n \in 0 .. Len(f) /\ e \in n+1 .. Len(f)+1
               /\ \A j \in n+1 .. e-1 : ~Ends(f[j], k)
               /\ e <= Len(f) => Ends(f[e], k)
<1> DEFINE n == SectionAt(f, s)
           e == EndAt(f, s, k)
           t == SubSeq(f, n+1, Len(f))
           I == {i \in 1 .. Len(t) : Ends(t[i], k)}
           i0 == IF I # {} THEN Min(I) ELSE 0
<1>1. n \in 0 .. Len(f) /\ Len(f) \in Nat
  BY SectionFound, TextLines
<1>2. e = IF i0 = 0 THEN Len(f)+1 ELSE n + i0
  BY Zenon DEF EndAt, SelectInSeq
<1>3. Len(t) = Len(f) - n /\ \A i \in 1 .. Len(t) : t[i] = f[n+i]
  BY <1>1, SMTT(30) DEF Texts
<1> HIDE DEF n, e, t
<1>4. CASE I = {}
  <2>1. e = Len(f)+1
    BY <1>2, <1>4
  <2>2. \A j \in n+1 .. Len(f) : ~Ends(f[j], k)
    <3> SUFFICES ASSUME NEW j \in n+1 .. Len(f), Ends(f[j], k) PROVE FALSE
      OBVIOUS
    <3>1. j - n \in 1 .. Len(t) /\ t[j-n] = f[n+(j-n)] /\ n+(j-n) = j
      BY <1>1, <1>3
    <3>2. j - n \in I
      BY <3>1
    <3> QED BY <1>4, <3>2
  <2> QED BY <1>1, <2>1, <2>2 DEF n, e
<1>5. CASE I # {}
  <2>1. I \in SUBSET Nat
    BY <1>3
  <2>2. Min(I) \in I /\ \A y \in I : Min(I) <= y
    BY <1>5, <2>1, MinIsLeast
  <2>3. i0 = Min(I) /\ i0 \in 1 .. Len(t)
    BY <1>5, <2>2
  <2> HIDE DEF i0
  <2>4. e = n + i0 /\ Ends(f[e], k)
    BY <1>1, <1>2, <1>3, <2>2, <2>3
  <2>5. \A j \in n+1 .. e-1 : ~Ends(f[j], k)
    <3> SUFFICES ASSUME NEW j \in n+1 .. e-1, Ends(f[j], k) PROVE FALSE
      OBVIOUS
    <3>1. j - n \in 1 .. Len(t) /\ t[j-n] = f[n+(j-n)] /\ n+(j-n) = j /\ j - n < i0
      BY <1>1, <1>3, <2>3, <2>4
    <3>2. j - n \in I
      BY <3>1
    <3> QED BY <2>2, <2>3, <3>1, <3>2
  <2> QED BY <1>1, <1>3, <2>3, <2>4, <2>5 DEF n, e
<1> QED BY <1>4, <1>5

\* The lines that are searched belong to the section, the one that ends the
\* search too if it is an entry.
LEMMA SearchedSection ==
    ASSUME NEW f \in Texts, NEW s \in Places, HasSection(f, s), NEW k \in Keys \union {None},
           NEW j \in SectionAt(f, s)+1 .. Len(f), j <= EndAt(f, s, k),
           ~IsHeader(f, j)
    PROVE  /\ NoHeader(f, SectionAt(f, s)+1, j)
           /\ SectionOf(f, j) = s
<1> DEFINE n == SectionAt(f, s)
           e == EndAt(f, s, k)
<1>1. n \in 0 .. Len(f) /\ e \in n+1 .. Len(f)+1 /\ \A i \in n+1 .. e-1 : ~Ends(f[i], k)
  BY StopFound
<1>2. Len(f) \in Nat
  BY TextLines
<1>3. NoHeader(f, n+1, j)
  <2> SUFFICES ASSUME NEW i \in n+1 .. j, IsHeader(f, i) PROVE FALSE
    BY DEF NoHeader
  <2>1. i # j
    OBVIOUS
  <2>2. i \in n+1 .. e-1
    BY <1>1, <1>2, <2>1
  <2> QED BY <1>1, <2>2 DEF Ends, IsHeader
<1>4. CASE s = Top
  <2>1. n = 0
    BY <1>4, SectionFound
  <2>2. j \in 1 .. Len(f) /\ NoHeader(f, 1, j)
    BY <1>3, <2>1
  <2> QED BY <1>3, <1>4, <2>2, SectionIsTop
<1>5. CASE s # Top
  <2>1. n \in 1 .. Len(f) /\ f[n] = Header(s)
    BY <1>5, SectionFound
  <2>2. IsHeader(f, n) /\ f[n].name = s
    BY <2>1 DEF IsHeader, Header
  <2>3. j \in 1 .. Len(f) /\ n \in 1 .. j
    BY <1>2, <2>1
  <2> HIDE DEF n
  <2>4. SectionOf(f, j) = s
    BY <1>3, <2>2, <2>3, SectionIs
  <2> QED BY <1>3, <2>4 DEF n
<1> QED BY <1>4, <1>5

\* Where the section of a line begins.
LEMMA SectionBegins ==
    ASSUME NEW f \in Texts, Unique(f), NEW s \in Places, NEW i \in 1 .. Len(f),
           SectionOf(f, i) = s
    PROVE  /\ HasSection(f, s) /\ SectionAt(f, s) \in 0 .. i
           /\ NoHeader(f, SectionAt(f, s)+1, i)
<1>1. CASE NoHeader(f, 1, i) /\ SectionOf(f, i) = Top
  BY <1>1, SectionFound, TextLines DEF HasSection
<1>2. ASSUME NEW h \in 1 .. i, IsHeader(f, h), NoHeader(f, h+1, i),
             SectionOf(f, i) = f[h].name, f[h].name \in Sections
      PROVE  /\ HasSection(f, s) /\ SectionAt(f, s) \in 0 .. i
             /\ NoHeader(f, SectionAt(f, s)+1, i)
  <2>1. s # Top /\ h \in 1 .. Len(f) /\ f[h] = Header(s) /\ s \in Places
    BY <1>2, NamesAssumption, TextLines, LineTypes DEF IsHeader
  <2>2. HasSection(f, s)
    BY <2>1, SectionMissing
  <2>3. SectionAt(f, s) \in 1 .. Len(f) /\ f[SectionAt(f, s)] = Header(s)
    BY <2>1, <2>2, SectionFound
  <2>4. SectionAt(f, s) = h
    <3> DEFINE n == SectionAt(f, s)
    <3>1. n \in 1 .. Len(f) /\ f[n].kind = "header" /\ f[h].kind = "header" /\ f[n].name = f[h].name
      BY <2>1, <2>3 DEF Header
    <3> HIDE DEF n
    <3>2. ~(n < h) /\ ~(h < n)
      BY <2>1, <3>1 DEF Unique
    <3>3. n = h
      BY <2>1, <3>1, <3>2, TextLines
    <3> QED BY <3>3 DEF n
  <2> QED BY <1>2, <2>2, <2>4
<1> QED BY <1>1, <1>2, LastHeader

LEMMA EntryFound ==
    ASSUME NEW f \in Texts, Unique(f), NEW s \in Places, NEW k \in Keys, NEW i, Holds(f, s, k, i)
    PROVE  HasSection(f, s) /\ EndAt(f, s, k) = i
<1> DEFINE n == SectionAt(f, s)
           e == EndAt(f, s, k)
<1>1. i \in 1 .. Len(f) /\ f[i].kind = "entry" /\ f[i].name = k /\ SectionOf(f, i) = s
  BY DEF Holds
<1>2. HasSection(f, s) /\ n \in 0 .. i /\ NoHeader(f, n+1, i)
  BY <1>1, SectionBegins
<1>3. e \in n+1 .. Len(f)+1 /\ (\A j \in n+1 .. e-1 : ~Ends(f[j], k))
      /\ (e <= Len(f) => Ends(f[e], k)) /\ n \in 0 .. Len(f) /\ Len(f) \in Nat
  BY <1>2, StopFound, TextLines
<1>4. Ends(f[i], k) /\ i # n
  <2>1. i = n => s # Top
    BY <1>1, <1>2, SectionFound
  <2>2. i = n => f[i] = Header(s)
    BY <1>2, <2>1, SectionFound
  <2> QED BY <1>1, <2>2 DEF Ends, Header
<1>5. e <= i
  <2>1. i \in n+1 .. Len(f)
    BY <1>1, <1>2, <1>3, <1>4
  <2> QED BY <1>1, <1>3, <1>4, <2>1
<1>6. CASE e < i
  <2>1. e \in n+1 .. i /\ e \in 1 .. Len(f) /\ e \in n+1 .. Len(f)
    BY <1>1, <1>2, <1>3, <1>6
  <2>2. ~IsHeader(f, e) /\ Ends(f[e], k)
    BY <1>2, <1>3, <2>1 DEF NoHeader
  <2>3. f[e].kind = "entry" /\ f[e].name = k
    BY <2>2 DEF Ends, IsHeader
  <2>4. SectionOf(f, e) = s
    BY <1>2, <2>1, <2>2, <1>3, SearchedSection
  <2> HIDE DEF e
  <2> QED BY <1>1, <1>6, <2>1, <2>3, <2>4 DEF Unique
<1> QED BY <1>2, <1>5, <1>6, <1>3, <1>1

LEMMA SequenceIsThere == ASSUME NEW f \in Texts PROVE f # Missing
BY MissingAssumption DEF Texts

\* ini_gets finds the entry of a setting if there is one.
LEMMA GetFinds ==
    ASSUME NEW f \in Texts, Unique(f), NEW s \in Places, NEW k \in Keys, NEW i, Holds(f, s, k, i)
    PROVE  Get(f, s, k) = f[i].value
<1>1. HasSection(f, s) /\ EndAt(f, s, k) = i
  BY EntryFound
<1>2. IsEntry(f, i)
  BY DEF IsEntry, Holds
<1> QED BY <1>1, <1>2, SequenceIsThere DEF Get

LEMMA GetNone ==
    ASSUME NEW f \in Texts, NEW s \in Places, NEW k \in Keys, \A i : ~Holds(f, s, k, i)
    PROVE  Get(f, s, k) = None
<1> SUFFICES ASSUME HasSection(f, s), IsEntry(f, EndAt(f, s, k)) PROVE FALSE
  BY DEF Get
<1> DEFINE e == EndAt(f, s, k)
<1>1. e \in SectionAt(f, s)+1 .. Len(f)+1 /\ (e <= Len(f) => Ends(f[e], k)) /\ e \in 1 .. Len(f)
      /\ f[e].kind = "entry" /\ SectionAt(f, s) \in 0 .. Len(f)
  BY StopFound DEF IsEntry
<1>2. Len(f) \in Nat
  BY TextLines
<1>3. e \in SectionAt(f, s)+1 .. Len(f) /\ f[e].name = k /\ ~IsHeader(f, e)
  BY <1>1, <1>2 DEF Ends, IsHeader
<1>4. SectionOf(f, e) = s
  <2>1. e <= EndAt(f, s, k)
    BY <1>1, <1>2
  <2> QED BY <1>3, <2>1, SearchedSection
<1> QED BY <1>1, <1>3, <1>4 DEF Holds

-----------------------------------------------------------------------------
\* The lines up to a, then m, then the lines from b on: every file that the
\* copying leaves is of this form.
Splice(f, a, m, b) == SubSeq(f, 1, a) \o m \o SubSeq(f, b, Len(f))
Kept(f, a, b) == (1 .. a) \union (b .. Len(f))
Moved(a, m, b, i) == IF i <= a THEN i ELSE i + a + Len(m) - b + 1

\* The lines behind the splice keep their section: no header was added or taken
\* away before them, or they begin with a header.
Neutral(f, a, m, b) ==
    \/ NoHeader(m, 1, Len(m)) /\ NoHeader(f, a+1, b-1)
    \/ b = Len(f)+1
    \/ IsHeader(f, b)

LEMMA SpliceLines ==
    ASSUME NEW f \in Texts, NEW m \in Texts, NEW a \in 0 .. Len(f), NEW b \in a+1 .. Len(f)+1
    PROVE  LET g == Splice(f, a, m, b)
           IN  /\ g \in Texts /\ Len(g) = a + Len(m) + Len(f) - b + 1
               /\ \A i \in 1 .. a : g[i] = f[i]
               /\ \A q \in 1 .. Len(m) : g[a+q] = m[q]
               /\ \A i \in b .. Len(f) : g[i + a + Len(m) - b + 1] = f[i]
<1> DEFINE p == SubSeq(f, 1, a)
           t == SubSeq(f, b, Len(f))
           pm == p \o m
<1>1. Len(f) \in Nat /\ Len(m) \in Nat
  BY TextLines
<1>2. p \in Texts /\ Len(p) = a /\ \A i \in 1 .. a : p[i] = f[i]
  BY <1>1 DEF Texts
<1>3. t \in Texts /\ Len(t) = Len(f) - b + 1 /\ \A i \in 1 .. Len(t) : t[i] = f[i+b-1]
  BY <1>1 DEF Texts
<1>4. Splice(f, a, m, b) = pm \o t
  BY DEF Splice
<1> HIDE DEF p, t
<1>5. /\ pm \in Texts /\ Len(pm) = a + Len(m)
      /\ \A i \in 1 .. a : pm[i] = f[i]
      /\ \A q \in 1 .. Len(m) : pm[a+q] = m[q]
  <2>1. /\ pm \in Seq(Lines) /\ Len(pm) = Len(p) + Len(m)
        /\ \A i \in 1 .. Len(p) + Len(m) : pm[i] = IF i <= Len(p) THEN p[i] ELSE m[i - Len(p)]
    BY <1>2, ConcatProperties DEF Texts
  <2> HIDE DEF pm
  <2>2. \A q \in 1 .. Len(m) : pm[a+q] = m[q]
    <3> SUFFICES ASSUME NEW q \in 1 .. Len(m) PROVE pm[a+q] = m[q]
      OBVIOUS
    <3>1. a+q \in 1 .. Len(p) + Len(m) /\ ~(a+q <= Len(p)) /\ a+q - Len(p) = q
      BY <1>1, <1>2
    <3> QED BY <2>1, <3>1
  <2>3. \A i \in 1 .. a : pm[i] = f[i]
    <3>1. \A i \in 1 .. a : i \in 1 .. Len(p) + Len(m) /\ i <= Len(p)
      BY <1>1, <1>2
    <3> QED BY <1>2, <2>1, <3>1
  <2> QED BY <1>2, <2>1, <2>2, <2>3 DEF Texts
<1> HIDE DEF pm
<1>6. /\ pm \o t \in Texts /\ Len(pm \o t) = a + Len(m) + Len(f) - b + 1
      /\ \A i \in 1 .. a + Len(m) : (pm \o t)[i] = pm[i]
      /\ \A i \in 1 .. Len(t) : (pm \o t)[a + Len(m) + i] = t[i]
  <2> DEFINE g == pm \o t
  <2>1. /\ g \in Seq(Lines) /\ Len(g) = Len(pm) + Len(t)
        /\ \A i \in 1 .. Len(pm) + Len(t) : g[i] = IF i <= Len(pm) THEN pm[i] ELSE t[i - Len(pm)]
    <3>1. pm \in Seq(Lines) /\ t \in Seq(Lines)
      BY <1>3, <1>5 DEF Texts
    <3> QED BY <3>1, ConcatProperties
  <2> HIDE DEF g
  <2>2. Len(pm) \in Nat /\ Len(t) \in Nat /\ Len(g) = a + Len(m) + Len(f) - b + 1
    BY <1>1, <1>3, <1>5, <2>1
  <2>3. \A i \in 1 .. Len(t) : g[a + Len(m) + i] = t[i]
    <3> SUFFICES ASSUME NEW i \in 1 .. Len(t) PROVE g[Len(pm) + i] = t[i]
      BY <1>5
    <3>1. Len(pm)+i \in 1 .. Len(pm) + Len(t) /\ ~(Len(pm)+i <= Len(pm)) /\ Len(pm)+i - Len(pm) = i
      BY <2>2
    <3> QED BY <2>1, <3>1
  <2>4. \A i \in 1 .. Len(pm) : g[i] = pm[i]
    <3>1. \A i \in 1 .. Len(pm) : i \in 1 .. Len(pm) + Len(t) /\ i <= Len(pm)
      BY <2>2
    <3> QED BY <2>1, <3>1
  <2> QED BY <1>5, <2>1, <2>2, <2>3, <2>4 DEF Texts, g
<1>7. \A i \in b .. Len(f) : (pm \o t)[i + a + Len(m) - b + 1] = f[i]
  <2> SUFFICES ASSUME NEW i \in b .. Len(f)
               PROVE  (pm \o t)[i + a + Len(m) - b + 1] = f[i]
    OBVIOUS
  <2>1. i-b+1 \in 1 .. Len(t) /\ (i-b+1) + b - 1 = i
        /\ a + Len(m) + (i-b+1) = i + a + Len(m) - b + 1
    BY <1>1, <1>3
  <2>2. t[i-b+1] = f[i]
    BY <1>3, <2>1
  <2>3. (pm \o t)[a + Len(m) + (i-b+1)] = t[i-b+1]
    BY <1>6, <2>1
  <2> QED BY <2>1, <2>2, <2>3
<1>8. \A i \in 1 .. a : (pm \o t)[i] = f[i]
  BY <1>1, <1>5, <1>6
<1>9. \A q \in 1 .. Len(m) : (pm \o t)[a+q] = m[q]
  <2>1. \A q \in 1 .. Len(m) : a+q \in 1 .. a + Len(m)
    BY <1>1
  <2> QED BY <1>5, <1>6, <2>1
<1> QED BY <1>4, <1>6, <1>7, <1>8, <1>9

\* Lines before the splice keep their section.
LEMMA PrefixSection ==
    ASSUME NEW f \in Texts, NEW g \in Texts, NEW i \in 1 .. Len(f), i \in 1 .. Len(g),
           \A j \in 1 .. i : g[j] = f[j]
    PROVE  SectionOf(g, i) = SectionOf(f, i)
<1>1. CASE NoHeader(f, 1, i) /\ SectionOf(f, i) = Top
  <2>1. NoHeader(g, 1, i)
    BY <1>1 DEF NoHeader, IsHeader
  <2> QED BY <1>1, <2>1, SectionIsTop
<1>2. ASSUME NEW h \in 1 .. i, IsHeader(f, h), NoHeader(f, h+1, i), SectionOf(f, i) = f[h].name
      PROVE  SectionOf(g, i) = SectionOf(f, i)
  <2>1. IsHeader(g, h) /\ g[h].name = f[h].name
    BY <1>2 DEF IsHeader
  <2>2. NoHeader(g, h+1, i)
    <3>1. \A j \in h+1 .. i : j \in 1 .. i
      BY <1>2, TextLines
    <3> QED BY <1>2, <3>1 DEF NoHeader, IsHeader
  <2> QED BY <1>2, <2>1, <2>2, SectionIs
<1> QED BY <1>1, <1>2, LastHeader

\* So do the lines behind a neutral one.
LEMMA SuffixSection ==
    ASSUME NEW f \in Texts, NEW m \in Texts, NEW a \in 0 .. Len(f), NEW b \in a+1 .. Len(f)+1,
           Neutral(f, a, m, b), NEW i \in b .. Len(f)
    PROVE  SectionOf(Splice(f, a, m, b), i + a + Len(m) - b + 1) = SectionOf(f, i)
<1> DEFINE g == Splice(f, a, m, b)
           d == a + Len(m) - b + 1
<1>1. /\ g \in Texts /\ Len(g) = a + Len(m) + Len(f) - b + 1
      /\ \A j \in 1 .. a : g[j] = f[j]
      /\ \A q \in 1 .. Len(m) : g[a+q] = m[q]
      /\ \A j \in b .. Len(f) : g[j + a + Len(m) - b + 1] = f[j]
  BY SpliceLines
<1>2. Len(f) \in Nat /\ Len(m) \in Nat /\ d \in Int /\ i \in 1 .. Len(f) /\ i + d \in 1 .. Len(g)
      /\ i + a + Len(m) - b + 1 = i + d /\ a + Len(m) < i + d
  BY <1>1, TextLines
<1> HIDE DEF g
<1>3. \A j \in a+Len(m)+1 .. i+d : j - d \in b .. i /\ g[j] = f[j-d]
  <2> SUFFICES ASSUME NEW j \in a+Len(m)+1 .. i+d
               PROVE  j - d \in b .. i /\ g[j] = f[j-d]
    OBVIOUS
  <2>1. j - d \in b .. Len(f) /\ (j-d) + a + Len(m) - b + 1 = j /\ j - d \in b .. i
    BY <1>2
  <2> QED BY <1>1, <2>1
<1>4. \A j \in a+1 .. a+Len(m) : j - a \in 1 .. Len(m) /\ g[j] = m[j-a]
  <2> SUFFICES ASSUME NEW j \in a+1 .. a+Len(m)
               PROVE  j - a \in 1 .. Len(m) /\ g[j] = m[j-a]
    OBVIOUS
  <2>1. j - a \in 1 .. Len(m) /\ a + (j-a) = j
    BY <1>2
  <2> QED BY <1>1, <2>1
<1>5. \A j \in b .. Len(f) : g[j+d] = f[j]
  <2>1. \A j \in b .. Len(f) : j + a + Len(m) - b + 1 = j + d
    BY <1>2
  <2> QED BY <1>1, <2>1
<1> HIDE DEF d
<1>6. CASE NoHeader(f, 1, i) /\ SectionOf(f, i) = Top
  <2>1. NoHeader(m, 1, Len(m))
    <3>1. ~IsHeader(f, b) /\ b # Len(f)+1
      BY <1>2, <1>6 DEF NoHeader
    <3> QED BY <3>1 DEF Neutral
  <2>2. NoHeader(g, 1, i+d)
    <3> SUFFICES ASSUME NEW j \in 1 .. i+d, IsHeader(g, j) PROVE FALSE
      BY DEF NoHeader
    <3>1. CASE j \in 1 .. a
      <4>1. j \in 1 .. i /\ g[j] = f[j]
        BY <1>1, <1>2, <3>1
      <4> QED BY <1>6, <4>1 DEF NoHeader, IsHeader
    <3>2. CASE j \in a+1 .. a+Len(m)
      BY <1>4, <2>1, <3>2 DEF NoHeader, IsHeader
    <3>3. CASE j \in a+Len(m)+1 .. i+d
      <4>1. j - d \in 1 .. i /\ g[j] = f[j-d]
        BY <1>2, <1>3, <3>3, SMTT(30)
      <4> QED BY <1>6, <4>1 DEF NoHeader, IsHeader
    <3> QED BY <1>2, <3>1, <3>2, <3>3
  <2> QED BY <1>1, <1>2, <1>6, <2>2, SectionIsTop DEF g
<1>7. ASSUME NEW h \in 1 .. i, IsHeader(f, h), NoHeader(f, h+1, i), SectionOf(f, i) = f[h].name
      PROVE  SectionOf(g, i+d) = SectionOf(f, i)
  <2>1. CASE h >= b
    <3>1. h \in b .. Len(f) /\ g[h+d] = f[h] /\ h+d \in 1 .. i+d
      <4>1. h \in b .. Len(f)
        BY <1>2, <1>7, <2>1
      <4>2. h + d >= 1
        BY <1>2, <4>1 DEF d
      <4> QED BY <1>2, <1>5, <1>7, <4>1, <4>2
    <3>2. NoHeader(g, h+d+1, i+d)
      <4> SUFFICES ASSUME NEW j \in h+d+1 .. i+d, IsHeader(g, j) PROVE FALSE
        BY DEF NoHeader
      <4>1. j \in a+Len(m)+1 .. i+d /\ j - d \in h+1 .. i
        BY <1>2, <1>7, <2>1 DEF d
      <4> QED BY <1>3, <1>7, <4>1 DEF NoHeader, IsHeader
    <3>3. IsHeader(g, h+d) /\ (h+d)+1 = h+d+1
      BY <1>7, <3>1 DEF IsHeader
    <3>4. SectionOf(g, i+d) = g[h+d].name
      BY <1>1, <1>2, <3>1, <3>2, <3>3, SectionIs
    <3> QED BY <1>7, <3>1, <3>4
  <2>2. CASE h < b
    <3>1. NoHeader(m, 1, Len(m)) /\ NoHeader(f, a+1, b-1)
      <4>1. b \in h+1 .. i
        BY <1>2, <1>7, <2>2
      <4>2. ~IsHeader(f, b) /\ b # Len(f)+1
        BY <1>2, <1>7, <4>1 DEF NoHeader
      <4> QED BY <4>2 DEF Neutral
    <3>2. h \in 1 .. a
      <4>1. h \notin a+1 .. b-1
        BY <1>7, <3>1 DEF NoHeader
      <4> QED BY <1>2, <1>7, <2>2, <4>1
    <3>3. g[h] = f[h] /\ h \in 1 .. i+d
      BY <1>1, <1>2, <3>2
    <3>4. NoHeader(g, h+1, i+d)
      <4> SUFFICES ASSUME NEW j \in h+1 .. i+d, IsHeader(g, j) PROVE FALSE
        BY DEF NoHeader
      <4>1. CASE j \in 1 .. a
        <5>1. j \in h+1 .. i
          BY <1>2, <3>2, <4>1
        <5> QED BY <1>1, <1>7, <4>1, <5>1 DEF NoHeader, IsHeader
      <4>2. CASE j \in a+1 .. a+Len(m)
        BY <1>4, <3>1, <4>2 DEF NoHeader, IsHeader
      <4>3. CASE j \in a+Len(m)+1 .. i+d
        <5>1. j - d \in h+1 .. i /\ g[j] = f[j-d]
          BY <1>2, <1>3, <2>2, <3>2, <4>3
        <5> QED BY <1>7, <5>1 DEF NoHeader, IsHeader
      <4> QED BY <1>2, <3>2, <4>1, <4>2, <4>3
    <3>5. IsHeader(g, h)
      BY <1>7, <3>3 DEF IsHeader
    <3>6. SectionOf(g, i+d) = g[h].name
      BY <1>1, <1>2, <3>3, <3>4, <3>5, SectionIs
    <3> QED BY <1>7, <3>3, <3>6
  <2> QED BY <1>2, <1>7, <2>1, <2>2
<1> QED BY <1>2, <1>6, <1>7, LastHeader DEF g

\* Each line of the result is a line that was kept, in its order and its
\* section, or one of m.
LEMMA SplicePlaces ==
    ASSUME NEW f \in Texts, NEW m \in Texts, NEW a \in 0 .. Len(f), NEW b \in a+1 .. Len(f)+1,
           Neutral(f, a, m, b), NEW g, g = Splice(f, a, m, b)
    PROVE  /\ g \in Texts
           /\ \A i \in Kept(f, a, b) :
                 /\ Moved(a, m, b, i) \in 1 .. Len(g)
                 /\ g[Moved(a, m, b, i)] = f[i]
                 /\ SectionOf(g, Moved(a, m, b, i)) = SectionOf(f, i)
           /\ \A q \in 1 .. Len(m) : a+q \in 1 .. Len(g) /\ g[a+q] = m[q]
           /\ \A j \in 1 .. Len(g) :
                 \/ \E i \in Kept(f, a, b) : j = Moved(a, m, b, i)
                 \/ \E q \in 1 .. Len(m) : j = a+q
           /\ \A i, k \in Kept(f, a, b) :
                 Moved(a, m, b, i) < Moved(a, m, b, k) => i < k
<1>1. /\ g \in Texts /\ Len(g) = a + Len(m) + Len(f) - b + 1
      /\ \A i \in 1 .. a : g[i] = f[i]
      /\ \A q \in 1 .. Len(m) : g[a+q] = m[q]
      /\ \A i \in b .. Len(f) : g[i + a + Len(m) - b + 1] = f[i]
  BY SpliceLines
<1>2. Len(f) \in Nat /\ Len(m) \in Nat
  BY TextLines
<1>3. ASSUME NEW i \in Kept(f, a, b)
      PROVE  /\ Moved(a, m, b, i) \in 1 .. Len(g)
             /\ g[Moved(a, m, b, i)] = f[i]
             /\ SectionOf(g, Moved(a, m, b, i)) = SectionOf(f, i)
  <2>1. CASE i \in 1 .. a
    <3>1. Moved(a, m, b, i) = i
      BY <2>1 DEF Moved
    <3>2. i \in 1 .. Len(f) /\ i \in 1 .. Len(g) /\ \A j \in 1 .. i : j \in 1 .. a
      BY <1>1, <1>2, <2>1
    <3>3. SectionOf(g, i) = SectionOf(f, i)
      BY <1>1, <3>2, PrefixSection
    <3> QED BY <1>1, <2>1, <3>1, <3>2, <3>3
  <2>2. CASE i \in b .. Len(f)
    <3>1. Moved(a, m, b, i) = i + a + Len(m) - b + 1
      BY <2>2 DEF Moved
    <3>2. i + a + Len(m) - b + 1 \in 1 .. Len(g)
      BY <1>1, <1>2, <2>2
    <3>3. SectionOf(g, i + a + Len(m) - b + 1) = SectionOf(f, i)
      BY <2>2, SuffixSection
    <3> QED BY <1>1, <2>2, <3>1, <3>2, <3>3
  <2> QED BY <2>1, <2>2 DEF Kept
<1>4. \A q \in 1 .. Len(m) : a+q \in 1 .. Len(g) /\ g[a+q] = m[q]
  BY <1>1, <1>2
<1>5. ASSUME NEW j \in 1 .. Len(g)
      PROVE  \/ \E i \in Kept(f, a, b) : j = Moved(a, m, b, i)
             \/ \E q \in 1 .. Len(m) : j = a+q
  <2>1. CASE j \in 1 .. a
    BY <2>1 DEF Kept, Moved
  <2>2. CASE j \in a+1 .. a+Len(m)
    <3>1. j-a \in 1 .. Len(m) /\ j = a+(j-a)
      BY <1>2, <2>2
    <3> QED BY <3>1
  <2>3. CASE j \in a+Len(m)+1 .. Len(g)
    <3> DEFINE i == j - (a + Len(m) - b + 1)
    <3>1. i \in b .. Len(f) /\ ~(i <= a) /\ j = i + a + Len(m) - b + 1
      BY <1>1, <1>2, <2>3
    <3> HIDE DEF i
    <3>2. i \in Kept(f, a, b) /\ j = Moved(a, m, b, i)
      BY <3>1 DEF Kept, Moved
    <3> QED BY <3>2
  <2> QED BY <1>1, <1>2, <2>1, <2>2, <2>3
<1>6. ASSUME NEW i \in Kept(f, a, b), NEW k \in Kept(f, a, b),
             Moved(a, m, b, i) < Moved(a, m, b, k)
      PROVE  i < k
  BY <1>2, <1>6 DEF Kept, Moved
<1> QED BY <1>1, <1>3, <1>4, <1>5, <1>6

\* The lines of m are a header, an entry or both, and of none of them is there
\* another among the lines that are kept.
Fresh(f, a, m, b) ==
    /\ \A q \in 1 .. Len(m) : m[q].kind # "comment"
    /\ \A q, r \in 1 .. Len(m) : q # r => m[q].kind # m[r].kind
    /\ \A q \in 1 .. Len(m), i \in Kept(f, a, b) :
          f[i].kind = m[q].kind /\ f[i].name = m[q].name =>
              m[q].kind = "entry" /\ SectionOf(f, i) # SectionOf(Splice(f, a, m, b), a+q)

LEMMA SpliceUnique ==
    ASSUME NEW f \in Texts, NEW m \in Texts, NEW a \in 0 .. Len(f), NEW b \in a+1 .. Len(f)+1,
           Neutral(f, a, m, b), Fresh(f, a, m, b), Unique(f)
    PROVE  Unique(Splice(f, a, m, b))
<1> DEFINE g == Splice(f, a, m, b)
           mv(i) == Moved(a, m, b, i)
           K == Kept(f, a, b)
<1>1. /\ \A i \in K : mv(i) \in 1 .. Len(g) /\ g[mv(i)] = f[i] /\ SectionOf(g, mv(i)) = SectionOf(f, i)
      /\ \A q \in 1 .. Len(m) : a+q \in 1 .. Len(g) /\ g[a+q] = m[q]
      /\ \A j \in 1 .. Len(g) :
            (\E i \in K : j = mv(i)) \/ (\E q \in 1 .. Len(m) : j = a+q)
      /\ \A i, k \in K : mv(i) < mv(k) => i < k
  BY SplicePlaces
<1>2. K \subseteq 1 .. Len(f)
  BY TextLines DEF Kept
<1>3. /\ \A q \in 1 .. Len(m) : m[q].kind # "comment"
      /\ \A q, r \in 1 .. Len(m) : q # r => m[q].kind # m[r].kind
      /\ \A q \in 1 .. Len(m), i \in K :
            f[i].kind = m[q].kind /\ f[i].name = m[q].name =>
                m[q].kind = "entry" /\ SectionOf(f, i) # SectionOf(g, a+q)
  BY DEF Fresh
<1> SUFFICES ASSUME NEW i \in 1 .. Len(g), NEW j \in 1 .. Len(g), i < j,
                    g[i].kind = g[j].kind, g[i].name = g[j].name
             PROVE  \/ g[i].kind = "comment"
                    \/ g[i].kind = "entry" /\ SectionOf(g, i) # SectionOf(g, j)
  BY DEF Unique
<1> HIDE DEF g, mv, K
<1>4. CASE \E x, y \in K : i = mv(x) /\ j = mv(y)
  <2>1. PICK x \in K, y \in K : i = mv(x) /\ j = mv(y)
    BY <1>4
  <2>2. x < y /\ f[x].kind = f[y].kind /\ f[x].name = f[y].name
        /\ x \in 1 .. Len(f) /\ y \in 1 .. Len(f)
    BY <1>1, <1>2, <2>1
  <2>3. f[x].kind = "comment" \/ (f[x].kind = "entry" /\ SectionOf(f, x) # SectionOf(f, y))
    BY <2>2 DEF Unique
  <2> QED BY <1>1, <2>1, <2>3
<1>5. CASE \E x \in K, q \in 1 .. Len(m) :
                (i = mv(x) /\ j = a+q) \/ (i = a+q /\ j = mv(x))
  <2>1. PICK x \in K, q \in 1 .. Len(m) :
                (i = mv(x) /\ j = a+q) \/ (i = a+q /\ j = mv(x))
    BY <1>5
  <2>2. f[x].kind = m[q].kind /\ f[x].name = m[q].name
    BY <1>1, <2>1
  <2>3. m[q].kind = "entry" /\ SectionOf(f, x) # SectionOf(g, a+q)
    BY <1>3, <2>2
  <2>4. g[mv(x)].kind = "entry" /\ g[a+q].kind = "entry" /\ SectionOf(g, mv(x)) # SectionOf(g, a+q)
    BY <1>1, <2>2, <2>3
  <2> QED BY <2>1, <2>4
<1>6. CASE \E q, r \in 1 .. Len(m) : i = a+q /\ j = a+r
  <2>1. PICK q \in 1 .. Len(m), r \in 1 .. Len(m) : i = a+q /\ j = a+r
    BY <1>6
  <2>2. q # r /\ m[q].kind = m[r].kind
    BY <1>1, <2>1, SMTT(30)
  <2> QED BY <1>3, <2>2
<1> QED
  <2>1. (\E x \in K : i = mv(x)) \/ (\E q \in 1 .. Len(m) : i = a+q)
    BY <1>1
  <2>2. (\E y \in K : j = mv(y)) \/ (\E r \in 1 .. Len(m) : j = a+r)
    BY <1>1
  <2> QED BY <1>4, <1>5, <1>6, <2>1, <2>2

-----------------------------------------------------------------------------
\* How many members of a set are not above one of them: its place in Listed.
Below(S, i) == {j \in S : j <= i}
Rank(S, i) == Cardinality(Below(S, i))

LEMMA RankGrows ==
    ASSUME NEW n \in Nat, NEW S \in SUBSET (1 .. n)
    PROVE  /\ IsFiniteSet(S) /\ Cardinality(S) \in Nat /\ \A i \in S : i \in Nat
           /\ \A i \in S : Rank(S, i) \in 1 .. Cardinality(S)
           /\ \A i, k \in S : i < k => Rank(S, i) < Rank(S, k)
<1>0. \A i \in S : i \in Nat
  OBVIOUS
<1>1. IsFiniteSet(S) /\ Cardinality(S) \in Nat
  <2>1. IsFiniteSet(1 .. n)
    BY FS_Interval
  <2> QED BY <2>1, FS_Subset, FS_CardinalityType
<1>2. \A i : /\ Below(S, i) \in SUBSET S /\ IsFiniteSet(Below(S, i))
             /\ Rank(S, i) \in Nat /\ Rank(S, i) <= Cardinality(S)
  <2> SUFFICES ASSUME NEW i
               PROVE  /\ Below(S, i) \in SUBSET S /\ IsFiniteSet(Below(S, i))
                      /\ Rank(S, i) \in Nat /\ Rank(S, i) <= Cardinality(S)
    OBVIOUS
  <2>1. Below(S, i) \in SUBSET S
    BY DEF Below
  <2>2. IsFiniteSet(Below(S, i)) /\ Cardinality(Below(S, i)) <= Cardinality(S)
    BY <1>1, <2>1, FS_Subset
  <2> QED BY <2>1, <2>2, FS_CardinalityType DEF Rank
<1>3. ASSUME NEW i \in S
      PROVE  Rank(S, i) \in 1 .. Cardinality(S)
  <2>1. Below(S, i) # {}
    BY DEF Below
  <2>2. Rank(S, i) # 0
    BY <1>2, <2>1, FS_EmptySet DEF Rank
  <2> QED BY <1>1, <1>2, <2>2
<1>4. ASSUME NEW i \in S, NEW k \in S, i < k
      PROVE  Rank(S, i) < Rank(S, k)
  <2>0. i \in Nat /\ k \in Nat
    BY <1>0
  <2>1. Below(S, i) \in SUBSET Below(S, k)
    <3>1. \A j \in S : j <= i => j <= k
      BY <1>0, <1>4, <2>0
    <3> QED BY <3>1 DEF Below
  <2>2. k \in Below(S, k) /\ k \notin Below(S, i)
    BY <1>4, <2>0 DEF Below
  <2>3. Rank(S, i) <= Rank(S, k) /\ Rank(S, i) # Rank(S, k)
    BY <1>2, <2>1, <2>2, FS_Subset DEF Rank
  <2> QED BY <1>2, <2>3
<1> QED BY <1>0, <1>1, <1>3, <1>4

\* Every number up to the size of the set is the rank of one member.
LEMMA RankOnto ==
    ASSUME NEW n \in Nat, NEW S \in SUBSET (1 .. n), NEW r \in 1 .. Cardinality(S)
    PROVE  \E i \in S : Rank(S, i) = r
<1> DEFINE N == Cardinality(S)
           rank == [i \in S |-> Rank(S, i)]
<1>1. /\ IsFiniteSet(S) /\ N \in Nat
      /\ \A i \in S : Rank(S, i) \in 1 .. N
      /\ \A i, k \in S : i < k => Rank(S, i) < Rank(S, k)
  BY RankGrows
<1>2. rank \in Injection(S, 1 .. N)
  <2>1. rank \in [S -> 1 .. N]
    BY <1>1
  <2>2. ASSUME NEW i \in S, NEW k \in S, rank[i] = rank[k]
        PROVE  i = k
    <3>1. ~(i < k) /\ ~(k < i)
      BY <1>1, <2>2
    <3> QED BY <3>1
  <2> HIDE DEF rank
  <2> QED BY <2>1, <2>2 DEF Injection, IsInjective
<1>3. IsFiniteSet(1 .. N) /\ Cardinality(1 .. N) = N
  BY <1>1, FS_Interval
<1>4. rank \in Surjection(S, 1 .. N)
  BY <1>2, <1>3, FS_Injection
<1>5. PICK i \in S : rank[i] = r
  BY <1>4 DEF Surjection
<1> QED BY <1>5

LEMMA ListedForm ==
    ASSUME NEW f, NEW S
    PROVE  Listed(f, S) = [r \in 1 .. Cardinality(S) |-> Listed(f, S)[r]]
<1> DEFINE e(r) == f[CHOOSE i \in S : Cardinality({j \in S : j <= i}) = r]
<1>1. Listed(f, S) = [r \in 1 .. Cardinality(S) |-> e(r)]
  BY DEF Listed
<1> HIDE DEF e
<1> QED BY <1>1

\* The line that stands in place r of a list.
LEMMA ListedIs ==
    ASSUME NEW f, NEW n \in Nat, NEW S \in SUBSET (1 .. n), NEW i \in S
    PROVE  Rank(S, i) \in 1 .. Cardinality(S) /\ Listed(f, S)[Rank(S, i)] = f[i]
<1> DEFINE r == Rank(S, i)
           x == CHOOSE j \in S : Rank(S, j) = r
<1>1. /\ Cardinality(S) \in Nat /\ \A j \in S : j \in Nat
      /\ \A j \in S : Rank(S, j) \in 1 .. Cardinality(S)
      /\ \A j, k \in S : j < k => Rank(S, j) < Rank(S, k)
  BY RankGrows
<1>2. x \in S /\ Rank(S, x) = r /\ Rank(S, i) = r
  OBVIOUS
<1>3. x = i
  <2> HIDE DEF x, r
  <2>1. x < i => Rank(S, x) < Rank(S, i)
    BY <1>1, <1>2
  <2>2. i < x => Rank(S, i) < Rank(S, x)
    BY <1>1, <1>2
  <2>3. x \in Nat /\ i \in Nat /\ Rank(S, x) \in Nat
    BY <1>1, <1>2
  <2> QED BY <1>2, <2>1, <2>2, <2>3
<1>4. Listed(f, S) = [m \in 1 .. Cardinality(S) |-> f[CHOOSE j \in S : Rank(S, j) = m]]
  BY Zenon DEF Listed, Rank, Below
<1> HIDE DEF x
<1>5. r \in 1 .. Cardinality(S)
  BY <1>1
<1>6. Listed(f, S)[r] = f[x]
  BY <1>4, <1>5, Zenon DEF x
<1> QED BY <1>3, <1>5, <1>6

\* The same lines in the same order make the same list.
Carried(f, S, g, T, h) ==
    /\ S \subseteq 1 .. Len(f) /\ T \subseteq 1 .. Len(g)
    /\ h \in [S -> T] /\ (\A t \in T : \E i \in S : h[i] = t)
    /\ \A i, k \in S : i < k => h[i] < h[k]
    /\ \A i \in S : g[h[i]] = f[i]

LEMMA ListedSame ==
    ASSUME NEW f \in Texts, NEW g \in Texts, NEW S, NEW T, NEW h, Carried(f, S, g, T, h)
    PROVE  Listed(g, T) = Listed(f, S)
<1> SUFFICES ASSUME NEW n \in Nat, NEW m \in Nat,
                    S \in SUBSET (1 .. n), T \in SUBSET (1 .. m), h \in [S -> T],
                    \A t \in T : \E i \in S : h[i] = t,
                    \A i, k \in S : i < k => h[i] < h[k],
                    \A i \in S : g[h[i]] = f[i]
             PROVE  Listed(g, T) = Listed(f, S)
  BY TextLines, Zenon DEF Carried
<1>1. /\ IsFiniteSet(S) /\ IsFiniteSet(T) /\ Cardinality(S) \in Nat
      /\ \A i \in S : i \in Nat /\ h[i] \in T /\ h[i] \in Nat
  BY RankGrows
<1>0. \A i, k \in S : h[i] = h[k] => i = k
  <2> SUFFICES ASSUME NEW i \in S, NEW k \in S, h[i] = h[k] PROVE i = k
    OBVIOUS
  <2>1. i \in Nat /\ k \in Nat /\ h[i] \in Nat
    BY <1>1
  <2>2. ~(i < k) /\ ~(k < i)
    BY <2>1
  <2> QED BY <2>1, <2>2
<1>2. Cardinality(T) = Cardinality(S)
  <2>1. h \in Bijection(S, T)
    BY <1>0 DEF Bijection, Injection, Surjection, IsInjective
  <2>2. ExistsBijection(S, T)
    BY <2>1 DEF ExistsBijection
  <2> QED BY <1>1, <2>2, FS_Bijection
<1>3. ASSUME NEW i \in S
      PROVE  Rank(T, h[i]) = Rank(S, i)
  <2> DEFINE b == [j \in Below(S, i) |-> h[j]]
  <2>1. b \in [Below(S, i) -> Below(T, h[i])]
    <3> SUFFICES ASSUME NEW j \in Below(S, i) PROVE h[j] \in Below(T, h[i])
      OBVIOUS
    <3>1. j \in S /\ (j < i \/ j = i)
      BY DEF Below
    <3>2. h[j] \in T /\ h[i] \in T /\ (h[j] < h[i] \/ h[j] = h[i])
      BY <1>1, <3>1
    <3>3. h[j] <= h[i]
      BY <1>1, <3>1, <3>2
    <3> QED BY <3>2, <3>3 DEF Below
  <2>2. \A j, k \in Below(S, i) : b[j] = b[k] => j = k
    BY <1>0 DEF Below
  <2>3. ASSUME NEW t \in Below(T, h[i])
        PROVE  \E j \in Below(S, i) : b[j] = t
    <3>1. t \in T /\ t <= h[i]
      BY DEF Below
    <3>2. PICK j \in S : h[j] = t
      BY <3>1
    <3>3. ~(i < j)
      <4>1. i < j => h[i] < h[j]
        BY <3>2
      <4> QED BY <1>1, <3>1, <3>2, <4>1
    <3>4. j \in Below(S, i)
      BY <1>1, <3>3 DEF Below
    <3> QED BY <3>2, <3>4
  <2> HIDE DEF b
  <2>4. b \in Bijection(Below(S, i), Below(T, h[i]))
    BY <2>1, <2>2, <2>3 DEF Bijection, Injection, Surjection, IsInjective
  <2>5. ExistsBijection(Below(S, i), Below(T, h[i])) /\ IsFiniteSet(Below(S, i))
    <3>1. Below(S, i) \in SUBSET S
      BY DEF Below
    <3> QED BY <1>1, <2>4, <3>1, FS_Subset DEF ExistsBijection
  <2> QED BY <2>5, FS_Bijection DEF Rank
<1>4. ASSUME NEW r \in 1 .. Cardinality(S)
      PROVE  Listed(g, T)[r] = Listed(f, S)[r]
  <2>1. PICK i \in S : Rank(S, i) = r
    BY RankOnto
  <2>2. h[i] \in T /\ Rank(T, h[i]) = r /\ g[h[i]] = f[i]
    BY <1>3, <2>1
  <2>3. Listed(f, S)[r] = f[i]
    BY <2>1, ListedIs
  <2>4. Listed(g, T)[Rank(T, h[i])] = g[h[i]]
    <3> DEFINE k == h[i]
    <3>1. k \in T
      BY <2>2
    <3> HIDE DEF k
    <3>2. Listed(g, T)[Rank(T, k)] = g[k]
      BY <3>1, ListedIs
    <3> QED BY <3>2 DEF k
  <2> QED BY <2>2, <2>3, <2>4
<1>5. Listed(g, T) = [r \in 1 .. Cardinality(S) |-> Listed(g, T)[r]]
  <2>1. Listed(g, T) = [r \in 1 .. Cardinality(T) |-> Listed(g, T)[r]]
    BY ListedForm, Zenon
  <2> QED BY <1>2, <2>1
<1>6. Listed(f, S) = [r \in 1 .. Cardinality(S) |-> Listed(f, S)[r]]
  BY ListedForm, Zenon
<1> QED BY <1>2, <1>4, <1>5, <1>6, Zenon

\* A line behind the others is the last of the list.
LEMMA ListedMore ==
    ASSUME NEW g, NEW L, NEW n \in Nat, NEW T \in SUBSET (1 .. n),
           \A i \in T : g[i] \in L, NEW p \in 1 .. n, \A i \in T : i < p, g[p] \in L
    PROVE  Listed(g, T \union {p}) = Append(Listed(g, T), g[p])
<1> DEFINE U == T \union {p}
           N == Cardinality(T)
           l == Listed(g, T)
           u == Listed(g, U)
<1>1. /\ U \in SUBSET (1 .. n) /\ p \notin T /\ p \in Nat
      /\ IsFiniteSet(T) /\ N \in Nat /\ \A i \in T : i \in Nat /\ i < p
  <2>1. p \notin T /\ p \in Nat /\ U \in SUBSET (1 .. n)
    OBVIOUS
  <2> QED BY <2>1, RankGrows
<1>2. Cardinality(U) = N + 1
  BY <1>1, FS_AddElement
<1>3. ASSUME NEW i \in T
      PROVE  Rank(U, i) = Rank(T, i)
  <2>1. Below(U, i) = Below(T, i)
    <3>1. i \in Nat /\ ~(p <= i)
      BY <1>1
    <3> QED BY <3>1 DEF Below
  <2> QED BY <2>1 DEF Rank
<1>4. Rank(U, p) = N + 1
  <2>1. \A i \in U : i <= p
    BY <1>1
  <2>2. Below(U, p) = U
    BY <2>1 DEF Below
  <2> QED BY <1>2, <2>2 DEF Rank
<1>5. ASSUME NEW r \in 1 .. N
      PROVE  l[r] \in L /\ u[r] = l[r]
  <2>1. PICK i \in T : Rank(T, i) = r
    BY RankOnto
  <2>2. l[r] = g[i]
    BY <2>1, ListedIs
  <2>3. u[Rank(U, i)] = g[i]
    <3>1. i \in U
      OBVIOUS
    <3> QED BY <1>1, <3>1, ListedIs
  <2> QED BY <1>3, <2>1, <2>2, <2>3
<1>6. u[N+1] = g[p]
  <2>1. p \in U
    OBVIOUS
  <2>2. u[Rank(U, p)] = g[p]
    BY <1>1, <2>1, ListedIs
  <2> QED BY <1>4, <2>2
<1>7. l = [r \in 1 .. N |-> l[r]] /\ u = [r \in 1 .. N+1 |-> u[r]]
  <2>1. l = [r \in 1 .. N |-> l[r]]
    BY ListedForm, Zenon
  <2>2. u = [r \in 1 .. Cardinality(U) |-> u[r]]
    BY ListedForm, Zenon
  <2> QED BY <1>2, <2>1, <2>2
<1> HIDE DEF N, l, u, U
<1>8. l \in Seq(L) /\ Len(l) = N
  <2>1. l \in [1 .. N -> L]
    BY <1>5, <1>7
  <2> QED BY <1>1, <2>1
<1>9. /\ Append(l, g[p]) \in Seq(L) /\ Len(Append(l, g[p])) = N+1
      /\ \A r \in 1 .. N : Append(l, g[p])[r] = l[r]
      /\ Append(l, g[p])[N+1] = g[p]
  BY <1>1, <1>8
<1>10. u \in Seq(L) /\ Len(u) = N+1
  <2>1. \A r \in 1 .. N+1 : u[r] \in L
    BY <1>1, <1>5, <1>6
  <2>2. u \in [1 .. N+1 -> L]
    BY <1>7, <2>1
  <2> QED BY <1>1, <2>2
<1>11. \A r \in 1 .. N+1 : u[r] = Append(l, g[p])[r]
  BY <1>1, <1>5, <1>6, <1>9
<1>12. u = Append(l, g[p])
  BY <1>9, <1>10, <1>11, SeqEqual
<1> QED BY <1>12 DEF l, u, U

-----------------------------------------------------------------------------
\* What is promised of a call: no duplicates, the value of the setting it is
\* about (of all of the section's, for a section that is erased), every other
\* setting as it was, and so is every other line.
Changes(f, g, c) ==
    /\ g \in Texts /\ Unique(g)
    /\ \A s \in Places, k \in Keys :
          Get(g, s, k) = IF <<s, k>> \in Addressed(c) THEN c.val ELSE Get(f, s, k)
    /\ OthersStay(f, g, c)

\* m brings what the call asks for, behind the header of the section if f did
\* not have it; nothing is left of what the call is about, and nothing else is
\* taken away.
Brings(f, a, m, b, c) ==
    /\ c.val = None => m = << >>
    /\ c.val # None => /\ Len(m) > 0 /\ m[Len(m)] = Entry(c.key, c.val)
                       /\ SectionOf(Splice(f, a, m, b), a+Len(m)) = c.sec
                       /\ \A q \in 1 .. Len(m)-1 : m[q].kind = "header"
    /\ \A s \in Places, k \in Keys, i \in 1 .. Len(f) :
          Holds(f, s, k, i) => (<<s, k>> \in Addressed(c) <=> i \notin Kept(f, a, b))
    /\ Others(f, c) \subseteq Kept(f, a, b)
    /\ c.val # None /\ Len(m) # 1 =>
          Len(m) = 2 /\ m[1].kind = "header" /\ m[1] = Header(c.sec)
              /\ a = Len(f) /\ ~HasSection(f, c.sec)

\* The other lines of the result are those of f, moved, and a new header.
LEMMA SpliceOthers ==
    ASSUME NEW f \in Texts, NEW m \in Texts, NEW a \in 0 .. Len(f), NEW b \in a+1 .. Len(f)+1,
           Neutral(f, a, m, b), NEW c \in Calls, Brings(f, a, m, b, c)
    PROVE  Others(Splice(f, a, m, b), c) =
              {Moved(a, m, b, i) : i \in Others(f, c)} \union (IF Len(m) = 2 THEN {a+1} ELSE {})
<1> DEFINE g == Splice(f, a, m, b)
           mv(i) == Moved(a, m, b, i)
           K == Kept(f, a, b)
           Mine(l) == c.key = None \/ (l.kind = "entry" /\ l.name = c.key)
<1>1. /\ g \in Texts
      /\ \A i \in K : mv(i) \in 1 .. Len(g) /\ g[mv(i)] = f[i] /\ SectionOf(g, mv(i)) = SectionOf(f, i)
      /\ \A q \in 1 .. Len(m) : a+q \in 1 .. Len(g) /\ g[a+q] = m[q]
      /\ \A j \in 1 .. Len(g) :
            (\E i \in K : j = mv(i)) \/ (\E q \in 1 .. Len(m) : j = a+q)
  BY SplicePlaces
<1>2. K \subseteq 1 .. Len(f) /\ Len(m) \in Nat /\ a \in Nat
  BY TextLines DEF Kept
<1>3. /\ c.val = None => Len(m) = 0
      /\ c.val # None => m[Len(m)] = Entry(c.key, c.val) /\ SectionOf(g, a+Len(m)) = c.sec
      /\ Others(f, c) \subseteq K
      /\ c.val # None => Len(m) = 1 \/ (Len(m) = 2 /\ m[1].kind = "header")
  BY DEF Brings
<1>4. c.val # None => c.key # None
  BY NamesAssumption DEF Calls
<1>5. \A t, i : i \in Others(t, c) <=> i \in 1 .. Len(t) /\ ~(SectionOf(t, i) = c.sec /\ Mine(t[i]))
  BY DEF Others
<1> HIDE DEF g, mv, K
<1>6. ASSUME NEW i \in K
      PROVE  mv(i) \in Others(g, c) <=> i \in Others(f, c)
  <2>1. /\ mv(i) \in 1 .. Len(g) /\ g[mv(i)] = f[i] /\ SectionOf(g, mv(i)) = SectionOf(f, i)
        /\ i \in 1 .. Len(f)
    BY <1>1, <1>2
  <2> HIDE DEF Mine
  <2> QED BY <1>5, <2>1
<1> HIDE DEF Mine
<1>7. ASSUME NEW q \in 1 .. Len(m)
      PROVE  a+q \in Others(g, c) <=> Len(m) = 2 /\ q = 1
  <2>1. c.val # None /\ q \in Nat
    BY <1>2, <1>3
  <2>2. CASE q = Len(m)
    <3>1. SectionOf(g, a+q) = c.sec /\ Mine(g[a+q])
      BY <1>1, <1>3, <2>1, <2>2 DEF Mine, Entry
    <3>2. a+q \notin Others(g, c)
      BY <1>5, <3>1
    <3> QED BY <2>2, <3>2
  <2>3. CASE q # Len(m)
    <3>1. Len(m) = 2 /\ q = 1 /\ g[a+q].kind = "header"
      BY <1>1, <1>2, <1>3, <2>1, <2>3
    <3>2. ~Mine(g[a+q])
      BY <1>4, <2>1, <3>1 DEF Mine
    <3> QED BY <1>1, <1>5, <3>1, <3>2
  <2> QED BY <2>2, <2>3
<1>8. ASSUME NEW j \in Others(g, c)
      PROVE  j \in {mv(i) : i \in Others(f, c)} \union (IF Len(m) = 2 THEN {a+1} ELSE {})
  <2>1. j \in 1 .. Len(g)
    BY <1>5
  <2>2. CASE \E i \in K : j = mv(i)
    BY <1>6, <2>2
  <2>3. CASE \E q \in 1 .. Len(m) : j = a+q
    BY <1>7, <2>3
  <2> QED BY <1>1, <2>1, <2>2, <2>3
<1>9. \A i \in Others(f, c) : mv(i) \in Others(g, c)
  BY <1>3, <1>6
<1>10. Len(m) = 2 => a+1 \in Others(g, c)
  BY <1>7
<1> QED BY <1>8, <1>9, <1>10 DEF g, mv

LEMMA SpliceKeeps ==
    ASSUME NEW f \in Texts, NEW m \in Texts, NEW a \in 0 .. Len(f), NEW b \in a+1 .. Len(f)+1,
           Neutral(f, a, m, b), NEW c \in Calls, Brings(f, a, m, b, c)
    PROVE  OthersStay(f, Splice(f, a, m, b), c)
<1> DEFINE g == Splice(f, a, m, b)
           S == Others(f, c)
           h == [i \in S |-> Moved(a, m, b, i)]
           T == {Moved(a, m, b, i) : i \in S}
<1>1. /\ g \in Texts
      /\ \A i \in Kept(f, a, b) : Moved(a, m, b, i) \in 1 .. Len(g) /\ g[Moved(a, m, b, i)] = f[i]
      /\ \A q \in 1 .. Len(m) : a+q \in 1 .. Len(g) /\ g[a+q] = m[q]
  BY SplicePlaces
<1>2. Len(f) \in Nat /\ Len(g) \in Nat /\ Len(m) \in Nat
      /\ \A i \in 1 .. Len(g) : g[i] \in Lines
  BY <1>1, TextLines
<1>3. S \subseteq Kept(f, a, b) /\ S \in SUBSET (1 .. Len(f))
  <2>1. S \subseteq Kept(f, a, b)
    BY DEF Brings
  <2>2. S \in SUBSET (1 .. Len(f))
    BY DEF Others
  <2> QED BY <2>1, <2>2
<1>4. Others(g, c) = T \union (IF Len(m) = 2 THEN {a+1} ELSE {})
  BY SpliceOthers
<1> HIDE DEF g, S
<1>5. /\ T \in SUBSET (1 .. Len(g)) /\ h \in [S -> T]
      /\ \A t \in T : \E i \in S : h[i] = t
      /\ \A i \in S : g[h[i]] = f[i]
  BY <1>1, <1>3
<1>6. ASSUME NEW i \in S, NEW k \in S, i < k
      PROVE  h[i] < h[k]
  <2>1. i \in 1 .. Len(f) /\ k \in 1 .. Len(f) /\ i \in Kept(f, a, b) /\ k \in Kept(f, a, b)
    BY <1>3
  <2>2. Moved(a, m, b, i) < Moved(a, m, b, k)
    BY <1>2, <1>6, <2>1 DEF Moved, Kept
  <2> QED BY <2>2
<1> HIDE DEF h, T
<1>7. Listed(g, T) = Listed(f, S)
  <2>1. \A i, k \in S : i < k => h[i] < h[k]
    BY <1>6
  <2>2. Carried(f, S, g, T, h)
    BY <1>3, <1>5, <2>1 DEF Carried
  <2>3. g \in Texts
    BY <1>1
  <2> QED BY <2>2, <2>3, ListedSame
<1>8. CASE Len(m) # 2
  <2>1. Others(g, c) = T
    BY <1>4, <1>8
  <2> QED BY <1>7, <2>1 DEF OthersStay, S, g
<1>9. CASE Len(m) = 2
  <2>1. Others(g, c) = T \union {a+1}
    BY <1>4, <1>9
  <2>2. c.val # None /\ m[1] = Header(c.sec) /\ a = Len(f) /\ ~HasSection(f, c.sec)
    <3>1. c.val = None => Len(m) = 0
      BY DEF Brings
    <3> QED BY <1>9, <3>1 DEF Brings
  <2>3. a+1 \in 1 .. Len(g) /\ g[a+1] = Header(c.sec)
    BY <1>1, <1>9, <2>2
  <2>4. \A t \in T : t < a+1
    <3> SUFFICES ASSUME NEW i \in S PROVE Moved(a, m, b, i) < a+1
      BY DEF T
    <3>1. i \in 1 .. Len(f)
      BY <1>3
    <3> QED BY <1>2, <2>2, <3>1 DEF Moved
  <2>5. (\A t \in T : g[t] \in Lines) /\ g[a+1] \in Lines
    BY <1>2, <1>5, <2>3
  <2>6. Listed(g, T \union {a+1}) = Append(Listed(g, T), g[a+1])
    <3> DEFINE p == a+1
               n == Len(g)
    <3>1. /\ n \in Nat /\ T \in SUBSET (1 .. n) /\ (\A t \in T : g[t] \in Lines)
          /\ p \in 1 .. n /\ (\A t \in T : t < p) /\ g[p] \in Lines
      BY <1>2, <1>5, <2>3, <2>4, <2>5
    <3> HIDE DEF p, n
    <3>2. Listed(g, T \union {p}) = Append(Listed(g, T), g[p])
      BY <3>1, ListedMore
    <3> QED BY <3>2 DEF p
  <2> QED BY <1>7, <2>1, <2>2, <2>3, <2>6 DEF OthersStay, S, g
<1> QED BY <1>8, <1>9

LEMMA SpliceChanges ==
    ASSUME NEW f \in Texts, NEW m \in Texts, NEW a \in 0 .. Len(f), NEW b \in a+1 .. Len(f)+1,
           Neutral(f, a, m, b), Fresh(f, a, m, b), Unique(f),
           NEW c \in Calls, Brings(f, a, m, b, c)
    PROVE  Changes(f, Splice(f, a, m, b), c)
<1> DEFINE g == Splice(f, a, m, b)
           mv(i) == Moved(a, m, b, i)
           K == Kept(f, a, b)
<1>1. /\ g \in Texts
      /\ \A i \in K : mv(i) \in 1 .. Len(g) /\ g[mv(i)] = f[i] /\ SectionOf(g, mv(i)) = SectionOf(f, i)
      /\ \A q \in 1 .. Len(m) : a+q \in 1 .. Len(g) /\ g[a+q] = m[q]
      /\ \A j \in 1 .. Len(g) :
            (\E i \in K : j = mv(i)) \/ (\E q \in 1 .. Len(m) : j = a+q)
  BY SplicePlaces
<1>2. K \subseteq 1 .. Len(f) /\ Len(m) \in Nat
  BY TextLines DEF Kept
<1>3. Unique(g)
  BY SpliceUnique
<1>4. /\ c.val = None => m = << >>
      /\ c.val # None => /\ Len(m) > 0 /\ m[Len(m)] = Entry(c.key, c.val)
                         /\ SectionOf(g, a+Len(m)) = c.sec
                         /\ \A q \in 1 .. Len(m)-1 : m[q].kind = "header"
      /\ \A s \in Places, k \in Keys, i \in 1 .. Len(f) :
            Holds(f, s, k, i) => (<<s, k>> \in Addressed(c) <=> i \notin K)
  BY DEF Brings
<1>5. /\ c.sec \in Places /\ c.key \in Keys \union {None} /\ c.val \in Values \union {None}
      /\ c.val # None => c.key \in Keys
  BY NamesAssumption DEF Calls
<1> HIDE DEF g, mv, K
<1>6. ASSUME NEW s \in Places, NEW k \in Keys
      PROVE  Get(g, s, k) = IF <<s, k>> \in Addressed(c) THEN c.val ELSE Get(f, s, k)
  <2>0. <<s, k>> \in Addressed(c) <=> s = c.sec /\ c.key \in {None, k}
    BY DEF Addressed, Settings
  <2>1. ASSUME NEW j, Holds(g, s, k, j)
        PROVE  \/ \E i \in K : j = mv(i) /\ Holds(f, s, k, i)
               \/ c.val # None /\ j = a+Len(m) /\ <<s, k>> \in Addressed(c)
    <3>1. j \in 1 .. Len(g) /\ g[j].kind = "entry" /\ g[j].name = k /\ SectionOf(g, j) = s
      BY <2>1 DEF Holds
    <3>2. CASE \E i \in K : j = mv(i)
      BY <1>1, <1>2, <3>1, <3>2 DEF Holds
    <3>3. CASE \E q \in 1 .. Len(m) : j = a+q
      <4>1. PICK q \in 1 .. Len(m) : j = a+q
        BY <3>3
      <4>2. c.val # None
        BY <1>2, <1>4, <4>1
      <4>3. m[q].kind = "entry" /\ m[q].name = k
        BY <1>1, <3>1, <4>1
      <4>4. q = Len(m)
        BY <1>2, <1>4, <4>2, <4>1, <4>3
      <4>5. k = c.key /\ s = c.sec
        BY <1>4, <3>1, <4>1, <4>2, <4>3, <4>4 DEF Entry
      <4> QED BY <2>0, <4>1, <4>2, <4>4, <4>5
    <3> QED BY <1>1, <3>1, <3>2, <3>3
  <2>2. CASE <<s, k>> \in Addressed(c) /\ c.val = None
    <3>1. \A j : ~Holds(g, s, k, j)
      <4> SUFFICES ASSUME NEW j, Holds(g, s, k, j) PROVE FALSE
        OBVIOUS
      <4>1. PICK i \in K : Holds(f, s, k, i)
        BY <2>1, <2>2
      <4> QED BY <1>2, <1>4, <2>2, <4>1
    <3> QED BY <1>1, <2>2, <3>1, GetNone
  <2>3. CASE <<s, k>> \in Addressed(c) /\ c.val # None
    <3> DEFINE j == a+Len(m)
    <3>1. Len(m) \in 1 .. Len(m) /\ m[Len(m)] = Entry(c.key, c.val) /\ SectionOf(g, j) = c.sec
      BY <1>2, <1>4, <2>3
    <3>2. j \in 1 .. Len(g) /\ g[j] = Entry(c.key, c.val)
      BY <1>1, <3>1
    <3>3. s = c.sec /\ k = c.key
      BY <1>5, <2>0, <2>3, NamesAssumption
    <3>4. Holds(g, s, k, j) /\ g[j].value = c.val
      BY <3>1, <3>2, <3>3 DEF Holds, Entry
    <3> HIDE DEF j
    <3> QED BY <1>1, <1>3, <2>3, <3>4, GetFinds
  <2>4. CASE <<s, k>> \notin Addressed(c)
    <3>1. CASE \E i : Holds(f, s, k, i)
      <4>1. PICK i : Holds(f, s, k, i)
        BY <3>1
      <4>2. i \in 1 .. Len(f) /\ i \in K
        BY <1>4, <2>4, <4>1 DEF Holds
      <4>3. Holds(g, s, k, mv(i)) /\ g[mv(i)].value = f[i].value
        BY <1>1, <4>1, <4>2 DEF Holds
      <4>4. Get(f, s, k) = f[i].value
        BY <4>1, GetFinds
      <4>5. Get(g, s, k) = g[mv(i)].value
        BY <1>1, <1>3, <4>3, GetFinds
      <4> QED BY <2>4, <4>3, <4>4, <4>5
    <3>2. CASE \A i : ~Holds(f, s, k, i)
      <4>1. \A j : ~Holds(g, s, k, j)
        BY <2>1, <2>4, <3>2
      <4> QED BY <1>1, <2>4, <3>2, <4>1, GetNone
    <3> QED BY <3>1, <3>2
  <2> QED BY <2>2, <2>3, <2>4
<1>7. OthersStay(f, g, c)
  BY SpliceKeeps DEF g
<1> QED BY <1>1, <1>3, <1>6, <1>7 DEF Changes, g

-----------------------------------------------------------------------------
LEMMA CallTypes ==
    ASSUME NEW c \in Calls
    PROVE  /\ c.sec \in Places /\ c.key \in Keys \union {None} /\ c.val \in Values \union {None}
           /\ c.val # None => c.key \in Keys
           /\ \A s \in Places, k \in Keys :
                 <<s, k>> \in Addressed(c) <=> s = c.sec /\ c.key \in {None, k}
BY NamesAssumption DEF Calls, Addressed, Settings

LEMMA AddedText ==
    ASSUME NEW c \in Calls
    PROVE  /\ Added(c) \in Texts
           /\ c.val = None => Added(c) = << >>
           /\ c.val # None => Added(c) = <<Entry(c.key, c.val)>>
<1>1. c.val # None => Entry(c.key, c.val) \in Lines
  BY CallTypes DEF Lines
<1> QED BY <1>1 DEF Added, Texts

LEMMA TwoLines ==
    ASSUME NEW l \in Lines, NEW k \in Lines
    PROVE  <<l>> \o <<k>> = <<l, k>>
<1> DEFINE x == <<l>> \o <<k>>
           y == <<l, k>>
<1>1. <<l>> \in Seq(Lines) /\ <<k>> \in Seq(Lines) /\ y \in Seq(Lines)
      /\ Len(<<l>>) = 1 /\ Len(<<k>>) = 1 /\ Len(y) = 2 /\ y[1] = l /\ y[2] = k
  OBVIOUS
<1>2. /\ x \in Seq(Lines) /\ Len(x) = Len(<<l>>) + Len(<<k>>)
      /\ \A i \in 1 .. Len(<<l>>) + Len(<<k>>) :
            x[i] = IF i <= Len(<<l>>) THEN <<l>>[i] ELSE <<k>>[i - Len(<<l>>)]
  BY <1>1, ConcatProperties
<1> HIDE DEF x
<1>3. Len(x) = 2 /\ x[1] = l /\ x[2] = k
  BY <1>1, <1>2
<1> HIDE DEF y
<1>4. \A i \in 1 .. Len(x) : x[i] = y[i]
  <2>1. \A i \in 1 .. Len(x) : i = 1 \/ i = 2
    BY <1>3
  <2> QED BY <1>1, <1>3, <2>1
<1>5. x = y
  BY <1>1, <1>2, <1>3, <1>4, SeqEqual
<1> QED BY <1>5 DEF x, y

LEMMA AllOfIt ==
    ASSUME NEW f \in Texts, NEW m \in Texts
    PROVE  Splice(f, Len(f), m, Len(f)+1) = f \o m
<1>1. Len(f) \in Nat /\ SubSeq(f, 1, Len(f)) = f /\ SubSeq(f, Len(f)+1, Len(f)) = << >>
  BY TextLines DEF Texts
<1>2. f \o m \in Seq(Lines) /\ (f \o m) \o << >> = f \o m
  BY ConcatProperties, ConcatEmptySeq DEF Texts
<1> QED BY <1>1, <1>2 DEF Splice

\* The section is not there: it is added at the end (minIni.c:545-560).
LEMMA AddsSection ==
    ASSUME NEW f \in Texts, Unique(f), NEW c \in Calls, ~HasSection(f, c.sec)
    PROVE  Changes(f, Rewrite(f, c), c)
<1> DEFINE m == NewSection(c)
           a == Len(f)
           b == Len(f)+1
           g == Splice(f, a, m, b)
<1>0. /\ c.sec \in Places /\ c.sec # Top /\ c.sec \in Sections /\ a \in Nat
      /\ \A i \in 1 .. Len(f) : f[i] \in Lines /\ f[i] # Header(c.sec)
  BY CallTypes, SectionMissing, TextLines
<1>1. /\ m \in Texts
      /\ c.val = None => m = << >>
      /\ c.val # None => m = <<Header(c.sec), Entry(c.key, c.val)>>
  <2>1. Header(c.sec) \in Lines
    BY <1>0 DEF Lines
  <2>2. c.val # None => Entry(c.key, c.val) \in Lines
    BY CallTypes DEF Lines
  <2>3. CASE c.val = None
    BY <2>3, AddedText DEF NewSection
  <2>4. CASE c.val # None
    <3>1. m = <<Header(c.sec)>> \o <<Entry(c.key, c.val)>>
      BY <1>0, <2>4, AddedText DEF NewSection
    <3>2. m = <<Header(c.sec), Entry(c.key, c.val)>>
      BY <2>1, <2>2, <2>4, <3>1, TwoLines
    <3> HIDE DEF m
    <3> QED BY <2>1, <2>2, <2>4, <3>2 DEF Texts
  <2> QED BY <2>3, <2>4
<1>2. Rewrite(f, c) = g
  <2>1. Rewrite(f, c) = f \o m
    BY DEF Rewrite
  <2> QED BY <1>1, <2>1, AllOfIt
<1>3. a \in 0 .. Len(f) /\ b \in a+1 .. Len(f)+1 /\ Neutral(f, a, m, b) /\ Kept(f, a, b) = 1 .. Len(f)
  BY <1>0 DEF Neutral, Kept
<1>4. ASSUME NEW i \in 1 .. Len(f)
      PROVE  SectionOf(f, i) # c.sec
  BY <1>0, SectionBegins
<1>5. c.val # None => SectionOf(g, a+2) = c.sec
  <2> SUFFICES ASSUME c.val # None PROVE SectionOf(g, a+2) = c.sec
    OBVIOUS
  <2>1. Len(m) = 2 /\ m[1] = Header(c.sec) /\ m[2] = Entry(c.key, c.val)
    BY <1>1
  <2>2. g \in Texts /\ a+1 \in 1 .. Len(g) /\ a+2 \in 1 .. Len(g) /\ g[a+1] = m[1] /\ g[a+2] = m[2]
    <3>1. \A q \in 1 .. Len(m) : a+q \in 1 .. Len(g) /\ g[a+q] = m[q]
      BY <1>1, <1>3, SplicePlaces, SMTT(30)
    <3>2. g \in Texts
      BY <1>1, <1>3, SplicePlaces
    <3> QED BY <2>1, <3>1, <3>2
  <2> HIDE DEF g
  <2>3. IsHeader(g, a+1) /\ g[a+1].name = c.sec /\ a+1 \in 1 .. a+2
    BY <1>0, <2>1, <2>2 DEF Header, IsHeader
  <2>4. NoHeader(g, (a+1)+1, a+2)
    <3>1. \A j \in (a+1)+1 .. a+2 : j = a+2
      BY <1>0
    <3> QED BY <2>1, <2>2, <3>1 DEF Entry, IsHeader, NoHeader
  <2> QED BY <2>2, <2>3, <2>4, SectionIs
<1>6. Fresh(f, a, m, b)
  <2>1. CASE c.val = None
    BY <1>1, <2>1 DEF Fresh
  <2>2. CASE c.val # None
    <3>1. Len(m) = 2 /\ m[1].kind = "header" /\ m[1].name = c.sec /\ m[2].kind = "entry"
      BY <1>1, <2>2 DEF Header, Entry
    <3>2. \A i \in 1 .. Len(f) : ~(f[i].kind = "header" /\ f[i].name = c.sec)
      BY <1>0, LineTypes
    <3>3. \A q \in 1 .. Len(m) : q = 1 \/ q = 2
      BY <3>1
    <3> HIDE DEF m
    <3> QED BY <1>3, <1>4, <1>5, <2>2, <3>1, <3>2, <3>3 DEF Fresh
  <2> QED BY <2>1, <2>2
<1>7. Brings(f, a, m, b, c)
  <2>1. c.val # None => Len(m) = 2 /\ m[2] = Entry(c.key, c.val) /\ m[1].kind = "header"
    BY <1>1 DEF Header
  <2>2. ASSUME NEW s \in Places, NEW k \in Keys, NEW i \in 1 .. Len(f), Holds(f, s, k, i)
        PROVE  <<s, k>> \in Addressed(c) <=> i \notin Kept(f, a, b)
    BY <1>3, <1>4, <2>2, CallTypes DEF Holds
  <2>3. Others(f, c) \subseteq Kept(f, a, b)
    BY <1>3 DEF Others
  <2>4. c.val # None => m[1] = Header(c.sec) /\ a = Len(f) /\ ~HasSection(f, c.sec)
    BY <1>1
  <2>5. (c.val = None => m = << >>) /\ (c.val # None => SectionOf(Splice(f, a, m, b), a+2) = c.sec)
    BY <1>1, <1>5
  <2> HIDE DEF m, a, b
  <2>6. c.val # None => \A q \in 1 .. Len(m)-1 : m[q].kind = "header"
    <3>1. \A q \in 1 .. 2-1 : q = 1
      OBVIOUS
    <3> QED BY <2>1, <3>1
  <2>7. c.val # None => /\ Len(m) > 0 /\ m[Len(m)] = Entry(c.key, c.val)
                        /\ SectionOf(Splice(f, a, m, b), a+Len(m)) = c.sec
    <3>1. CASE c.val # None
      <4>1. Len(m) = 2 /\ Len(m) > 0
        BY <2>1, <3>1
      <4>2. m[Len(m)] = Entry(c.key, c.val)
        BY <2>1, <3>1
      <4> QED BY <2>5, <3>1, <4>1, <4>2, Zenon
    <3> QED BY <3>1
  <2> QED BY <2>1, <2>2, <2>3, <2>4, <2>5, <2>6, <2>7 DEF Brings
<1> QED BY <1>1, <1>2, <1>3, <1>6, <1>7, SpliceChanges

\* A setting is replaced, added behind the last line of its section or deleted
\* (minIni.c:587-646).
LEMMA ChangesEntry ==
    ASSUME NEW f \in Texts, Unique(f), NEW c \in Calls, HasSection(f, c.sec), c.key \in Keys
    PROVE  Changes(f, Rewrite(f, c), c)
<1> DEFINE n == SectionAt(f, c.sec)
           i == EndAt(f, c.sec, c.key)
           m == Added(c)
           a == i-1
           b == ResumeAt(f, i)
           g == Splice(f, a, m, b)
<1>0. /\ c.sec \in Places /\ c.key # None /\ Len(f) \in Nat
      /\ \A j \in 1 .. Len(f) : f[j] \in Lines
  BY CallTypes, TextLines, NamesAssumption
<1>1. /\ n \in 0 .. Len(f) /\ i \in n+1 .. Len(f)+1
      /\ \A j \in n+1 .. i-1 : ~Ends(f[j], c.key)
      /\ i <= Len(f) => Ends(f[i], c.key)
  BY <1>0, StopFound
<1>2. m \in Texts /\ (c.val = None => m = << >>) /\ (c.val # None => m = <<Entry(c.key, c.val)>>)
  BY AddedText
<1>3. Rewrite(f, c) = g
  BY <1>0 DEF Rewrite, Splice, Copied
<1>4. a \in 0 .. Len(f) /\ b \in a+1 .. Len(f)+1 /\ b \in {i, i+1} /\ (b = i+1 <=> IsEntry(f, i))
      /\ a+1 = i
  BY <1>0, <1>1 DEF ResumeAt, IsEntry
<1> HIDE DEF m, b, i
<1>5. Neutral(f, a, m, b)
  <2>1. NoHeader(m, 1, Len(m))
    BY <1>2 DEF NoHeader, IsHeader, Entry
  <2>2. NoHeader(f, a+1, b-1)
    <3> SUFFICES ASSUME NEW j \in a+1 .. b-1, IsHeader(f, j) PROVE FALSE
      BY DEF NoHeader
    <3>1. j = i /\ b = i+1
      BY <1>1, <1>4
    <3> QED BY <1>4, <3>1 DEF IsEntry, IsHeader
  <2> QED BY <2>1, <2>2 DEF Neutral
<1>6. ASSUME NEW j, Holds(f, c.sec, c.key, j)
      PROVE  j = i /\ j \notin Kept(f, a, b)
  <2>1. j = i
    BY <1>0, <1>6, EntryFound DEF i
  <2>2. IsEntry(f, i)
    BY <1>6, <2>1 DEF Holds, IsEntry
  <2> QED BY <1>0, <1>1, <1>4, <2>1, <2>2 DEF Kept
<1>7. c.val # None => SectionOf(g, i) = c.sec
  <2> SUFFICES ASSUME c.val # None PROVE SectionOf(g, i) = c.sec
    OBVIOUS
  <2>1. Len(m) = 1 /\ m[1] = Entry(c.key, c.val)
    BY <1>2
  <2>2. g \in Texts /\ (\A j \in 1 .. a : g[j] = f[j]) /\ g[a+1] = m[1] /\ Len(g) = a + 1 + Len(f) - b + 1
    <3>1. /\ g \in Texts /\ Len(g) = a + Len(m) + Len(f) - b + 1
          /\ \A j \in 1 .. a : g[j] = f[j]
          /\ \A q \in 1 .. Len(m) : g[a+q] = m[q]
      <4> HIDE DEF a
      <4>1. m \in Texts /\ a \in 0 .. Len(f) /\ b \in a+1 .. Len(f)+1
        BY <1>2, <1>4
      <4> QED BY <4>1, SpliceLines
    <3> HIDE DEF g, a
    <3> QED BY <2>1, <3>1
  <2> HIDE DEF g
  <2>3. i \in 1 .. Len(g) /\ g[i] = Entry(c.key, c.val)
    BY <1>0, <1>1, <1>4, <2>1, <2>2
  <2>4. NoHeader(g, n+1, i)
    <3> SUFFICES ASSUME NEW j \in n+1 .. i, IsHeader(g, j) PROVE FALSE
      BY DEF NoHeader
    <3>1. j # i
      BY <2>3 DEF IsHeader, Entry
    <3>2. j \in n+1 .. i-1 /\ g[j] = f[j]
      BY <1>1, <2>2, <3>1
    <3> QED BY <1>1, <3>2 DEF Ends, IsHeader
  <2>5. CASE c.sec = Top
    <3>1. n = 0
      BY <1>0, <2>5, SectionFound
    <3>2. NoHeader(g, 1, i)
      BY <2>4, <3>1
    <3> QED BY <2>2, <2>3, <2>5, <3>2, SectionIsTop
  <2>6. CASE c.sec # Top
    <3>1. n \in 1 .. Len(f) /\ f[n] = Header(c.sec)
      BY <1>0, <2>6, SectionFound
    <3>2. n \in 1 .. i /\ IsHeader(g, n) /\ g[n].name = c.sec
      BY <1>1, <2>2, <3>1 DEF IsHeader, Header
    <3> HIDE DEF n
    <3> QED BY <2>2, <2>3, <2>4, <3>2, SectionIs
  <2> QED BY <2>5, <2>6
<1>8. Fresh(f, a, m, b)
  <2>1. CASE c.val = None
    BY <1>2, <2>1 DEF Fresh
  <2>2. CASE c.val # None
    <3>1. Len(m) = 1 /\ m[1].kind = "entry" /\ m[1].name = c.key
      BY <1>2, <2>2 DEF Entry
    <3>2. \A q \in 1 .. Len(m) : q = 1
      BY <3>1
    <3>3. ASSUME NEW j \in Kept(f, a, b), f[j].kind = "entry", f[j].name = c.key
          PROVE  SectionOf(f, j) # SectionOf(g, a+1)
      <4>1. j \in 1 .. Len(f)
        BY <1>0, <1>1, <1>4 DEF Kept
      <4>2. SectionOf(f, j) # c.sec
        BY <1>6, <3>3, <4>1 DEF Holds
      <4> QED BY <1>4, <1>7, <2>2, <4>2
    <3> QED BY <3>1, <3>2, <3>3 DEF Fresh
  <2> QED BY <2>1, <2>2
<1>9. Brings(f, a, m, b, c)
  <2>0. ASSUME NEW j \in 1 .. Len(f), j \notin Kept(f, a, b)
        PROVE  Holds(f, c.sec, c.key, j)
    <3>1. j = i /\ b = i+1 /\ IsEntry(f, i)
      BY <1>0, <1>1, <1>4, <2>0 DEF Kept
    <3>2. f[i].kind = "entry" /\ f[i].name = c.key /\ ~IsHeader(f, i) /\ i \in n+1 .. Len(f)
      BY <1>0, <1>1, <3>1 DEF IsEntry, Ends, IsHeader
    <3>3. SectionOf(f, i) = c.sec
      <4>1. i <= EndAt(f, c.sec, c.key) /\ i \in SectionAt(f, c.sec)+1 .. Len(f)
        BY <1>1, <3>2 DEF i
      <4> QED BY <1>0, <3>2, <4>1, SearchedSection
    <3> QED BY <3>1, <3>2, <3>3 DEF Holds
  <2>1. ASSUME NEW s \in Places, NEW k \in Keys, NEW j \in 1 .. Len(f), Holds(f, s, k, j)
        PROVE  <<s, k>> \in Addressed(c) <=> j \notin Kept(f, a, b)
    <3>1. <<s, k>> \in Addressed(c) <=> s = c.sec /\ k = c.key
      BY <1>0, CallTypes
    <3>2. CASE s = c.sec /\ k = c.key
      BY <1>6, <2>1, <3>1, <3>2
    <3>3. j \notin Kept(f, a, b) => s = c.sec /\ k = c.key
      BY <2>0, <2>1 DEF Holds
    <3> QED BY <3>1, <3>2, <3>3
  <2>5. Others(f, c) \subseteq Kept(f, a, b)
    BY <2>0 DEF Others, Holds
  <2>2. c.val # None => Len(m) = 1 /\ m[1] = Entry(c.key, c.val)
    BY <1>2
  <2>3. c.val # None => SectionOf(g, a+Len(m)) = c.sec
    BY <1>4, <1>7, <2>2
  <2>4. c.val # None => Len(m) > 0 /\ m[Len(m)] = Entry(c.key, c.val)
                        /\ \A q \in 1 .. Len(m)-1 : m[q].kind = "header"
    <3>1. 1 .. 1-1 = {} /\ 1 > 0
      OBVIOUS
    <3> QED BY <2>2, <3>1
  <2> HIDE DEF a
  <2> QED BY <1>2, <2>1, <2>2, <2>3, <2>4, <2>5 DEF Brings
<1> HIDE DEF a
<1> QED BY <1>2, <1>3, <1>4, <1>5, <1>8, <1>9, SpliceChanges

\* A whole section is erased, its header too (minIni.c:563-583, 600).
LEMMA ErasesSection ==
    ASSUME NEW f \in Texts, Unique(f), NEW c \in Calls, HasSection(f, c.sec), c.key = None
    PROVE  Changes(f, Rewrite(f, c), c)
<1> DEFINE n == SectionAt(f, c.sec)
           i == EndAt(f, c.sec, None)
           a == IF n = 0 THEN 0 ELSE n-1
           m == << >>
           g == Splice(f, a, m, i)
<1>0. /\ c.sec \in Places /\ c.val = None /\ Len(f) \in Nat
      /\ \A j \in 1 .. Len(f) : f[j] \in Lines
  BY CallTypes, TextLines, NamesAssumption
<1>1. /\ n \in 0 .. Len(f) /\ i \in n+1 .. Len(f)+1
      /\ \A j \in n+1 .. i-1 : ~Ends(f[j], None)
      /\ i <= Len(f) => Ends(f[i], None)
  BY <1>0, StopFound
<1>2. i <= Len(f) => IsHeader(f, i)
  BY <1>0, <1>1, LineTypes, NamesAssumption DEF Ends, IsHeader
<1>3. ResumeAt(f, i) = i
  BY <1>2 DEF ResumeAt, IsEntry, IsHeader
<1>4. n # 0 => IsHeader(f, n)
  <2> SUFFICES ASSUME n # 0 PROVE IsHeader(f, n)
    OBVIOUS
  <2>1. c.sec # Top
    BY <1>0, SectionFound
  <2>2. f[n] = Header(c.sec)
    BY <1>0, <2>1, SectionFound
  <2> HIDE DEF n
  <2> QED BY <2>2 DEF IsHeader, Header
<1>5. a \in 0 .. Len(f) /\ i \in a+1 .. Len(f)+1 /\ Kept(f, a, i) = (1 .. a) \union (i .. Len(f))
  BY <1>1 DEF Kept
<1>6. Rewrite(f, c) = g
  <2>1. SubSeq(f, 1, n-1) = SubSeq(f, 1, a)
    <3>1. CASE n = 0
      <4> HIDE DEF n
      <4>1. SubSeq(f, 1, 0-1) = << >> /\ SubSeq(f, 1, 0) = << >>
        BY <1>0 DEF Texts
      <4> QED BY <3>1, <4>1
    <3>2. CASE n # 0
      BY <3>2
    <3> QED BY <3>1, <3>2
  <2> HIDE DEF a, i
  <2>2. Rewrite(f, c) = SubSeq(f, 1, n-1) \o Added(c) \o SubSeq(f, ResumeAt(f, i), Len(f))
    BY DEF Rewrite, Copied, i
  <2>3. Added(c) = m
    BY <1>0, AddedText
  <2> QED BY <1>3, <2>1, <2>2, <2>3 DEF Splice
<1> HIDE DEF i
<1>7. m \in Texts /\ Len(m) = 0 /\ Neutral(f, a, m, i) /\ Fresh(f, a, m, i)
  BY <1>1, <1>2 DEF Texts, Neutral, Fresh
<1>10. ASSUME NEW j \in 1 .. Len(f), j \notin Kept(f, a, i)
       PROVE  SectionOf(f, j) = c.sec
  <2>1. CASE j = n
    <3>1. c.sec # Top /\ f[j] = Header(c.sec)
      BY <1>0, <2>1, SectionFound
    <3>2. IsHeader(f, j) /\ f[j].name = c.sec /\ j \in 1 .. j /\ NoHeader(f, j+1, j)
      BY <1>0, <3>1 DEF IsHeader, Header, NoHeader
    <3> QED BY <3>2, SectionIs
  <2>2. CASE j # n
    <3>1. j \in n+1 .. i-1
      BY <1>0, <1>1, <1>5, <1>10, <2>2
    <3>2. ~IsHeader(f, j) /\ j \in n+1 .. Len(f) /\ j <= i
      BY <1>0, <1>1, <3>1 DEF Ends, IsHeader
    <3> QED BY <1>0, <3>2, SearchedSection DEF i
  <2> QED BY <2>1, <2>2
<1>8. ASSUME NEW s \in Places, NEW k \in Keys, NEW j \in 1 .. Len(f), Holds(f, s, k, j)
      PROVE  <<s, k>> \in Addressed(c) <=> j \notin Kept(f, a, i)
  <2>1. <<s, k>> \in Addressed(c) <=> s = c.sec
    BY <1>0, CallTypes
  <2>2. ~IsHeader(f, j) /\ j # n
    BY <1>4, <1>8 DEF Holds, IsHeader
  <2>3. ASSUME s = c.sec
        PROVE  j \notin Kept(f, a, i)
    <3>1. n \in 0 .. j /\ NoHeader(f, n+1, j)
      BY <1>0, <1>8, <2>3, SectionBegins DEF Holds
    <3>2. ~(i <= j)
      <4> SUFFICES ASSUME i <= j PROVE FALSE
        OBVIOUS
      <4>1. i <= Len(f) /\ i \in n+1 .. j
        BY <1>1, <1>0
      <4> QED BY <1>2, <3>1, <4>1 DEF NoHeader
    <3>3. a < j
      BY <1>1, <2>2, <3>1
    <3> HIDE DEF a
    <3> QED BY <1>0, <1>1, <1>5, <3>2, <3>3
  <2>4. j \notin Kept(f, a, i) => s = c.sec
    BY <1>8, <1>10 DEF Holds
  <2> QED BY <2>1, <2>3, <2>4
<1> HIDE DEF a
<1>9. Brings(f, a, m, i, c)
  <2>1. Others(f, c) \subseteq Kept(f, a, i)
    BY <1>10 DEF Others
  <2> QED BY <1>0, <1>8, <2>1 DEF Brings
<1> HIDE DEF m
<1> QED BY <1>5, <1>6, <1>7, <1>9, SpliceChanges

\* Whatever ini_puts is asked for, a complete copy has the setting changed, the
\* others as they were and nothing twice.
THEOREM RewriteChanges ==
    ASSUME NEW f \in Texts, Unique(f), NEW c \in Calls
    PROVE  Changes(f, Rewrite(f, c), c)
BY CallTypes, AddsSection, ChangesEntry, ErasesSection

\* A new file is what becomes of an empty one.
LEMMA NewFileChanges ==
    ASSUME NEW c \in Calls, c.val # None
    PROVE  Changes(<< >>, NewSection(c), c)
<1>1. << >> \in Texts /\ Unique(<< >>) /\ Len(<< >>) = 0
  BY DEF Texts, Unique
<1>2. Rewrite(<< >>, c) = NewSection(c)
  <2>0. /\ NewSection(c) \in Texts /\ Added(c) \in Texts /\ c.sec \in Places
        /\ \A t \in Texts : << >> \o t = t /\ t \o << >> = t
    <3>1. c.sec # Top => Header(c.sec) \in Lines
      BY CallTypes DEF Places, Lines
    <3>2. Added(c) \in Texts
      BY AddedText
    <3>3. c.sec # Top => <<Header(c.sec)>> \o Added(c) \in Texts
      <4> SUFFICES ASSUME c.sec # Top PROVE <<Header(c.sec)>> \o Added(c) \in Texts
        OBVIOUS
      <4>1. <<Header(c.sec)>> \in Texts
        BY <3>1 DEF Texts
      <4> QED BY <3>2, <4>1, ConcatProperties DEF Texts
    <3> QED BY <3>2, <3>3, CallTypes, ConcatEmptySeq DEF Texts, NewSection
  <2>1. CASE c.sec # Top
    <3>1. ~HasSection(<< >>, c.sec)
      <4> SUFFICES ASSUME HasSection(<< >>, c.sec) PROVE FALSE
        OBVIOUS
      <4>1. SectionAt(<< >>, c.sec) \in 1 .. Len(<< >>)
        BY <1>1, <2>0, <2>1, SectionFound
      <4> QED BY <1>1, <4>1
    <3> QED BY <2>0, <3>1 DEF Rewrite
  <2>2. CASE c.sec = Top
    <3>1. HasSection(<< >>, c.sec) /\ SectionAt(<< >>, c.sec) = 0
      BY <2>2 DEF HasSection, SectionAt
    <3>2. EndAt(<< >>, c.sec, c.key) \in 0+1 .. Len(<< >>)+1
      BY <1>1, <2>0, <3>1, StopFound, CallTypes
    <3> DEFINE i == EndAt(<< >>, c.sec, c.key)
    <3>3. i = 1
      BY <1>1, <3>2
    <3> HIDE DEF i
    <3>4. c.key # None /\ ResumeAt(<< >>, i) = 1
      BY <1>1, <3>3, CallTypes, NamesAssumption DEF ResumeAt, IsEntry
    <3>5. SubSeq(<< >>, 1, i-1) = << >> /\ SubSeq(<< >>, 1, Len(<< >>)) = << >>
      BY <1>1, <3>3 DEF Texts
    <3>6. Rewrite(<< >>, c) = SubSeq(<< >>, 1, i-1) \o Added(c)
                                 \o SubSeq(<< >>, ResumeAt(<< >>, i), Len(<< >>))
      BY <3>1, <3>4 DEF Rewrite, Copied, i
    <3>7. NewSection(c) = Added(c)
      BY <2>2 DEF NewSection
    <3> QED BY <2>0, <3>4, <3>5, <3>6, <3>7
  <2> QED BY <2>1, <2>2
<1> QED BY <1>1, <1>2, RewriteChanges

\* What a full disk leaves of a text has nothing twice either.
LEMMA WrittenText ==
    ASSUME NEW g \in Texts, Unique(g), NEW w \in Written(g)
    PROVE  w \in Texts /\ Unique(w)
<1>1. CASE w = g
  BY <1>1
<1>2. ASSUME NEW n \in 0 .. Len(g) - 1, w = SubSeq(g, 1, n)
      PROVE  w \in Texts /\ Unique(w)
  <2>1. Len(g) \in Nat
    BY TextLines
  <2>2. w \in Texts /\ Len(w) = n /\ \A i \in 1 .. n : w[i] = g[i]
    BY <1>2, <2>1 DEF Texts
  <2>3. \A i \in 1 .. n : SectionOf(w, i) = SectionOf(g, i)
    <3> SUFFICES ASSUME NEW i \in 1 .. n PROVE SectionOf(w, i) = SectionOf(g, i)
      OBVIOUS
    <3>1. i \in 1 .. Len(g) /\ i \in 1 .. Len(w) /\ \A j \in 1 .. i : w[j] = g[j]
      BY <2>1, <2>2
    <3> QED BY <2>2, <3>1, PrefixSection
  <2>4. \A i \in 1 .. n : i \in 1 .. Len(g)
    BY <2>1
  <2> QED BY <2>2, <2>3, <2>4 DEF Unique
<1> QED BY <1>1, <1>2 DEF Written

-----------------------------------------------------------------------------

\* Something before the crash window has already gone wrong.
Excused == ~(mishaps \subseteq {"window"})

\* Where the contents are while a call is on its way.  What OldOrNewSurvives
\* rests on: until the removal the file is as it was, and by then the copy is
\* complete.
Progress ==
    before # Missing /\ ~Excused =>
        /\ pc \in {"open", "create", "copy", "remove"} => file = before
        /\ pc \in {"remove", "rename"} => temp = Rewrite(before, call)
        /\ pc # "new"

SInv == Progress /\ OldOrNewSurvives

LEMMA InitSInv == Init => SInv
BY DEF Init, SInv, Progress, OldOrNewSurvives

\* No action but a call puts an earlier mishap right.
LEMMA MishapsStay ==
    ASSUME [Next]_vars, NEW m, m \in mishaps
    PROVE  m \in mishaps'
BY DEF Next, vars, Puts, OpenFails, CreateFails, Create, WriteNew, BailOut,
   TempFails, OpenTemp, Copy, RemoveFile, RemoveRefused, RenameTemp, Crash,
   OtherOpens, OtherCloses

LEMMA StepSInv == SInv /\ [Next]_vars => SInv'
<1> SUFFICES ASSUME SInv, [Next]_vars, ~Excused', before' # Missing
             PROVE  /\ pc' \in {"open", "create", "copy", "remove"} => file' = before'
                    /\ pc' \in {"remove", "rename"} => temp' = Rewrite(before', call')
                    /\ pc' # "new"
                    /\ call' # None => {before', Rewrite(before', call')} \intersect {file', temp'} # {}
  BY DEF SInv, Progress, OldOrNewSurvives, Excused
<1> USE DEF SInv, Progress, OldOrNewSurvives, Excused
<1>0. ~Excused
  BY MishapsStay
<1>1. CASE Puts
  BY <1>1 DEF Puts
<1>2. CASE OpenFails
  BY <1>0, <1>2 DEF OpenFails, Return, ReturnInVain
<1>3. CASE CreateFails
  BY <1>0, <1>3 DEF CreateFails, Return
<1>4. CASE Create
  <2>1. file # Missing
    BY <1>0, <1>4 DEF Create
  <2>2. "race" \in mishaps'
    BY <1>4, <2>1 DEF Create
  <2> QED BY <2>2
<1>5. CASE WriteNew
  BY <1>0, <1>5 DEF WriteNew
<1>6. CASE BailOut
  BY <1>0, <1>6 DEF BailOut, Return
<1>7. CASE TempFails
  BY <1>0, <1>7 DEF TempFails, Return
<1>8. CASE OpenTemp
  BY <1>0, <1>8 DEF OpenTemp
<1>9. CASE Copy
  <2>1. file = before /\ file' = file /\ before' = before /\ call' = call
    BY <1>0, <1>9 DEF Copy
  <2>2. temp' = Rewrite(file, call)
    BY <1>9 DEF Copy
  <2> QED BY <1>9, <2>1, <2>2 DEF Copy
<1>10. CASE RemoveFile
  BY <1>0, <1>10 DEF RemoveFile, MayRemove
<1>11. CASE RemoveRefused
  BY <1>0, <1>11 DEF RemoveRefused, MayRemove, ReturnInVain
<1>12. CASE RenameTemp
  BY <1>0, <1>12 DEF RenameTemp, Return
<1>13. CASE Crash
  BY <1>0, <1>13 DEF Crash
<1>14. CASE OtherOpens
  BY <1>0, <1>14 DEF OtherOpens
<1>15. CASE OtherCloses
  BY <1>0, <1>15 DEF OtherCloses
<1>16. CASE UNCHANGED vars
  BY <1>0, <1>16 DEF vars
<1> QED
  BY <1>1, <1>2, <1>3, <1>4, <1>5, <1>6, <1>7, <1>8, <1>9, <1>10, <1>11, <1>12,
     <1>13, <1>14, <1>15, <1>16 DEF Next

\* The old or the new contents are in one of the two files at every point of
\* every call of ini_puts and after a crash there, as long as no disk was full
\* and no file that existed was taken for a new one.
THEOREM Survival == Spec => []OldOrNewSurvives
<1>1. SInv => OldOrNewSurvives
  BY DEF SInv
<1> QED BY <1>1, InitSInv, StepSInv, PTL DEF Spec

-----------------------------------------------------------------------------
\* The files are made of lines and have nothing twice, the caller has what it
\* needs for the rest of its call.
FilesFit == /\ file \in Texts \union {Missing} /\ (file # Missing => Unique(file))
            /\ temp \in Texts \union {Missing} /\ (temp # Missing => Unique(temp))

CallerFits ==
    /\ pc \in {"idle", "open", "create", "new", "copy", "remove", "rename"}
    /\ ret \in {None, 0, 1} /\ doubt \subseteq Settings
    /\ pc # "idle" => call \in Calls /\ ret = None
    /\ pc \in {"create", "new"} => call.val # None
    /\ pc = "new" => file = << >>
    /\ pc \in {"copy", "remove"} => file # Missing
    /\ pc \in {"copy", "remove", "rename"} => temp # Missing
    /\ pc = "rename" => file = Missing
    /\ other # "none" => file # Missing

\* Where the promised settings are.  What SettingsKept rests on: until the
\* removal they are in the file, then in the copy, with the one of this call.
Promised ==
    mishaps = {} =>
        /\ pc # "rename" => \A p \in Settings \ doubt : Get(file, p[1], p[2]) = want[p]
        /\ pc = "remove" => temp = Rewrite(file, call)
        /\ pc = "rename" =>
              \A p \in Settings : Get(temp, p[1], p[2]) =
                  IF p \in Addressed(call) THEN call.val
                  ELSE IF p \in doubt THEN Get(temp, p[1], p[2]) ELSE want[p]

KInv == FilesFit /\ CallerFits /\ Promised

LEMMA GetMissing == \A s \in Places, k \in Keys : Get(Missing, s, k) = None
BY DEF Get

LEMMA GetEmpty == \A s \in Places, k \in Keys : Get(<< >>, s, k) = None
<1>1. << >> \in Texts /\ Len(<< >>) = 0
  BY DEF Texts
<1>2. \A s, k, i : ~Holds(<< >>, s, k, i)
  BY <1>1 DEF Holds
<1> QED BY <1>1, <1>2, GetNone

LEMMA SettingParts ==
    ASSUME NEW p \in Settings
    PROVE  p[1] \in Places /\ p[2] \in Keys /\ p = <<p[1], p[2]>>
BY DEF Settings

LEMMA InitKInv == Init => KInv
<1> SUFFICES ASSUME Init PROVE KInv
  OBVIOUS
<1>1. file = Missing \/ (file \in BoundedSeq(Lines, MaxLines) /\ Unique(file))
  BY DEF Init
<1>2. ASSUME NEW f \in BoundedSeq(Lines, MaxLines)
      PROVE  f \in Texts
  <2>1. PICK n \in 0 .. MaxLines : f \in [1 .. n -> Lines]
    BY <1>2, Zenon DEF BoundedSeq, SeqOf
  <2> QED BY <2>1, NamesAssumption DEF Texts
<1>3. \A p \in Settings : want[p] = Get(file, p[1], p[2])
  BY DEF Init, Stored
<1> QED BY <1>1, <1>2, <1>3, MissingAssumption DEF Init, KInv, FilesFit, CallerFits, Promised

\* A call that returns 1 promises its setting.
LEMMA ReturnPromises ==
    ASSUME NEW r \in {0, 1}, Return(r), doubt \subseteq Settings
    PROVE  /\ pc' = "idle" /\ ret' = r /\ doubt' \subseteq doubt
           /\ \A p \in Settings : want'[p] = IF r = 1 /\ p \in Addressed(call)
                                           THEN call.val ELSE want[p]
           /\ \A p \in Settings \ doubt' : p \in doubt => r = 1 /\ p \in Addressed(call)
BY DEF Return

LEMMA StepKInv == KInv /\ [Next]_vars => KInv'
<1> SUFFICES ASSUME KInv, [Next]_vars PROVE KInv'
  OBVIOUS
<1> USE DEF KInv, FilesFit, CallerFits, Promised
<1>0. << >> \in Texts /\ Unique(<< >>) /\ << >> # Missing
  <2>1. << >> \in Texts /\ Len(<< >>) = 0
    BY DEF Texts
  <2> QED BY <2>1, SequenceIsThere DEF Unique
<1>1. CASE Puts
  BY <1>1 DEF Puts
<1>2. CASE OpenFails
  <2>1. CASE call.val # None /\ pc' = "create" /\ UNCHANGED <<ret, want, doubt>>
    BY <1>2, <2>1 DEF OpenFails
  <2>2. CASE call.val = None /\ file = Missing /\ Return(1)
    BY <1>2, <2>2, ReturnPromises, GetMissing, SettingParts DEF OpenFails
  <2>3. CASE ReturnInVain
    BY <1>2, <2>3 DEF OpenFails, ReturnInVain, Addressed
  <2> QED BY <1>2, <2>1, <2>2, <2>3 DEF OpenFails
<1>3. CASE CreateFails
  BY <1>3, ReturnPromises DEF CreateFails
<1>4. CASE Create
  BY <1>0, <1>4, GetMissing, GetEmpty, SettingParts DEF Create
<1>5. CASE WriteNew
  <2>1. /\ pc = "new" /\ call \in Calls /\ call.val # None /\ file = << >> /\ Return(1)
        /\ file' \in Written(NewSection(call))
        /\ UNCHANGED <<temp, other, call, before, calls>>
        /\ mishaps' = {} => mishaps = {} /\ file' = NewSection(call)
    BY <1>5 DEF WriteNew
  <2>2. Changes(<< >>, NewSection(call), call)
    BY <2>1, NewFileChanges
  <2>3. file' \in Texts /\ Unique(file') /\ file' # Missing
    BY <2>1, <2>2, WrittenText, SequenceIsThere DEF Changes
  <2>4. mishaps' = {} => \A p \in Settings \ doubt' : Get(file', p[1], p[2]) = want'[p]
    BY <2>1, <2>2, ReturnPromises, SettingParts DEF Changes
  <2>5. pc' = "idle" /\ ret' \in {None, 0, 1} /\ doubt' \subseteq Settings
    BY <2>1, ReturnPromises
  <2> QED BY <2>1, <2>3, <2>4, <2>5
<1>6. CASE BailOut
  <2>1. /\ pc = "open" /\ call \in Calls /\ call.val # None /\ Return(1)
        /\ Get(file, call.sec, call.key) = call.val
        /\ UNCHANGED <<file, temp, other, call, before, mishaps, calls>>
    BY <1>6 DEF BailOut, Same
  <2>2. \A p \in Addressed(call) : p[1] = call.sec /\ p[2] = call.key
    BY <2>1, CallTypes, NamesAssumption DEF Addressed
  <2> QED BY <2>1, <2>2, ReturnPromises
<1>7. CASE TempFails
  BY <1>7, ReturnPromises DEF TempFails
<1>8. CASE OpenTemp
  BY <1>0, <1>8 DEF OpenTemp, CanOpen
<1>9. CASE Copy
  <2>1. /\ pc = "copy" /\ pc' = "remove" /\ call \in Calls /\ file \in Texts /\ Unique(file)
        /\ temp' \in Written(Rewrite(file, call))
        /\ mishaps' = {} => mishaps = {} /\ temp' = Rewrite(file, call)
        /\ UNCHANGED <<file, other, call, ret, before, want, doubt, calls>>
    BY <1>9 DEF Copy
  <2>2. Rewrite(file, call) \in Texts /\ Unique(Rewrite(file, call))
    BY <2>1, RewriteChanges DEF Changes
  <2>3. temp' \in Texts /\ Unique(temp') /\ temp' # Missing
    BY <2>1, <2>2, WrittenText, SequenceIsThere
  <2> QED BY <2>1, <2>3
<1>10. CASE RemoveFile
  <2>1. /\ pc = "remove" /\ pc' = "rename" /\ call \in Calls /\ file \in Texts /\ Unique(file)
        /\ other = "none" /\ file' = Missing
        /\ UNCHANGED <<temp, other, call, ret, before, want, doubt, mishaps, calls>>
    BY <1>10 DEF RemoveFile, MayRemove
  <2>2. Changes(file, Rewrite(file, call), call)
    BY <2>1, RewriteChanges
  <2>3. mishaps = {} =>
            \A p \in Settings : Get(temp, p[1], p[2]) =
                IF p \in Addressed(call) THEN call.val
                ELSE IF p \in doubt THEN Get(temp, p[1], p[2]) ELSE want[p]
    BY <2>1, <2>2, SettingParts DEF Changes
  <2> QED BY <2>1, <2>3
<1>11. CASE RemoveRefused
  BY <1>11 DEF RemoveRefused, MayRemove, ReturnInVain, Addressed
<1>12. CASE RenameTemp
  BY <1>12, ReturnPromises DEF RenameTemp
<1>13. CASE Crash
  <2>1. pc = "rename" => mishaps' # {}
    BY <1>13 DEF Crash
  <2> QED BY <1>13, <2>1 DEF Crash, Addressed
<1>14. CASE OtherOpens
  BY <1>14 DEF OtherOpens
<1>15. CASE OtherCloses
  BY <1>15 DEF OtherCloses
<1>16. CASE UNCHANGED vars
  BY <1>16 DEF vars
<1> QED BY <1>1, <1>2, <1>3, <1>4, <1>5, <1>6, <1>7, <1>8, <1>9, <1>10, <1>11, <1>12,
           <1>13, <1>14, <1>15, <1>16 DEF Next

LEMMA KInvAlways == Spec => []KInv
BY InitKInv, StepKInv, PTL DEF Spec

\* The files are made of lines, and the caller is where ini_puts can be.
THEOREM TypeCorrect == Spec => []TypeOK
<1>1. ASSUME NEW f \in Texts PROVE ToSet(f) \subseteq Lines
  BY DEF ToSet, Texts
<1>2. KInv => TypeOK
  BY <1>1 DEF KInv, FilesFit, CallerFits, TypeOK
<1> QED BY KInvAlways, <1>2, PTL

\* No section and no key of a section comes to stand twice in the file or in
\* the temporary one, wherever ini_puts is stopped or cut short.
THEOREM Singled == Spec => []NoDuplicatesMade
<1>1. KInv => NoDuplicatesMade
  BY DEF KInv, FilesFit, NoDuplicatesMade
<1> QED BY KInvAlways, <1>1, PTL

\* Between calls ini_gets finds each setting as the last call about it that
\* returned 1 promised, short of the mishaps that lose settings.
THEOREM PromisesKept == Spec => []SettingsKept
<1>1. KInv => SettingsKept
  BY DEF KInv, Promised, SettingsKept
<1> QED BY KInvAlways, <1>1, PTL

-----------------------------------------------------------------------------
\* What a call that returned 1 leaves.  What OnlyTheSettingChanges rests on: a
\* file that was there is as it was or its complete copy.
Settled ==
    /\ before # Missing => before \in Texts /\ Unique(before)
    /\ pc = "idle" /\ ret = 1 /\ mishaps = {} /\ Missing \notin {before, file} =>
          file = before \/ (call \in Calls /\ file = Rewrite(before, call))

LEMMA InitSettled == Init => Settled
BY InitKInv DEF Init, Settled, KInv, FilesFit

LEMMA StepSettled == KInv /\ SInv /\ Settled /\ [Next]_vars => Settled'
<1> SUFFICES ASSUME KInv, SInv, Settled, [Next]_vars PROVE Settled'
  OBVIOUS
<1>1. before' # Missing => before' \in Texts /\ Unique(before')
  <2>1. CASE Puts
    BY <2>1 DEF Puts, KInv, FilesFit
  <2>2. CASE ~Puts
    <3>1. before' = before
      BY <2>2 DEF Next, vars, OpenFails, CreateFails, Create, WriteNew, BailOut,
         TempFails, OpenTemp, Copy, RemoveFile, RemoveRefused, RenameTemp, Crash,
         OtherOpens, OtherCloses
    <3> QED BY <3>1 DEF Settled
  <2> QED BY <2>1, <2>2
<1>2. SUFFICES ASSUME pc' = "idle", ret' = 1, mishaps' = {}, Missing \notin {before', file'}
               PROVE  file' = before' \/ (call' \in Calls /\ file' = Rewrite(before', call'))
  BY <1>1 DEF Settled
<1>3. /\ mishaps = {} /\ ~Excused
      /\ before # Missing =>
           /\ pc \in {"open", "create", "copy", "remove"} => file = before
           /\ pc \in {"remove", "rename"} => temp = Rewrite(before, call)
           /\ pc # "new"
  <2>1. mishaps = {}
    BY <1>2, MishapsStay
  <2> QED BY <2>1 DEF SInv, Progress, Excused
<1>4. /\ pc \in {"idle", "open", "create", "new", "copy", "remove", "rename"}
      /\ pc # "idle" => call \in Calls
      /\ pc = "rename" => file = Missing
      /\ pc = "idle" /\ ret = 1 /\ Missing \notin {before, file} =>
            file = before \/ (call \in Calls /\ file = Rewrite(before, call))
  BY <1>3 DEF KInv, CallerFits, Settled
<1>5. CASE Puts
  BY <1>2, <1>5 DEF Puts
<1>6. CASE OpenFails \/ CreateFails \/ Create \/ WriteNew
  BY <1>2, <1>3, <1>6 DEF OpenFails, CreateFails, Create, WriteNew, Return, ReturnInVain
<1>7. CASE BailOut \/ TempFails \/ OpenTemp \/ Copy
  BY <1>2, <1>3, <1>7 DEF BailOut, TempFails, OpenTemp, Copy, Return
<1>8. CASE RemoveFile \/ RemoveRefused \/ RenameTemp
  BY <1>2, <1>3, <1>4, <1>8 DEF RemoveFile, RemoveRefused, RenameTemp, MayRemove, Return, ReturnInVain
<1>9. CASE Crash
  BY <1>2, <1>3, <1>4, <1>9 DEF Crash
<1>10. CASE OtherOpens \/ OtherCloses \/ UNCHANGED vars
  BY <1>2, <1>4, <1>10 DEF OtherOpens, OtherCloses, vars
<1> QED BY <1>5, <1>6, <1>7, <1>8, <1>9, <1>10 DEF Next

\* A call of ini_puts that returns 1 leaves every line it is not about in the
\* file, comments and the other sections' too, and in its order; what it adds
\* besides its setting is at most the header of its section at the end.
THEOREM OtherLinesKept == Spec => []OnlyTheSettingChanges
<1>1. ASSUME KInv, Settled
      PROVE  OnlyTheSettingChanges
  <2> SUFFICES ASSUME pc = "idle", ret = 1, mishaps = {}, Missing \notin {before, file}
               PROVE  OthersStay(before, file, call)
    BY DEF OnlyTheSettingChanges
  <2>1. before \in Texts /\ Unique(before) /\ (file = before \/ (call \in Calls /\ file = Rewrite(before, call)))
    BY <1>1 DEF Settled
  <2>2. CASE file = before
    BY <2>2 DEF OthersStay
  <2>3. CASE call \in Calls /\ file = Rewrite(before, call)
    BY <2>1, <2>3, RewriteChanges DEF Changes
  <2> QED BY <2>1, <2>2, <2>3
<1> QED BY InitKInv, StepKInv, InitSInv, StepSInv, InitSettled, StepSettled, <1>1, PTL DEF Spec
=============================================================================
