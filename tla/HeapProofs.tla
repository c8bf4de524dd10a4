----------------------------- MODULE HeapProofs -----------------------------
(***************************************************************************)
(* kmalloc and kfree keep the allocations apart and lose no byte, for      *)
(* every amount of memory, header size and mix of requests, beside any     *)
(* other callers of the page allocator.                                    *)
(***************************************************************************)
EXTENDS Heap, PmmProofs, SequenceTheorems, WellFoundedInduction

BlockType == [at : Nat, size : Nat, used : BOOLEAN]

-----------------------------------------------------------------------------
(* Sequences.                                                              *)

\* Blocks i to j - 1 of a list exchanged for others: what kmalloc and kfree do.
Splice(s, i, m, j) == SubSeq(s, 1, i - 1) \o m \o SubSeq(s, j, Len(s))

\* Where the elements of such a list come from.
SpliceOf(t, s, i, m, j) ==
  /\ Len(t) = i - 1 + Len(m) + (Len(s) - j + 1)
  /\ \A k \in 1 .. i - 1 : t[k] = s[k]
  /\ \A k \in 1 .. Len(m) : t[i - 1 + k] = m[k]
  /\ \A k \in j .. Len(s) : t[k - j + i + Len(m)] = s[k]

\* A splice is again a list, and that is where its elements come from.
LEMMA SpliceProperties ==
  ASSUME NEW S, NEW s \in Seq(S), NEW m \in Seq(S),
         NEW i \in 1 .. Len(s), NEW j \in i .. Len(s) + 1
  PROVE  /\ Splice(s, i, m, j) \in Seq(S)
         /\ SpliceOf(Splice(s, i, m, j), s, i, m, j)
<1> DEFINE a == SubSeq(s, 1, i - 1)
           b == SubSeq(s, j, Len(s))
<1>0. Len(s) \in Nat /\ Len(m) \in Nat
  OBVIOUS
<1>1. a \in Seq(S) /\ Len(a) = i - 1 /\ \A k \in 1 .. i - 1 : a[k] = s[k]
  <2>1. \A k \in 1 .. i - 1 : s[k] \in S
    BY <1>0, ElementOfSeq
  <2>2. /\ a \in Seq(S)
        /\ Len(a) = IF 1 <= i - 1 THEN i - 1 - 1 + 1 ELSE 0
        /\ \A k \in 1 .. i - 1 - 1 + 1 : a[k] = s[1 + k - 1]
    BY <1>0, <2>1, SubSeqProperties
  <2> QED BY <1>0, <2>2
<1>2. /\ b \in Seq(S) /\ Len(b) = Len(s) - j + 1
      /\ \A k \in j .. Len(s) : b[k - j + 1] = s[k]
  <2>1. \A k \in j .. Len(s) : s[k] \in S
    BY <1>0, ElementOfSeq
  <2>2. /\ b \in Seq(S)
        /\ Len(b) = IF j <= Len(s) THEN Len(s) - j + 1 ELSE 0
        /\ \A k \in 1 .. Len(s) - j + 1 : b[k] = s[j + k - 1]
    BY <1>0, <2>1, SubSeqProperties
  <2>3. Len(b) = Len(s) - j + 1
    BY <1>0, <2>2
  <2>4. ASSUME NEW k \in j .. Len(s)
        PROVE  b[k - j + 1] = s[k]
    <3>1. k - j + 1 \in 1 .. Len(s) - j + 1 /\ j + (k - j + 1) - 1 = k
      BY <1>0
    <3> QED BY <2>2, <3>1
  <2> QED BY <2>2, <2>3, <2>4
<1> HIDE DEF a, b
<1>3. /\ a \o m \in Seq(S) /\ Len(a \o m) = i - 1 + Len(m)
      /\ \A k \in 1 .. i - 1 + Len(m) :
           (a \o m)[k] = IF k <= i - 1 THEN a[k] ELSE m[k - (i - 1)]
  <2>1. /\ a \o m \in Seq(S) /\ Len(a \o m) = Len(a) + Len(m)
        /\ \A k \in 1 .. Len(a) + Len(m) :
             (a \o m)[k] = IF k <= Len(a) THEN a[k] ELSE m[k - Len(a)]
    BY <1>1, ConcatProperties, Zenon
  <2> QED BY <1>1, <2>1, Zenon
<1> DEFINE am == a \o m
<1> HIDE DEF am
<1>4. /\ am \o b \in Seq(S)
      /\ Len(am \o b) = i - 1 + Len(m) + (Len(s) - j + 1)
      /\ \A k \in 1 .. i - 1 + Len(m) + (Len(s) - j + 1) :
           (am \o b)[k] = IF k <= i - 1 + Len(m) THEN am[k] ELSE b[k - (i - 1 + Len(m))]
  <2>0. am \in Seq(S) /\ Len(am) = i - 1 + Len(m)
    BY <1>3, Zenon DEF am
  <2>1. /\ am \o b \in Seq(S) /\ Len(am \o b) = Len(am) + Len(b)
        /\ \A k \in 1 .. Len(am) + Len(b) :
             (am \o b)[k] = IF k <= Len(am) THEN am[k] ELSE b[k - Len(am)]
    <3>1. am \in Seq(S) /\ b \in Seq(S)
      BY <1>2, <2>0
    <3> QED BY <3>1, ConcatProperties, Zenon
  <2> QED BY <1>2, <2>0, <2>1, Zenon
<1>5. Splice(s, i, m, j) = am \o b
  BY DEF Splice, am, a, b
<1>6. ASSUME NEW k \in 1 .. i - 1 PROVE (am \o b)[k] = s[k]
  <2>1. k \in 1 .. i - 1 + Len(m) + (Len(s) - j + 1) /\ k <= i - 1 + Len(m)
    BY <1>0
  <2>2. k \in 1 .. i - 1 + Len(m) /\ k <= i - 1
    BY <1>0
  <2> QED BY <1>1, <1>3, <1>4, <2>1, <2>2 DEF am
<1>7. ASSUME NEW k \in 1 .. Len(m) PROVE (am \o b)[i - 1 + k] = m[k]
  <2> DEFINE n == i - 1 + k
  <2>1. n \in 1 .. i - 1 + Len(m) + (Len(s) - j + 1) /\ n <= i - 1 + Len(m)
    BY <1>0
  <2>2. n \in 1 .. i - 1 + Len(m) /\ ~(n <= i - 1) /\ n - (i - 1) = k
    BY <1>0
  <2> HIDE DEF n
  <2>3. (am \o b)[n] = am[n]
    BY <1>4, <2>1
  <2>4. am[n] = m[k]
    BY <1>3, <2>2 DEF am
  <2> QED BY <2>3, <2>4 DEF n
<1>8. ASSUME NEW k \in j .. Len(s) PROVE (am \o b)[k - j + i + Len(m)] = s[k]
  <2> DEFINE n == k - j + i + Len(m)
  <2>1. /\ n \in 1 .. i - 1 + Len(m) + (Len(s) - j + 1) /\ ~(n <= i - 1 + Len(m))
        /\ n - (i - 1 + Len(m)) = k - j + 1
    BY <1>0
  <2> HIDE DEF n
  <2>2. (am \o b)[n] = b[k - j + 1]
    BY <1>4, <2>1
  <2> QED BY <1>2, <2>2 DEF n
<1> QED BY <1>4, <1>5, <1>6, <1>7, <1>8 DEF SpliceOf

\* One element exchanged for two, for one, and two for one: the lists kmalloc
\* makes when it splits and when it does not, and kfree when it merges.
TwoFor(t, s, i, x, y) ==
  /\ Len(t) = Len(s) + 1
  /\ \A k \in 1 .. i - 1 : t[k] = s[k]
  /\ t[i] = x /\ t[i + 1] = y
  /\ \A k \in i + 1 .. Len(s) : t[k + 1] = s[k]

OneFor(t, s, i, x) ==
  /\ Len(t) = Len(s)
  /\ \A k \in 1 .. Len(s) : t[k] = IF k = i THEN x ELSE s[k]

OneForPair(t, s, i, x) ==
  /\ Len(t) = Len(s) - 1
  /\ \A k \in 1 .. i - 1 : t[k] = s[k]
  /\ t[i] = x
  /\ \A k \in i + 2 .. Len(s) : t[k - 1] = s[k]

\* A split puts two blocks where one was.
LEMMA TwoForOne ==
  ASSUME NEW S, NEW s \in Seq(S), NEW i \in 1 .. Len(s), NEW x \in S, NEW y \in S
  PROVE  LET t == Splice(s, i, <<x, y>>, i + 1)
         IN  t \in Seq(S) /\ TwoFor(t, s, i, x, y)
<1> DEFINE m == <<x, y>>
           t == Splice(s, i, m, i + 1)
<1>1. m \in Seq(S) /\ Len(m) = 2 /\ m[1] = x /\ m[2] = y
  OBVIOUS
<1> HIDE DEF m
<1>2. Len(s) \in Nat /\ i + 1 \in i .. Len(s) + 1
  OBVIOUS
<1>3. t \in Seq(S) /\ SpliceOf(t, s, i, m, i + 1)
  BY <1>1, <1>2, SpliceProperties
<1> HIDE DEF t
<1>4. /\ Len(t) = i - 1 + Len(m) + (Len(s) - (i + 1) + 1)
      /\ \A k \in 1 .. i - 1 : t[k] = s[k]
      /\ \A k \in 1 .. Len(m) : t[i - 1 + k] = m[k]
      /\ \A k \in i + 1 .. Len(s) : t[k - (i + 1) + i + Len(m)] = s[k]
  BY <1>3, Zenon DEF SpliceOf
<1>5. /\ i - 1 + 1 = i /\ i - 1 + 2 = i + 1 /\ 1 \in 1 .. 2 /\ 2 \in 1 .. 2
      /\ i - 1 + 2 + (Len(s) - (i + 1) + 1) = Len(s) + 1
      /\ \A k \in i + 1 .. Len(s) : k - (i + 1) + i + 2 = k + 1
  BY <1>2
<1>6. t[i] = x /\ t[i + 1] = y
  BY <1>1, <1>4, <1>5, Zenon
<1>7. Len(t) = Len(s) + 1 /\ \A k \in i + 1 .. Len(s) : t[k + 1] = s[k]
  BY <1>1, <1>4, <1>5, Zenon
<1> QED BY <1>3, <1>4, <1>6, <1>7, Zenon DEF t, m, TwoFor

\* A block taken whole is put where it was.
LEMMA OneForOne ==
  ASSUME NEW S, NEW s \in Seq(S), NEW i \in 1 .. Len(s), NEW x \in S
  PROVE  LET t == Splice(s, i, <<x>>, i + 1)
         IN  t \in Seq(S) /\ OneFor(t, s, i, x)
<1> DEFINE m == <<x>>
           t == Splice(s, i, m, i + 1)
<1>1. m \in Seq(S) /\ Len(m) = 1 /\ m[1] = x
  OBVIOUS
<1> HIDE DEF m
<1>2. Len(s) \in Nat /\ i + 1 \in i .. Len(s) + 1
  OBVIOUS
<1>3. t \in Seq(S) /\ SpliceOf(t, s, i, m, i + 1)
  BY <1>1, <1>2, SpliceProperties
<1> HIDE DEF t
<1>4. /\ Len(t) = i - 1 + Len(m) + (Len(s) - (i + 1) + 1)
      /\ \A k \in 1 .. i - 1 : t[k] = s[k]
      /\ \A k \in 1 .. Len(m) : t[i - 1 + k] = m[k]
      /\ \A k \in i + 1 .. Len(s) : t[k - (i + 1) + i + Len(m)] = s[k]
  BY <1>3, Zenon DEF SpliceOf
<1>5. /\ i - 1 + 1 = i /\ 1 \in 1 .. 1
      /\ i - 1 + 1 + (Len(s) - (i + 1) + 1) = Len(s)
      /\ \A k \in i + 1 .. Len(s) : k - (i + 1) + i + 1 = k
      /\ \A k \in 1 .. Len(s) : k \in 1 .. i - 1 \/ k = i \/ (k \in i + 1 .. Len(s) /\ k # i)
      /\ \A k \in 1 .. i - 1 : k # i
  BY <1>2
<1>6. t[i] = x
  BY <1>1, <1>4, <1>5, Zenon
<1>7. Len(t) = Len(s) /\ \A k \in i + 1 .. Len(s) : t[k] = s[k]
  BY <1>1, <1>4, <1>5, Zenon
<1>8. \A k \in 1 .. Len(s) : t[k] = IF k = i THEN x ELSE s[k]
  BY <1>4, <1>5, <1>6, <1>7, Zenon
<1> QED BY <1>3, <1>7, <1>8, Zenon DEF t, m, OneFor

\* A merge puts one block where two were.
LEMMA OneForTwo ==
  ASSUME NEW S, NEW s \in Seq(S), NEW i \in 1 .. Len(s) - 1, NEW x \in S
  PROVE  LET t == Splice(s, i, <<x>>, i + 2)
         IN  t \in Seq(S) /\ OneForPair(t, s, i, x)
<1> DEFINE m == <<x>>
           t == Splice(s, i, m, i + 2)
<1>1. m \in Seq(S) /\ Len(m) = 1 /\ m[1] = x
  OBVIOUS
<1> HIDE DEF m
<1>2. Len(s) \in Nat /\ i \in 1 .. Len(s) /\ i + 2 \in i .. Len(s) + 1
  OBVIOUS
<1>3. t \in Seq(S) /\ SpliceOf(t, s, i, m, i + 2)
  BY <1>1, <1>2, SpliceProperties
<1> HIDE DEF t
<1>4. /\ Len(t) = i - 1 + Len(m) + (Len(s) - (i + 2) + 1)
      /\ \A k \in 1 .. i - 1 : t[k] = s[k]
      /\ \A k \in 1 .. Len(m) : t[i - 1 + k] = m[k]
      /\ \A k \in i + 2 .. Len(s) : t[k - (i + 2) + i + Len(m)] = s[k]
  BY <1>3, Zenon DEF SpliceOf
<1>5. /\ i - 1 + 1 = i /\ 1 \in 1 .. 1
      /\ i - 1 + 1 + (Len(s) - (i + 2) + 1) = Len(s) - 1
      /\ \A k \in i + 2 .. Len(s) : k - (i + 2) + i + 1 = k - 1
  BY <1>2
<1>6. t[i] = x
  BY <1>1, <1>4, <1>5, Zenon
<1>7. Len(t) = Len(s) - 1 /\ \A k \in i + 2 .. Len(s) : t[k - 1] = s[k]
  BY <1>1, <1>4, <1>5, Zenon
<1> QED BY <1>3, <1>4, <1>6, <1>7, Zenon DEF t, m, OneForPair

-----------------------------------------------------------------------------
(* Geometry: the bytes of blocks and of pages.                             *)

\* Byte a belongs to block b, its header included.
Inside(b, a) == b.at <= a /\ a < EndOf(b)

\* The page a byte is in, by its address.
PageBase(a) == (a \div PAGE_SIZE) * PAGE_SIZE

\* No two blocks overlap.
Apart(s) ==
  \A i, j \in DOMAIN s :
    i # j => EndOf(s[i]) <= s[j].at \/ EndOf(s[j]) <= s[i].at

\* The blocks cover the bytes of the pages m, and no others.
Tiles(s, m) ==
  \A a \in Nat : PageBase(a) \in m <=> \E i \in DOMAIN s : Inside(s[i], a)

\* Every allocation has its used block.
Served(s, g) ==
  \A x \in g : \E i \in DOMAIN s :
    s[i].used /\ DataOf(s[i]) = x[1] /\ s[i].size >= x[2]

\* A block reaches from its header to its end, and is not empty.
LEMMA BlockExtent ==
  ASSUME NEW b \in BlockType
  PROVE  b.at \in Nat /\ b.size \in Nat /\ EndOf(b) \in Nat /\ b.at < EndOf(b)
BY HeapAssumption DEF BlockType, EndOf

\* The bytes of a page are the PAGE_SIZE bytes from its address on.
LEMMA PageBytes ==
  ASSUME NEW a \in Nat, NEW q \in Nat
  PROVE  PageBase(a) = q * PAGE_SIZE <=> q * PAGE_SIZE <= a /\ a < (q + 1) * PAGE_SIZE
BY DEF PageBase, PAGE_SIZE

\* The start of a block is a byte of it, so blocks that start together are one.
LEMMA SameStart ==
  ASSUME NEW s \in Seq(BlockType), Apart(s), NEW i \in DOMAIN s, NEW j \in DOMAIN s,
         s[i].at = s[j].at
  PROVE  i = j
<1>1. s[i] \in BlockType /\ s[j] \in BlockType
  OBVIOUS
<1>2. s[i].at \in Nat /\ s[i].at < EndOf(s[i]) /\ s[i].at < EndOf(s[j])
      /\ EndOf(s[i]) \in Nat /\ EndOf(s[j]) \in Nat
  BY <1>1, BlockExtent
<1>3. i # j => EndOf(s[i]) <= s[j].at \/ EndOf(s[j]) <= s[i].at
  BY DEF Apart
<1> QED BY <1>2, <1>3

\* Marking blocks used or free moves none.
LEMMA SameGeometry ==
  ASSUME NEW s \in Seq(BlockType), NEW t \in Seq(BlockType), NEW m,
         Len(t) = Len(s),
         \A k \in 1 .. Len(s) : t[k].at = s[k].at /\ t[k].size = s[k].size
  PROVE  /\ Apart(s) => Apart(t)
         /\ Tiles(s, m) => Tiles(t, m)
<1>1. DOMAIN s = 1 .. Len(s) /\ DOMAIN t = 1 .. Len(s)
  OBVIOUS
<1>2. ASSUME NEW k \in 1 .. Len(s)
      PROVE  EndOf(t[k]) = EndOf(s[k]) /\ t[k].at = s[k].at
  BY DEF EndOf
<1>3. Apart(s) => Apart(t)
  BY <1>1, <1>2, Zenon DEF Apart
<1>4. \A k \in 1 .. Len(s) : \A a : Inside(t[k], a) <=> Inside(s[k], a)
  BY <1>2, Zenon DEF Inside
<1>5. Tiles(s, m) => Tiles(t, m)
  BY <1>1, <1>4, Zenon DEF Tiles
<1> QED BY <1>3, <1>5

\* List t is list s with block i cut in two: what a split does, and what a merge
\* of adjacent blocks undoes.
IsCut(t, s, i) ==
  /\ Len(t) = Len(s) + 1
  /\ \A k \in 1 .. i - 1 : t[k] = s[k]
  /\ t[i].at = s[i].at /\ t[i + 1].at = EndOf(t[i]) /\ EndOf(t[i + 1]) = EndOf(s[i])
  /\ \A k \in i + 1 .. Len(s) : t[k + 1] = s[k]

\* What lies within two intervals that are apart is apart.
LEMMA Enclosed ==
  ASSUME NEW a \in Nat, NEW b \in Nat, NEW c \in Nat, NEW d \in Nat,
         a <= b, b <= c, c <= d
  PROVE  a <= d
OBVIOUS

\* Such lists cover the same bytes, and overlap both or neither.
LEMMA CutGeometry ==
  ASSUME NEW s \in Seq(BlockType), NEW t \in Seq(BlockType), NEW m, NEW i \in 1 .. Len(s),
         IsCut(t, s, i)
  PROVE  /\ Apart(s) <=> Apart(t)
         /\ Tiles(s, m) <=> Tiles(t, m)
<1> DEFINE x == t[i]
           y == t[i + 1]
           old(k) == IF k <= i THEN k ELSE k - 1
<1>0. Len(s) \in Nat /\ DOMAIN s = 1 .. Len(s)
  OBVIOUS
<1>1. /\ Len(t) = Len(s) + 1
      /\ \A k \in 1 .. i - 1 : t[k] = s[k]
      /\ t[i] = x /\ t[i + 1] = y
      /\ x.at = s[i].at /\ y.at = EndOf(x) /\ EndOf(y) = EndOf(s[i])
      /\ \A k \in i + 1 .. Len(s) : t[k + 1] = s[k]
  BY DEF IsCut
<1>a. x \in BlockType /\ y \in BlockType
  <2>1. i \in 1 .. Len(t) /\ i + 1 \in 1 .. Len(t)
    BY <1>0, <1>1
  <2> QED BY <2>1, ElementOfSeq
<1> HIDE DEF x, y
<1>2. DOMAIN t = 1 .. Len(s) + 1
  BY <1>1
<1>3. /\ s[i] \in BlockType /\ s[i].at \in Nat /\ EndOf(s[i]) \in Nat
      /\ x.at \in Nat /\ y.at \in Nat /\ EndOf(x) \in Nat /\ EndOf(y) \in Nat
      /\ x.at < EndOf(x) /\ y.at < EndOf(y)
  BY <1>a, BlockExtent
<1>4. ASSUME NEW k \in 1 .. Len(s) + 1
      PROVE  /\ old(k) \in 1 .. Len(s)
             /\ k # i /\ k # i + 1 => t[k] = s[old(k)] /\ old(k) # i
             /\ old(k) = i => k = i \/ k = i + 1
  <2>1. CASE k < i
    BY <1>0, <1>1, <2>1
  <2>2. CASE k = i \/ k = i + 1
    BY <1>0, <2>2
  <2>3. CASE k > i + 1
    <3>1. k - 1 \in i + 1 .. Len(s) /\ (k - 1) + 1 = k /\ old(k) = k - 1 /\ old(k) # i
      BY <1>0, <2>3
    <3> QED BY <1>0, <1>1, <2>3, <3>1
  <2> QED BY <1>0, <2>1, <2>2, <2>3
<1>5. ASSUME NEW k \in 1 .. Len(s) + 1
      PROVE  /\ s[old(k)].at <= t[k].at /\ EndOf(t[k]) <= EndOf(s[old(k)])
             /\ s[old(k)].at \in Nat /\ t[k].at \in Nat
             /\ EndOf(t[k]) \in Nat /\ EndOf(s[old(k)]) \in Nat
  <2>1. s[old(k)] \in BlockType /\ t[k] \in BlockType
    <3>1. old(k) \in 1 .. Len(s)
      BY <1>4
    <3> QED BY <1>1, <1>2, <3>1, ElementOfSeq
  <2>2. /\ s[old(k)].at \in Nat /\ t[k].at \in Nat
        /\ EndOf(t[k]) \in Nat /\ EndOf(s[old(k)]) \in Nat
    BY <2>1, BlockExtent
  <2>3. CASE k # i /\ k # i + 1
    <3>1. t[k] = s[old(k)]
      BY <1>4, <2>3
    <3> QED BY <2>2, <3>1
  <2>4. CASE k = i \/ k = i + 1
    <3>1. old(k) = i
      BY <2>4
    <3>2. /\ t[k] = x \/ t[k] = y
      BY <1>1, <2>4
    <3>3. /\ s[i].at <= x.at /\ EndOf(x) <= EndOf(s[i])
          /\ s[i].at <= y.at /\ EndOf(y) <= EndOf(s[i])
      BY <1>1, <1>3
    <3>4. s[old(k)] = s[i]
      BY <3>1
    <3> HIDE DEF old
    <3> QED BY <2>2, <3>2, <3>3, <3>4, Zenon
  <2> QED BY <2>3, <2>4
<1>6. ASSUME NEW k \in 1 .. Len(s) + 1, NEW l \in 1 .. Len(s) + 1, k # l, old(k) = old(l)
      PROVE  (k = i /\ l = i + 1) \/ (k = i + 1 /\ l = i)
  BY <1>0, <1>6
<1>7. ASSUME Apart(s) PROVE Apart(t)
  <2> SUFFICES ASSUME NEW k \in 1 .. Len(s) + 1, NEW l \in 1 .. Len(s) + 1, k # l
               PROVE  EndOf(t[k]) <= t[l].at \/ EndOf(t[l]) <= t[k].at
    BY <1>2 DEF Apart
  <2>1. CASE old(k) = old(l)
    <3>1. (k = i /\ l = i + 1) \/ (k = i + 1 /\ l = i)
      BY <1>6, <2>1
    <3>2. EndOf(x) <= y.at
      BY <1>1, <1>3
    <3> QED BY <1>1, <3>1, <3>2
  <2>2. CASE old(k) # old(l)
    <3>1. old(k) \in 1 .. Len(s) /\ old(l) \in 1 .. Len(s)
      BY <1>4
    <3>2. EndOf(s[old(k)]) <= s[old(l)].at \/ EndOf(s[old(l)]) <= s[old(k)].at
      BY <1>0, <1>7, <2>2, <3>1 DEF Apart
    <3>3. /\ s[old(k)].at <= t[k].at /\ EndOf(t[k]) <= EndOf(s[old(k)])
          /\ s[old(k)].at \in Nat /\ t[k].at \in Nat
          /\ EndOf(t[k]) \in Nat /\ EndOf(s[old(k)]) \in Nat
      BY <1>5
    <3>4. /\ s[old(l)].at <= t[l].at /\ EndOf(t[l]) <= EndOf(s[old(l)])
          /\ s[old(l)].at \in Nat /\ t[l].at \in Nat
          /\ EndOf(t[l]) \in Nat /\ EndOf(s[old(l)]) \in Nat
      BY <1>5
    <3> HIDE DEF old
    <3>5. CASE EndOf(s[old(k)]) <= s[old(l)].at
      BY <3>3, <3>4, <3>5, Enclosed, Zenon
    <3>6. CASE EndOf(s[old(l)]) <= s[old(k)].at
      BY <3>3, <3>4, <3>6, Enclosed, Zenon
    <3> QED BY <3>2, <3>5, <3>6
  <2> QED BY <2>1, <2>2
<1>8. ASSUME NEW a \in Nat
      PROVE  (\E k \in 1 .. Len(s) : Inside(s[k], a))
               <=> (\E k \in 1 .. Len(s) + 1 : Inside(t[k], a))
  <2>1. ASSUME NEW k \in 1 .. Len(s) + 1, Inside(t[k], a)
        PROVE  \E l \in 1 .. Len(s) : Inside(s[l], a)
    <3>1. old(k) \in 1 .. Len(s)
      BY <1>4
    <3> HIDE DEF old
    <3>2. Inside(s[old(k)], a)
      BY <1>5, <2>1 DEF Inside
    <3> QED BY <3>1, <3>2
  <2>2. ASSUME NEW k \in 1 .. Len(s), Inside(s[k], a)
        PROVE  \E l \in 1 .. Len(s) + 1 : Inside(t[l], a)
    <3>1. CASE k < i
      BY <1>0, <1>1, <2>2, <3>1
    <3>2. CASE k > i
      <4>1. k + 1 \in 1 .. Len(s) + 1 /\ k \in i + 1 .. Len(s)
        BY <1>0, <3>2
      <4>2. t[k + 1] = s[k]
        BY <1>1, <4>1
      <4> QED BY <2>2, <4>1, <4>2
    <3>3. CASE k = i
      <4>1. i \in 1 .. Len(s) + 1 /\ i + 1 \in 1 .. Len(s) + 1
        BY <1>0
      <4>2. Inside(x, a) \/ Inside(y, a)
        BY <1>1, <1>3, <2>2, <3>3 DEF Inside
      <4> QED BY <1>1, <4>1, <4>2
    <3> QED BY <1>0, <3>1, <3>2, <3>3
  <2> QED BY <2>1, <2>2
<1>9. Tiles(s, m) <=> Tiles(t, m)
  BY <1>0, <1>2, <1>8, Zenon DEF Tiles
<1> DEFINE new(k) == IF k <= i THEN k ELSE k + 1
<1>10. ASSUME NEW k \in 1 .. Len(s), k # i
       PROVE  new(k) \in 1 .. Len(t) /\ t[new(k)] = s[k] /\ new(k) # i /\ new(k) # i + 1
  BY <1>0, <1>1, <1>10
<1>11. ASSUME Apart(t), NEW k \in 1 .. Len(s), k # i
       PROVE  EndOf(s[i]) <= s[k].at \/ EndOf(s[k]) <= s[i].at
  <2>1. i \in 1 .. Len(t) /\ i + 1 \in 1 .. Len(t)
    BY <1>0, <1>1
  <2>2. new(k) \in 1 .. Len(t) /\ t[new(k)] = s[k] /\ new(k) # i /\ new(k) # i + 1
    BY <1>10, <1>11
  <2> HIDE DEF new
  <2>3. /\ EndOf(x) <= s[k].at \/ EndOf(s[k]) <= x.at
        /\ EndOf(y) <= s[k].at \/ EndOf(s[k]) <= y.at
    BY <1>1, <1>2, <1>11, <2>1, <2>2 DEF Apart
  <2>4. s[k].at \in Nat /\ EndOf(s[k]) \in Nat /\ s[k].at < EndOf(s[k])
    BY BlockExtent, ElementOfSeq
  <2> QED BY <1>1, <1>3, <2>3, <2>4
<1>12. ASSUME Apart(t) PROVE Apart(s)
  <2> SUFFICES ASSUME NEW k \in 1 .. Len(s), NEW l \in 1 .. Len(s), k # l
               PROVE  EndOf(s[k]) <= s[l].at \/ EndOf(s[l]) <= s[k].at
    BY <1>0 DEF Apart
  <2>1. CASE k = i \/ l = i
    BY <1>11, <1>12, <2>1
  <2>2. CASE k # i /\ l # i
    <3>1. /\ new(k) \in 1 .. Len(t) /\ t[new(k)] = s[k]
          /\ new(l) \in 1 .. Len(t) /\ t[new(l)] = s[l]
      BY <1>10, <2>2
    <3>2. new(k) # new(l)
      BY <1>0, <2>2
    <3> HIDE DEF new
    <3> QED BY <1>1, <1>2, <1>12, <3>1, <3>2 DEF Apart
  <2> QED BY <2>1, <2>2
<1> QED BY <1>7, <1>9, <1>12

\* One more page at the end of the list, taken from outside the pages covered.
LEMMA PageGeometry ==
  ASSUME NEW s \in Seq(BlockType), NEW m, NEW q \in Nat, q * PAGE_SIZE \notin m,
         Apart(s), Tiles(s, m)
  PROVE  LET t == Append(s, PageBlock(q * PAGE_SIZE))
         IN  /\ t \in Seq(BlockType) /\ Apart(t)
             /\ Tiles(t, m \cup {q * PAGE_SIZE})
<1> DEFINE b == PageBlock(q * PAGE_SIZE)
           t == Append(s, b)
           n == Len(s) + 1
<1>1. /\ b \in BlockType
      /\ b.at = q * PAGE_SIZE /\ EndOf(b) = (q + 1) * PAGE_SIZE
  BY HeapAssumption DEF PageBlock, Block, BlockType, EndOf, PAGE_SIZE
<1> HIDE DEF b
<1>2. /\ t \in Seq(BlockType) /\ Len(t) = n
      /\ \A k \in 1 .. Len(s) : t[k] = s[k]
      /\ t[n] = b
  BY <1>1, AppendProperties
<1> HIDE DEF t
<1>3. /\ DOMAIN s = 1 .. Len(s) /\ DOMAIN t = 1 .. n /\ n \in 1 .. n
      /\ \A k \in 1 .. n : k \in 1 .. Len(s) \/ k = n
      /\ \A k \in 1 .. Len(s) : k \in 1 .. n /\ k # n
  BY <1>2
<1> HIDE DEF n
<1>4. \A a \in Nat : Inside(b, a) <=> PageBase(a) = q * PAGE_SIZE
  BY <1>1, PageBytes DEF Inside
<1>5. ASSUME NEW k \in 1 .. Len(s)
      PROVE  EndOf(s[k]) <= b.at \/ EndOf(b) <= s[k].at
  <2>1. s[k].at \in Nat /\ EndOf(s[k]) \in Nat /\ s[k].at < EndOf(s[k])
    BY BlockExtent, ElementOfSeq
  <2>2. b.at \in Nat /\ EndOf(b) \in Nat /\ b.at < EndOf(b)
    BY <1>1, BlockExtent
  <2>3. \A a \in Nat : ~(Inside(b, a) /\ Inside(s[k], a))
    BY <1>3, <1>4, Zenon DEF Tiles
  <2>4. ~(Inside(b, b.at) /\ Inside(s[k], b.at)) /\ ~(Inside(b, s[k].at) /\ Inside(s[k], s[k].at))
    BY <2>1, <2>2, <2>3, Zenon
  <2> QED BY <2>1, <2>2, <2>4 DEF Inside
<1>6. Apart(t)
  <2> SUFFICES ASSUME NEW k \in 1 .. n, NEW l \in 1 .. n, k # l
               PROVE  EndOf(t[k]) <= t[l].at \/ EndOf(t[l]) <= t[k].at
    BY <1>3 DEF Apart
  <2>1. CASE k = n
    BY <1>2, <1>3, <1>5, <2>1, Zenon
  <2>2. CASE l = n
    BY <1>2, <1>3, <1>5, <2>2, Zenon
  <2>3. CASE k # n /\ l # n
    BY <1>2, <1>3, <2>3, Zenon DEF Apart
  <2> QED BY <2>1, <2>2, <2>3, Zenon
<1>7. Tiles(t, m \cup {q * PAGE_SIZE})
  <2> SUFFICES ASSUME NEW a \in Nat
               PROVE  PageBase(a) \in m \cup {q * PAGE_SIZE}
                        <=> \E k \in 1 .. n : Inside(t[k], a)
    BY <1>3 DEF Tiles
  <2>1. PageBase(a) \in m <=> \E k \in 1 .. Len(s) : Inside(s[k], a)
    BY <1>3 DEF Tiles
  <2>2. (\E k \in 1 .. n : Inside(t[k], a))
          <=> (\E k \in 1 .. Len(s) : Inside(s[k], a)) \/ Inside(b, a)
    BY <1>2, <1>3, Zenon
  <2>3. Inside(b, a) <=> PageBase(a) = q * PAGE_SIZE
    BY <1>4
  <2> QED BY <2>1, <2>2, <2>3, Zenon
<1> QED BY <1>2, <1>6, <1>7 DEF t, b

\* A page a block reaches into is one of the pages the blocks cover.
LEMMA PageOfBlock ==
  ASSUME NEW s \in Seq(BlockType), NEW m, Tiles(s, m), NEW i \in DOMAIN s, NEW q \in Nat,
         s[i].at < (q + 1) * PAGE_SIZE, q * PAGE_SIZE < EndOf(s[i])
  PROVE  q * PAGE_SIZE \in m
<1>1. s[i].at \in Nat /\ EndOf(s[i]) \in Nat /\ s[i].at < EndOf(s[i])
  <2>1. s[i] \in BlockType
    OBVIOUS
  <2> QED BY <2>1, BlockExtent
<1>2. q * PAGE_SIZE \in Nat /\ q * PAGE_SIZE < (q + 1) * PAGE_SIZE
  BY DEF PAGE_SIZE
<1>3. PICK a \in Nat : Inside(s[i], a) /\ q * PAGE_SIZE <= a /\ a < (q + 1) * PAGE_SIZE
  <2>1. CASE s[i].at <= q * PAGE_SIZE
    <3>1. Inside(s[i], q * PAGE_SIZE)
      BY <2>1 DEF Inside
    <3> QED BY <1>2, <3>1
  <2>2. CASE q * PAGE_SIZE < s[i].at
    <3>1. Inside(s[i], s[i].at)
      BY <1>1 DEF Inside
    <3>2. q * PAGE_SIZE <= s[i].at
      BY <1>1, <1>2, <2>2
    <3> QED BY <1>1, <3>1, <3>2
  <2> QED BY <1>1, <1>2, <2>1, <2>2
<1>4. PageBase(a) = q * PAGE_SIZE
  BY <1>3, PageBytes
<1> QED BY <1>3, <1>4, Zenon DEF Tiles

-----------------------------------------------------------------------------
(***************************************************************************)
(* The inductive invariant.  AllocationsApart says nothing of the bytes    *)
(* between the blocks, so by itself it allows the page the heap grows by   *)
(* to be one that a block reaches into; and two owners of one address      *)
(* would leave one of them without a block after kfree.                    *)
(***************************************************************************)
HeapTypeOK ==
  /\ blocks \in Seq(BlockType)
  /\ wanted \in Nat \cup {NoCall}
  /\ crossed \in BOOLEAN

OneOwner == \A x, y \in given : x[1] = y[1] => x = y

HeapInv ==
  /\ IInv
  /\ HeapTypeOK
  /\ mine \subseteq held
  /\ ~crossed => Apart(blocks) /\ Tiles(blocks, mine) /\ Served(blocks, given) /\ OneOwner

\* Before heap_init there is no block, no page and no owner.
LEMMA InitHeapInv == HeapInit => HeapInv
<1> SUFFICES ASSUME HeapInit PROVE HeapInv
  OBVIOUS
<1>1. IInv
  BY InitIInv DEF HeapInit
<1>2. HeapTypeOK /\ mine \subseteq held
  BY EmptySeq DEF HeapInit, HeapTypeOK
<1>3. DOMAIN blocks = {} /\ mine = {} /\ given = {}
  BY DEF HeapInit
<1>4. Apart(blocks) /\ Tiles(blocks, mine) /\ Served(blocks, given) /\ OneOwner
  BY <1>3 DEF Apart, Tiles, Served, OneOwner
<1> QED BY <1>1, <1>2, <1>4 DEF HeapInv

\* Every step of the heap is a step of the page allocator, or none.
LEMMA HeapStepIsPmmStep ==
  [HeapNext]_<<vars, heapVars>> => [Next]_vars
BY DEF HeapNext, OtherCaller, SetUpHeap, Kfree, KmallocStep, Take, Grow, Fail, Kmalloc,
   Next, vars

\* heap_init and kmalloc add the page pmm_alloc gives them to their pages.
LEMMA NewPage ==
  ASSUME HeapInv, PmmAlloc,
         blocks' = Append(blocks, PageBlock(ret')), mine' = mine \cup {ret'},
         given' = given, crossed' = crossed, wanted' = wanted
  PROVE  HeapInv'
<1>1. IInv'
  BY NextIInv DEF HeapInv, Next
<1>2. PICK q \in Pages :
        /\ q \notin HeldPages
        /\ held' = held \cup {q * PAGE_SIZE}
        /\ ret' = q * PAGE_SIZE
  BY AllocPage DEF HeapInv
<1>3. q \in Nat /\ q * PAGE_SIZE \notin held
  <2>1. (q * PAGE_SIZE) \div PAGE_SIZE = q
    BY PageOfAddress
  <2> QED BY <1>2, <2>1, PmmAssumption DEF HeldPages, Pages, TOTAL_PAGES
<1>4. mine' \subseteq held'
  BY <1>2 DEF HeapInv
<1>5. /\ blocks \in Seq(BlockType) /\ q * PAGE_SIZE \notin mine
      /\ PageBlock(q * PAGE_SIZE) \in BlockType
  BY <1>3, HeapAssumption DEF HeapInv, HeapTypeOK, PageBlock, Block, BlockType, PAGE_SIZE
<1>6. HeapTypeOK'
  BY <1>2, <1>5, AppendProperties DEF HeapInv, HeapTypeOK
<1>7. ASSUME ~crossed
      PROVE  Apart(blocks') /\ Tiles(blocks', mine') /\ Served(blocks', given') /\ OneOwner'
  <2>1. Apart(blocks) /\ Tiles(blocks, mine) /\ Served(blocks, given) /\ OneOwner
    BY <1>7 DEF HeapInv
  <2>2. Apart(blocks') /\ Tiles(blocks', mine')
    BY <1>2, <1>3, <1>5, <2>1, PageGeometry
  <2>3. /\ DOMAIN blocks \subseteq DOMAIN blocks'
        /\ \A i \in DOMAIN blocks : blocks'[i] = blocks[i]
    BY <1>2, <1>5, AppendProperties
  <2>4. Served(blocks', given')
    BY <2>1, <2>3, Zenon DEF Served
  <2> QED BY <2>1, <2>2, <2>4 DEF OneOwner
<1> QED BY <1>1, <1>4, <1>6, <1>7 DEF HeapInv

\* heap_init starts from no block and no page.
LEMMA FirstPage ==
  ASSUME HeapInv, PmmAlloc, blocks = <<>>,
         blocks' = <<PageBlock(ret')>>, mine' = {ret'},
         given' = given, crossed' = crossed, wanted' = wanted
  PROVE  HeapInv'
<1>1. blocks' = Append(blocks, PageBlock(ret'))
  OBVIOUS
<1>2. CASE mine = {}
  BY <1>1, <1>2, NewPage
<1>3. CASE crossed
  <2>1. IInv'
    BY NextIInv DEF HeapInv, Next
  <2>2. PICK q \in Pages : held' = held \cup {q * PAGE_SIZE} /\ ret' = q * PAGE_SIZE
    BY AllocPage DEF HeapInv
  <2>3. PageBlock(q * PAGE_SIZE) \in BlockType
    BY PmmAssumption, HeapAssumption
    DEF PageBlock, Block, BlockType, Pages, TOTAL_PAGES, PAGE_SIZE
  <2>4. HeapTypeOK'
    BY <2>2, <2>3 DEF HeapInv, HeapTypeOK
  <2> QED BY <1>3, <2>1, <2>2, <2>4 DEF HeapInv
<1>4. CASE ~crossed /\ mine # {}
  <2>1. PICK p \in Pages : p * PAGE_SIZE \in mine
    BY <1>4 DEF HeapInv, IInv, TypeOK
  <2>2. p * PAGE_SIZE \in Nat /\ PageBase(p * PAGE_SIZE) = p * PAGE_SIZE
    BY PageOfAddress DEF PageBase
  <2>3. Tiles(blocks, mine) /\ DOMAIN blocks = {}
    BY <1>4 DEF HeapInv
  <2> QED BY <2>1, <2>2, <2>3 DEF Tiles
<1> QED BY <1>2, <1>3, <1>4 DEF HeapInv, HeapTypeOK

\* What the steps of the heap that take no page have to keep.
LEMMA SamePages ==
  ASSUME HeapInv, UNCHANGED <<vars, mine>>, HeapTypeOK',
         ~crossed' => Apart(blocks') /\ Tiles(blocks', mine)
                        /\ Served(blocks', given') /\ OneOwner'
  PROVE  HeapInv'
<1>1. IInv'
  BY NextIInv DEF HeapInv
<1>2. held' = held /\ mine' = mine
  BY DEF vars
<1> QED BY <1>1, <1>2 DEF HeapInv

\* A free block found by kmalloc becomes the caller's, whole or after a split.
LEMMA TakeStep == HeapInv /\ Take => HeapInv'
<1> SUFFICES ASSUME HeapInv, Take PROVE HeapInv'
  OBVIOUS
<1>1. /\ blocks \in Seq(BlockType) /\ wanted \in Nat /\ crossed \in BOOLEAN
      /\ DOMAIN blocks = 1 .. Len(blocks)
  BY DEF HeapInv, HeapTypeOK, Take
<1>2. PICK i \in DOMAIN blocks :
        /\ IsFirstFit(i)
        /\ blocks' = SubSeq(blocks, 1, i - 1)
                     \o (IF blocks[i].size > wanted + HEADER + SPARE
                         THEN Split(blocks[i]) ELSE Whole(blocks[i]))
                     \o SubSeq(blocks, i + 1, Len(blocks))
        /\ given' = given \cup {<<DataOf(blocks[i]), wanted>>}
  BY DEF Take
<1>3. wanted' = NoCall /\ crossed' = crossed /\ UNCHANGED <<vars, mine>>
  BY DEF Take
<1>4. /\ i \in 1 .. Len(blocks) /\ blocks[i] \in BlockType
      /\ ~blocks[i].used /\ blocks[i].size >= wanted
  BY <1>1, <1>2, ElementOfSeq DEF IsFirstFit, Fits
<1> DEFINE small == Block(blocks[i].at, wanted, TRUE)
           rest  == Block(blocks[i].at + HEADER + wanted,
                          blocks[i].size - wanted - HEADER, FALSE)
           whole == Block(blocks[i].at, blocks[i].size, TRUE)
\* either way: block i is the caller's now, the blocks before it are as they
\* were, and the others are where they were, or one further
<1>5. /\ blocks' \in Seq(BlockType)
      /\ i \in DOMAIN blocks'
      /\ blocks'[i].used /\ blocks'[i].at = blocks[i].at /\ blocks'[i].size >= wanted
      /\ \A k \in DOMAIN blocks : k # i => \E l \in DOMAIN blocks' : blocks'[l] = blocks[k]
      /\ Apart(blocks) => Apart(blocks')
      /\ Tiles(blocks, mine) => Tiles(blocks', mine)
  <2>1. CASE blocks[i].size > wanted + HEADER + SPARE
    <3>1. small \in BlockType /\ rest \in BlockType
      <4>1. blocks[i].at \in Nat /\ blocks[i].size \in Nat /\ HEADER \in Nat
        BY <1>4, HeapAssumption DEF BlockType
      <4>2. /\ blocks[i].at + HEADER + wanted \in Nat
            /\ blocks[i].size - wanted - HEADER \in Nat
        <5>1. wanted \in Nat /\ SPARE \in Nat
          BY <1>1, HeapAssumption
        <5>2. blocks[i].at + HEADER + wanted \in Nat
          BY <4>1, <5>1
        <5>3. blocks[i].size - wanted - HEADER \in Nat
          BY <2>1, <4>1, <5>1
        <5> QED BY <5>2, <5>3
      <4> QED BY <1>1, <4>1, <4>2 DEF Block, BlockType
    <3>2. blocks' = Splice(blocks, i, <<small, rest>>, i + 1)
      BY <1>2, <2>1 DEF Split, Splice
    <3>3. /\ small.at = blocks[i].at /\ small.size = wanted /\ small.used
          /\ rest.at = EndOf(small) /\ EndOf(rest) = EndOf(blocks[i])
      BY <1>1, <1>4, HeapAssumption DEF Block, BlockType, EndOf
    <3> HIDE DEF small, rest
    <3>4. /\ blocks' \in Seq(BlockType) /\ Len(blocks') = Len(blocks) + 1
          /\ \A k \in 1 .. i - 1 : blocks'[k] = blocks[k]
          /\ blocks'[i] = small /\ blocks'[i + 1] = rest
          /\ \A k \in i + 1 .. Len(blocks) : blocks'[k + 1] = blocks[k]
      <4>1. blocks' \in Seq(BlockType) /\ TwoFor(blocks', blocks, i, small, rest)
        BY <1>1, <1>4, <3>1, <3>2, TwoForOne
      <4> QED BY <4>1, Zenon DEF TwoFor
    <3>5. IsCut(blocks', blocks, i)
      BY <3>3, <3>4 DEF IsCut
    <3>6. /\ Apart(blocks) => Apart(blocks')
          /\ Tiles(blocks, mine) => Tiles(blocks', mine)
      BY <1>1, <1>4, <3>4, <3>5, CutGeometry
    <3>7. i \in DOMAIN blocks' /\ DOMAIN blocks' = 1 .. Len(blocks) + 1
      BY <1>1, <1>4, <3>4
    <3>8. ASSUME NEW k \in DOMAIN blocks, k # i
          PROVE  \E l \in DOMAIN blocks' : blocks'[l] = blocks[k]
      <4>1. CASE k < i
        BY <1>1, <1>4, <3>4, <3>7, <4>1
      <4>2. CASE k > i
        <5>1. k \in i + 1 .. Len(blocks) /\ k + 1 \in 1 .. Len(blocks) + 1
          BY <1>1, <1>4, <4>2
        <5> QED BY <3>4, <3>7, <5>1
      <4> QED BY <1>1, <1>4, <3>8, <4>1, <4>2
    <3>9. blocks'[i].size >= wanted
      BY <1>1, <3>3, <3>4
    <3> QED BY <3>3, <3>4, <3>6, <3>7, <3>8, <3>9
  <2>2. CASE ~(blocks[i].size > wanted + HEADER + SPARE)
    <3>1. whole \in BlockType
      BY <1>4 DEF Block, BlockType
    <3>2. blocks' = Splice(blocks, i, <<whole>>, i + 1)
      BY <1>2, <2>2 DEF Whole, Splice
    <3>3. whole.at = blocks[i].at /\ whole.size = blocks[i].size /\ whole.used
      BY DEF Block
    <3> HIDE DEF whole
    <3>4. /\ blocks' \in Seq(BlockType) /\ Len(blocks') = Len(blocks)
          /\ \A k \in 1 .. Len(blocks) : blocks'[k] = IF k = i THEN whole ELSE blocks[k]
      <4>1. blocks' \in Seq(BlockType) /\ OneFor(blocks', blocks, i, whole)
        BY <1>1, <1>4, <3>1, <3>2, OneForOne
      <4> QED BY <4>1, Zenon DEF OneFor
    <3>5. \A k \in 1 .. Len(blocks) :
            blocks'[k].at = blocks[k].at /\ blocks'[k].size = blocks[k].size
      BY <3>3, <3>4
    <3>6. /\ Apart(blocks) => Apart(blocks')
          /\ Tiles(blocks, mine) => Tiles(blocks', mine)
      BY <1>1, <3>4, <3>5, SameGeometry
    <3>7. DOMAIN blocks' = DOMAIN blocks
      BY <1>1, <3>4
    <3> QED BY <1>1, <1>4, <3>3, <3>4, <3>6, <3>7
  <2> QED BY <2>1, <2>2
<1> HIDE DEF small, rest, whole
<1>6. HeapTypeOK'
  BY <1>1, <1>3, <1>5 DEF HeapTypeOK
<1>7. ASSUME ~crossed'
      PROVE  Apart(blocks') /\ Tiles(blocks', mine) /\ Served(blocks', given') /\ OneOwner'
  <2>1. Apart(blocks) /\ Tiles(blocks, mine) /\ Served(blocks, given) /\ OneOwner
    BY <1>3, <1>7 DEF HeapInv
  <2>2. ASSUME NEW x \in given
        PROVE  /\ x[1] # DataOf(blocks[i])
               /\ \E l \in DOMAIN blocks' :
                     blocks'[l].used /\ DataOf(blocks'[l]) = x[1] /\ blocks'[l].size >= x[2]
    <3>1. PICK k \in DOMAIN blocks :
            blocks[k].used /\ DataOf(blocks[k]) = x[1] /\ blocks[k].size >= x[2]
      BY <2>1 DEF Served
    <3>2. k # i
      BY <1>4, <3>1
    <3>3. blocks[k].at # blocks[i].at
      BY <1>1, <1>2, <2>1, <3>2, SameStart
    <3>4. blocks[k] \in BlockType
      BY <1>1, ElementOfSeq
    <3>5. x[1] # DataOf(blocks[i])
      BY <1>4, <3>1, <3>3, <3>4, HeapAssumption DEF DataOf, BlockType
    <3> QED BY <1>5, <3>1, <3>2, <3>5
  <2>3. DataOf(blocks'[i]) = DataOf(blocks[i])
    BY <1>5 DEF DataOf
  <2>4. Served(blocks', given')
    <3> SUFFICES ASSUME NEW x \in given'
                 PROVE  \E l \in DOMAIN blocks' :
                     blocks'[l].used /\ DataOf(blocks'[l]) = x[1] /\ blocks'[l].size >= x[2]
      BY DEF Served
    <3>1. CASE x \in given
      BY <2>2, <3>1
    <3>2. CASE x = <<DataOf(blocks[i]), wanted>>
      BY <1>5, <2>3, <3>2
    <3> QED BY <1>2, <3>1, <3>2
  <2>5. OneOwner'
    BY <1>2, <2>1, <2>2 DEF OneOwner
  <2> QED BY <1>5, <2>1, <2>4, <2>5
<1> QED BY <1>3, <1>6, <1>7, SamePages

\* A freed block is its caller's no more, and takes the free block behind it in.
LEMMA KfreeStep == HeapInv /\ Kfree => HeapInv'
<1> SUFFICES ASSUME HeapInv, Kfree PROVE HeapInv'
  OBVIOUS
<1>1. PICK g \in given, i \in DOMAIN blocks :
        /\ DataOf(blocks[i]) = g[1]
        /\ given' = given \ {g}
        /\ \/ /\ MergesNext(i)
              /\ blocks' = Merged(i)
              /\ crossed' = (blocks[i + 1].at # EndOf(blocks[i]))
           \/ /\ ~MergesNext(i)
              /\ blocks' = [blocks EXCEPT ![i].used = FALSE]
              /\ UNCHANGED crossed
  BY DEF Kfree
<1>2. ~crossed /\ wanted' = wanted /\ UNCHANGED <<vars, mine>>
  BY DEF Kfree
<1>3. /\ blocks \in Seq(BlockType) /\ wanted \in Nat \cup {NoCall} /\ crossed \in BOOLEAN
      /\ DOMAIN blocks = 1 .. Len(blocks) /\ Len(blocks) \in Nat
      /\ Apart(blocks) /\ Tiles(blocks, mine) /\ Served(blocks, given) /\ OneOwner
  BY <1>2 DEF HeapInv, HeapTypeOK
<1>4. i \in 1 .. Len(blocks) /\ blocks[i] \in BlockType
  BY <1>1, <1>3, ElementOfSeq
<1>5. OneOwner'
  BY <1>1, <1>3 DEF OneOwner
\* another allocation has another block
<1>6. ASSUME NEW x \in given'
      PROVE  \E k \in DOMAIN blocks :
               /\ k # i
               /\ blocks[k].used /\ DataOf(blocks[k]) = x[1] /\ blocks[k].size >= x[2]
  <2>1. PICK k \in DOMAIN blocks :
          blocks[k].used /\ DataOf(blocks[k]) = x[1] /\ blocks[k].size >= x[2]
    BY <1>1, <1>3 DEF Served
  <2>2. x # g /\ x \in given
    BY <1>1
  <2>3. k # i
    BY <1>1, <1>3, <2>1, <2>2 DEF OneOwner
  <2> QED BY <2>1, <2>3
<1>7. CASE MergesNext(i)
  <2> DEFINE m == Block(blocks[i].at, blocks[i].size + HEADER + blocks[i + 1].size, FALSE)
  <2>1. blocks' = Merged(i) /\ crossed' = (blocks[i + 1].at # EndOf(blocks[i]))
    BY <1>1, <1>7
  <2>2. i \in 1 .. Len(blocks) - 1 /\ i + 1 \in 1 .. Len(blocks) /\ ~blocks[i + 1].used
    BY <1>3, <1>4, <1>7 DEF MergesNext
  <2>3. blocks[i + 1] \in BlockType
    BY <1>3, <2>2, ElementOfSeq
  <2>4. m \in BlockType
    BY <1>4, <2>3, HeapAssumption DEF Block, BlockType
  <2>5. /\ m.at = blocks[i].at
        /\ blocks[i + 1].at = EndOf(blocks[i]) => EndOf(m) = EndOf(blocks[i + 1])
    BY <1>4, <2>3, HeapAssumption DEF Block, BlockType, EndOf
  <2>6. blocks' = Splice(blocks, i, <<m>>, i + 2)
    BY <2>1 DEF Merged, Splice
  <2> HIDE DEF m
  <2>7. blocks' \in Seq(BlockType) /\ OneForPair(blocks', blocks, i, m)
    BY <1>3, <2>2, <2>4, <2>6, OneForTwo
  <2>8. /\ Len(blocks') = Len(blocks) - 1
        /\ \A k \in 1 .. i - 1 : blocks'[k] = blocks[k]
        /\ blocks'[i] = m
        /\ \A k \in i + 2 .. Len(blocks) : blocks'[k - 1] = blocks[k]
    BY <2>7, Zenon DEF OneForPair
  <2>9. HeapTypeOK'
    BY <1>2, <1>3, <2>1, <2>7 DEF HeapTypeOK
  <2>10. ASSUME ~crossed'
         PROVE  Apart(blocks') /\ Tiles(blocks', mine) /\ Served(blocks', given')
    <3>1. blocks[i + 1].at = EndOf(blocks[i]) /\ EndOf(m) = EndOf(blocks[i + 1])
      BY <2>1, <2>5, <2>10
    <3>2. i \in 1 .. Len(blocks') /\ Len(blocks) = Len(blocks') + 1
      BY <1>3, <2>2, <2>8
    <3>3. \A k \in i + 1 .. Len(blocks') : blocks[k + 1] = blocks'[k]
      <4>1. ASSUME NEW k \in i + 1 .. Len(blocks')
            PROVE  k + 1 \in i + 2 .. Len(blocks) /\ (k + 1) - 1 = k
        BY <1>3, <1>4, <3>2
      <4> QED BY <2>8, <4>1
    <3>4. IsCut(blocks, blocks', i)
      BY <2>5, <2>8, <3>1, <3>2, <3>3 DEF IsCut
    <3>5. Apart(blocks') /\ Tiles(blocks', mine)
      BY <1>3, <2>7, <3>2, <3>4, CutGeometry
    <3>6. ASSUME NEW k \in DOMAIN blocks, k # i, blocks[k].used
          PROVE  \E l \in DOMAIN blocks' : blocks'[l] = blocks[k]
      <4>1. DOMAIN blocks' = 1 .. Len(blocks) - 1
        BY <2>7, <2>8
      <4>2. k # i + 1
        BY <2>2, <3>6
      <4>3. CASE k < i
        BY <1>3, <1>4, <2>8, <2>2, <4>1, <4>3
      <4>4. CASE k > i
        <5>1. k \in i + 2 .. Len(blocks) /\ k - 1 \in 1 .. Len(blocks) - 1
          BY <1>3, <1>4, <4>2, <4>4
        <5> QED BY <2>8, <4>1, <5>1
      <4> QED BY <1>3, <1>4, <3>6, <4>3, <4>4
    <3>7. Served(blocks', given')
      BY <1>6, <3>6 DEF Served
    <3> QED BY <3>5, <3>7
  <2> QED BY <1>2, <1>5, <2>9, <2>10, SamePages
<1>8. CASE ~MergesNext(i)
  <2>1. blocks' = [blocks EXCEPT ![i].used = FALSE] /\ crossed' = crossed
    BY <1>1, <1>8
  <2> DEFINE b == [blocks[i] EXCEPT !.used = FALSE]
  <2>2. b \in BlockType /\ b.at = blocks[i].at /\ b.size = blocks[i].size
    BY <1>4 DEF BlockType
  <2>3. blocks' = [blocks EXCEPT ![i] = b]
    BY <2>1
  <2> HIDE DEF b
  <2>4. /\ blocks' \in Seq(BlockType) /\ Len(blocks') = Len(blocks)
        /\ \A k \in 1 .. Len(blocks) : blocks'[k] = IF k = i THEN b ELSE blocks[k]
    BY <1>3, <1>4, <2>2, <2>3, ExceptSeq
  <2>5. \A k \in 1 .. Len(blocks) :
          blocks'[k].at = blocks[k].at /\ blocks'[k].size = blocks[k].size
    BY <2>2, <2>4
  <2>6. Apart(blocks') /\ Tiles(blocks', mine)
    BY <1>3, <2>4, <2>5, SameGeometry
  <2>7. Served(blocks', given')
    <3>1. DOMAIN blocks' = 1 .. Len(blocks)
      BY <2>4
    <3> QED BY <1>3, <1>6, <2>4, <3>1 DEF Served
  <2>8. HeapTypeOK'
    BY <1>2, <1>3, <2>1, <2>4 DEF HeapTypeOK
  <2> QED BY <1>2, <1>5, <2>6, <2>7, <2>8, SamePages
<1> QED BY <1>7, <1>8

\* Each of the steps.
LEMMA NextHeapInv == HeapInv /\ [HeapNext]_<<vars, heapVars>> => HeapInv'
<1> SUFFICES ASSUME HeapInv, [HeapNext]_<<vars, heapVars>> PROVE HeapInv'
  OBVIOUS
<1> DEFINE HeapPart ==
      ~crossed => Apart(blocks) /\ Tiles(blocks, mine) /\ Served(blocks, given) /\ OneOwner
<1>1. IInv'
  BY HeapStepIsPmmStep, NextIInv DEF HeapInv
<1>2. CASE OtherCaller
  <2>1. UNCHANGED heapVars /\ mine' \subseteq held'
    BY <1>2 DEF OtherCaller, heapVars
  <2>2. HeapTypeOK' /\ HeapPart'
    BY <2>1 DEF heapVars, HeapInv, HeapTypeOK, OneOwner, Served
  <2> QED BY <1>1, <2>1, <2>2 DEF HeapInv
<1>3. CASE SetUpHeap
  <2>1. CASE PmmAlloc /\ blocks' = <<PageBlock(ret')>> /\ mine' = {ret'}
    <3>1. blocks = <<>> /\ blocks' = Append(blocks, PageBlock(ret'))
      BY <1>3, <2>1 DEF SetUpHeap, HeapUp
    <3> QED BY <1>3, <2>1, <3>1, FirstPage DEF SetUpHeap
  <2>2. CASE PmmAllocFails /\ UNCHANGED <<blocks, mine>>
    <3>1. UNCHANGED heapVars /\ held' = held
      BY <1>3, <2>2 DEF SetUpHeap, PmmAllocFails, heapVars
    <3>2. HeapTypeOK' /\ HeapPart' /\ mine' \subseteq held'
      BY <3>1 DEF heapVars, HeapInv, HeapTypeOK, OneOwner, Served
    <3> QED BY <1>1, <3>2 DEF HeapInv
  <2> QED BY <1>3, <2>1, <2>2 DEF SetUpHeap
<1>4. CASE Kfree
  BY <1>4, KfreeStep
<1>5. CASE Take
  BY <1>5, TakeStep
<1>6. CASE Grow
  BY <1>6, NewPage DEF Grow
<1>7. CASE Fail
  <2>1. wanted' = NoCall /\ UNCHANGED <<blocks, mine, given, crossed>> /\ held' = held
    BY <1>7 DEF Fail, PmmAllocFails
  <2>2. HeapTypeOK' /\ HeapPart' /\ mine' \subseteq held'
    BY <2>1 DEF HeapInv, HeapTypeOK, OneOwner, Served
  <2> QED BY <1>1, <2>2 DEF HeapInv
<1>8. ASSUME NEW size \in Requests, Kmalloc(size)
      PROVE  HeapInv'
  <2>1. wanted' \in Nat /\ UNCHANGED <<vars, blocks, mine, given, crossed>>
    BY <1>8, HeapAssumption DEF Kmalloc
  <2>2. HeapTypeOK' /\ HeapPart' /\ mine' \subseteq held'
    BY <2>1 DEF vars, HeapInv, HeapTypeOK, OneOwner, Served
  <2> QED BY <1>1, <2>2 DEF HeapInv
<1>9. CASE UNCHANGED <<vars, heapVars>>
  <2>1. HeapTypeOK' /\ HeapPart' /\ mine' \subseteq held'
    BY <1>9 DEF vars, heapVars, HeapInv, HeapTypeOK, OneOwner, Served
  <2> QED BY <1>1, <2>1 DEF HeapInv
<1> QED BY <1>2, <1>3, <1>4, <1>5, <1>6, <1>7, <1>8, <1>9 DEF HeapNext, KmallocStep

\* heap_init, kmalloc, kfree and everybody else's pmm_alloc and pmm_free keep it.
THEOREM HeapInvariance == HeapSpec => []HeapInv
BY InitHeapInv, NextHeapInv, PTL DEF HeapSpec

-----------------------------------------------------------------------------
(* The theorems.                                                           *)

\* The heap is one more caller of the page allocator: everything proved of Spec,
\* that no page has two owners and the kernel is never handed out among it,
\* holds with the heap in place.
THEOREM HeapCallsPmm == HeapSpec => Spec
<1>1. HeapInit => Init
  BY DEF HeapInit
<1> QED BY <1>1, HeapStepIsPmmStep, PTL DEF HeapSpec, Spec

\* As long as kfree has merged nothing across pages that are not adjacent, no two
\* owners of memory from kmalloc share a byte, nor does the heap share one with
\* an owner of pages.
THEOREM AllocationsStayApart == HeapSpec => []AllocationsApart
<1>1. HeapInv => AllocationsApart
  <2> SUFFICES ASSUME HeapInv, ~crossed
               PROVE  /\ Served(blocks, given)
                      /\ Apart(blocks)
                      /\ \A i \in DOMAIN blocks : \A p \in Pages :
                           blocks[i].at < (p + 1) * PAGE_SIZE /\ p * PAGE_SIZE < EndOf(blocks[i])
                             => p * PAGE_SIZE \in mine \cap held
    BY Zenon DEF AllocationsApart, Served, Apart
  <2>1. /\ Served(blocks, given) /\ Apart(blocks) /\ Tiles(blocks, mine)
        /\ blocks \in Seq(BlockType) /\ mine \subseteq held
    BY DEF HeapInv, HeapTypeOK
  <2>2. \A p \in Pages : p \in Nat
    BY PmmAssumption DEF Pages, TOTAL_PAGES
  <2>3. \A i \in DOMAIN blocks : \A p \in Pages :
          blocks[i].at < (p + 1) * PAGE_SIZE /\ p * PAGE_SIZE < EndOf(blocks[i])
            => p * PAGE_SIZE \in mine
    BY <2>1, <2>2, PageOfBlock
  <2> QED BY <2>1, <2>3
<1> QED BY <1>1, HeapInvariance, PTL

-----------------------------------------------------------------------------
(***************************************************************************)
(* The sum of the block sizes.  FoldLeft is defined over the sets of       *)
(* indices, by recursion on their largest element; what it computes is the *)
(* number of the pairs of an index and a byte of the block there.          *)
(***************************************************************************)
SumOf(s) == FoldLeft(LAMBDA sum, b : sum + HEADER + b.size, 0, s)

\* The bytes of the blocks with an index in K: <<k, n>> is byte n of block k.
BytesOf(s, K) == {z \in K \X Nat : z[2] < HEADER + s[z[1]].size}

\* The recursion FoldLeft is defined by.
IsSum(g, s) ==
  g = [K \in SUBSET DOMAIN s |->
         IF K = {} THEN 0 ELSE g[K \ {Max(K)}] + HEADER + s[Max(K)].size]

\* What the fold unfolds to.
LEMMA SumOfDef ==
  ASSUME NEW s
  PROVE  SumOf(s) = (CHOOSE g : IsSum(g, s))[DOMAIN s]
BY DEF SumOf, IsSum, FoldLeft, MapThenFoldSet

\* A set of indices has a largest.
LEMMA LargestIndex ==
  ASSUME NEW n \in Nat, NEW K \in SUBSET (1 .. n), K # {}
  PROVE  Max(K) \in K
<1> DEFINE T == {n - k : k \in K}
<1>0. \A k \in K : k \in 1 .. n /\ n - k \in Nat
  OBVIOUS
<1>1. T \subseteq Nat /\ T # {}
  BY <1>0
<1> HIDE DEF T
<1>2. PICK t \in T : \A u \in T : <<u, t>> \notin OpToRel(<, Nat)
  BY <1>1, NatLessThanWellFounded, WFMin
<1>3. \A u \in T : ~(u < t)
  BY <1>1, <1>2 DEF OpToRel
<1>4. PICK k \in K : t = n - k
  BY DEF T
<1>5. ASSUME NEW l \in K PROVE k >= l
  <2>1. n - l \in T
    BY DEF T
  <2>2. ~(n - l < n - k)
    BY <1>3, <1>4, <2>1
  <2> QED BY <1>0, <2>2
<1> QED BY <1>5 DEF Max

\* One block more: its header and its data.
LEMMA BytesOfOneMore ==
  ASSUME NEW s \in Seq(BlockType), NEW K \in SUBSET DOMAIN s, NEW k \in K,
         IsFiniteSet(BytesOf(s, K))
  PROVE  Cardinality(BytesOf(s, K)) =
           Cardinality(BytesOf(s, K \ {k})) + HEADER + s[k].size
<1> DEFINE w == HEADER + s[k].size
           B == BytesOf(s, K \ {k})
           C == {z \in BytesOf(s, K) : z[1] = k}
<1>1. s[k] \in BlockType /\ w \in Nat /\ HEADER \in Nat /\ s[k].size \in Nat
  <2>1. s[k] \in BlockType
    OBVIOUS
  <2> QED BY <2>1, HeapAssumption DEF BlockType
<1>2. BytesOf(s, K) = B \cup C /\ B \cap C = {}
  BY DEF BytesOf
<1>3. B \subseteq BytesOf(s, K) /\ C \subseteq BytesOf(s, K)
  BY <1>2
<1>4. IsFiniteSet(B) /\ IsFiniteSet(C)
  BY <1>3, FS_Subset
<1>5. Cardinality(C) = w
  <2> DEFINE f == [n \in 0 .. w - 1 |-> <<k, n>>]
  <2>1. C = {<<k, n>> : n \in 0 .. w - 1}
    BY <1>1 DEF BytesOf
  <2>2. f \in Bijection(0 .. w - 1, C)
    BY <2>1 DEF Bijection, Injection, Surjection, IsInjective
  <2>3. IsFiniteSet(0 .. w - 1) /\ Cardinality(0 .. w - 1) = w
    <3>1. w - 1 \in Int /\ w \in Nat
      BY <1>1
    <3> HIDE DEF w
    <3>2. /\ IsFiniteSet(0 .. w - 1)
          /\ Cardinality(0 .. w - 1) = IF 0 > w - 1 THEN 0 ELSE w - 1 - 0 + 1
      BY <3>1, FS_Interval
    <3> QED BY <3>1, <3>2
  <2> QED BY <2>2, <2>3, FS_Bijection DEF ExistsBijection
<1>6. Cardinality(B) \in Nat /\ Cardinality(C) \in Nat /\ Cardinality(B \cap C) = 0
  BY <1>2, <1>4, FS_CardinalityType, FS_EmptySet
<1> HIDE DEF B, C
<1>7. Cardinality(B \cup C) = Cardinality(B) + Cardinality(C) - Cardinality(B \cap C)
  BY <1>4, FS_Union
<1> QED BY <1>1, <1>2, <1>5, <1>6, <1>7 DEF B

\* What FoldLeft computes.
LEMMA SumIsCount ==
  ASSUME NEW s \in Seq(BlockType), IsFiniteSet(BytesOf(s, DOMAIN s))
  PROVE  SumOf(s) = Cardinality(BytesOf(s, DOMAIN s))
<1> DEFINE D == DOMAIN s
           count == [K \in SUBSET D |-> Cardinality(BytesOf(s, K))]
<1>1. Len(s) \in Nat /\ D = 1 .. Len(s) /\ IsFiniteSet(D)
  BY FS_Interval
<1>2. Cardinality(BytesOf(s, {})) = 0
  BY FS_EmptySet DEF BytesOf
<1>3. ASSUME NEW K \in SUBSET D, K # {}
      PROVE  /\ Max(K) \in K /\ K \ {Max(K)} \in SUBSET D
             /\ Cardinality(BytesOf(s, K)) =
                  Cardinality(BytesOf(s, K \ {Max(K)})) + HEADER + s[Max(K)].size
  <2>1. Max(K) \in K
    BY <1>1, <1>3, LargestIndex
  <2>2. BytesOf(s, K) \subseteq BytesOf(s, D)
    BY DEF BytesOf
  <2>3. IsFiniteSet(BytesOf(s, K))
    BY <2>2, FS_Subset
  <2> QED BY <2>1, <2>3, BytesOfOneMore
<1>4. IsSum(count, s)
  <2>1. ASSUME NEW K \in SUBSET D
        PROVE  count[K] = IF K = {} THEN 0 ELSE count[K \ {Max(K)}] + HEADER + s[Max(K)].size
    BY <1>2, <1>3
  <2> QED BY <2>1 DEF IsSum
<1> DEFINE g == CHOOSE h : IsSum(h, s)
<1>5. IsSum(g, s)
  BY <1>4
<1> HIDE DEF g, count
<1>6. ASSUME NEW K \in SUBSET D
      PROVE  g[K] = IF K = {} THEN 0 ELSE g[K \ {Max(K)}] + HEADER + s[Max(K)].size
  BY <1>5 DEF IsSum
<1>7. ASSUME NEW K \in SUBSET D
      PROVE  count[K] = IF K = {} THEN 0 ELSE count[K \ {Max(K)}] + HEADER + s[Max(K)].size
  BY <1>4 DEF IsSum
\* no smallest set of indices on which the recursion gives something else
<1> DEFINE Wrong == {K \in SUBSET D : g[K] # count[K]}
<1>8. Wrong = {}
  <2> SUFFICES ASSUME Wrong # {} PROVE FALSE
    OBVIOUS
  <2>1. Wrong \subseteq FiniteSubsetsOf(D)
    BY <1>1, FS_Subset DEF FiniteSubsetsOf
  <2> HIDE DEF Wrong, D
  <2>2. PICK K \in Wrong : \A L \in Wrong : <<L, K>> \notin StrictSubsetOrdering(D)
    BY <2>1, FS_StrictSubsetOrderingWellFounded, WFMin
  <2>3. K \in SUBSET D /\ g[K] # count[K] /\ K # {}
    BY <1>6, <1>7 DEF Wrong
  <2>4. Max(K) \in K /\ K \ {Max(K)} \in SUBSET D
    BY <1>3, <2>3
  <2>5. K \ {Max(K)} \notin Wrong
    <3>1. <<K \ {Max(K)}, K>> \in StrictSubsetOrdering(D)
      BY <2>3, <2>4 DEF StrictSubsetOrdering
    <3> QED BY <2>2, <3>1
  <2>6. g[K \ {Max(K)}] = count[K \ {Max(K)}]
    BY <2>4, <2>5 DEF Wrong
  <2> QED BY <1>6, <1>7, <2>3, <2>6
<1>9. g[D] = count[D]
  BY <1>8
<1> QED BY <1>9, SumOfDef DEF g, count

\* The bytes of the pages of the heap.
HeapBytes == {a \in Nat : PageBase(a) \in mine}

\* Every page is PAGE_SIZE bytes.
LEMMA HeapBytesCount ==
  ASSUME HeapInv
  PROVE  /\ IsFiniteSet(HeapBytes)
         /\ Cardinality(HeapBytes) = Cardinality(mine) * PAGE_SIZE
<1> DEFINE Offsets == 0 .. PAGE_SIZE - 1
           f == [z \in mine \X Offsets |-> z[1] + z[2]]
<1>1. ASSUME NEW a \in mine
      PROVE  \E q \in Nat : a = q * PAGE_SIZE
  BY PmmAssumption DEF HeapInv, IInv, TypeOK, Pages, TOTAL_PAGES
<1>2. IsFiniteSet(mine)
  <2>1. IsFiniteSet(HeldPages)
    BY HeldCount DEF HeapInv, IInv
  <2> DEFINE page == [a \in mine |-> a \div PAGE_SIZE]
  <2>2. page \in Injection(mine, HeldPages)
    <3>1. page \in [mine -> HeldPages]
      BY DEF HeapInv, HeldPages
    <3>2. ASSUME NEW a \in mine, NEW b \in mine, page[a] = page[b]
          PROVE  a = b
      BY <3>2, HeldAddress DEF HeapInv, IInv
    <3> QED BY <3>1, <3>2 DEF Injection, IsInjective
  <2> QED BY <2>1, <2>2, FS_Injection
<1>3. IsFiniteSet(Offsets) /\ Cardinality(Offsets) = PAGE_SIZE
  <2>1. PAGE_SIZE - 1 \in Int /\ ~(0 > PAGE_SIZE - 1) /\ PAGE_SIZE - 1 - 0 + 1 = PAGE_SIZE
    BY DEF PAGE_SIZE
  <2> QED BY <2>1, FS_Interval
<1>4. /\ IsFiniteSet(mine \X Offsets)
      /\ Cardinality(mine \X Offsets) = Cardinality(mine) * PAGE_SIZE
  BY <1>2, <1>3, FS_Product
<1>5. ASSUME NEW a \in mine, NEW n \in Offsets
      PROVE  a + n \in Nat /\ PageBase(a + n) = a /\ a \in Nat /\ n \in Nat
  <2>1. PICK q \in Nat : a = q * PAGE_SIZE
    BY <1>1
  <2>2. q * PAGE_SIZE + n \in Nat /\ q * PAGE_SIZE <= q * PAGE_SIZE + n
        /\ q * PAGE_SIZE + n < (q + 1) * PAGE_SIZE /\ q * PAGE_SIZE \in Nat /\ n \in Nat
    BY DEF PAGE_SIZE
  <2> QED BY <2>1, <2>2, PageBytes
<1>6. ASSUME NEW b \in Nat
      PROVE  /\ b % PAGE_SIZE \in Offsets
             /\ b = PageBase(b) + (b % PAGE_SIZE)
  <2>1. b % 4096 \in 0 .. 4095
    OBVIOUS
  <2>3. b = (b \div 4096) * 4096 + (b % 4096)
    OBVIOUS
  <2>2. PAGE_SIZE = 4096 /\ PAGE_SIZE - 1 = 4095
    BY DEF PAGE_SIZE
  <2> QED BY <2>1, <2>2, <2>3 DEF PageBase
<1> HIDE DEF Offsets
<1>7. f \in Bijection(mine \X Offsets, HeapBytes)
  <2>1. f \in [mine \X Offsets -> HeapBytes]
    BY <1>5 DEF HeapBytes
  <2>2. ASSUME NEW y \in mine \X Offsets, NEW z \in mine \X Offsets, f[y] = f[z]
        PROVE  y = z
    <3>1. /\ y = <<y[1], y[2]>> /\ y[1] \in mine /\ y[2] \in Offsets
          /\ z = <<z[1], z[2]>> /\ z[1] \in mine /\ z[2] \in Offsets
      OBVIOUS
    <3>2. y[1] + y[2] = z[1] + z[2]
      BY <2>2
    <3>3. y[1] = z[1]
      BY <1>5, <3>1, <3>2
    <3>4. y[1] \in Nat /\ y[2] \in Nat /\ z[2] \in Nat
      BY <1>5, <3>1
    <3>5. y[2] = z[2]
      BY <3>2, <3>3, <3>4
    <3> QED BY <3>1, <3>3, <3>5
  <2>3. ASSUME NEW b \in HeapBytes
        PROVE  \E z \in mine \X Offsets : f[z] = b
    <3>1. b \in Nat /\ PageBase(b) \in mine
      BY DEF HeapBytes
    <3>2. PICK p \in mine, n \in Offsets : p + n = b
      BY <1>6, <3>1
    <3>3. <<p, n>> \in mine \X Offsets /\ f[<<p, n>>] = p + n
      OBVIOUS
    <3> QED BY <3>2, <3>3
  <2> HIDE DEF f
  <2> QED BY <2>1, <2>2, <2>3 DEF Bijection, Injection, Surjection, IsInjective
<1> HIDE DEF f
<1>8. ExistsBijection(mine \X Offsets, HeapBytes)
  BY <1>7 DEF ExistsBijection
<1> QED BY <1>4, <1>8, FS_Bijection

\* Every byte of the heap's pages is one byte of one block.
LEMMA BytesOfBlocks ==
  ASSUME HeapInv, ~crossed
  PROVE  ExistsBijection(HeapBytes, BytesOf(blocks, DOMAIN blocks))
<1> DEFINE B == BytesOf(blocks, DOMAIN blocks)
           f == [z \in B |-> blocks[z[1]].at + z[2]]
<1>1. /\ blocks \in Seq(BlockType) /\ Apart(blocks) /\ Tiles(blocks, mine)
      /\ DOMAIN blocks = 1 .. Len(blocks)
  BY DEF HeapInv, HeapTypeOK
<1>2. ASSUME NEW i \in DOMAIN blocks
      PROVE  /\ blocks[i].at \in Nat /\ EndOf(blocks[i]) \in Nat
             /\ EndOf(blocks[i]) = blocks[i].at + (HEADER + blocks[i].size)
             /\ HEADER + blocks[i].size \in Nat
  <2>1. blocks[i] \in BlockType
    BY <1>1
  <2> QED BY <2>1, HeapAssumption DEF BlockType, EndOf
<1>3. ASSUME NEW z \in B
      PROVE  /\ z = <<z[1], z[2]>> /\ z[1] \in DOMAIN blocks /\ z[2] \in Nat
             /\ blocks[z[1]].at + z[2] \in Nat
             /\ Inside(blocks[z[1]], blocks[z[1]].at + z[2])
  <2>1. /\ z = <<z[1], z[2]>> /\ z[1] \in DOMAIN blocks /\ z[2] \in Nat
        /\ z[2] < HEADER + blocks[z[1]].size
    BY DEF BytesOf
  <2> QED BY <1>2, <2>1 DEF Inside
<1>4. ASSUME NEW i \in DOMAIN blocks, NEW a \in Nat, Inside(blocks[i], a)
      PROVE  <<i, a - blocks[i].at>> \in B /\ blocks[i].at + (a - blocks[i].at) = a
  <2>1. a - blocks[i].at \in Nat /\ a - blocks[i].at < HEADER + blocks[i].size
        /\ blocks[i].at + (a - blocks[i].at) = a
    BY <1>2, <1>4 DEF Inside
  <2> QED BY <2>1 DEF BytesOf
<1>5. ASSUME NEW i \in DOMAIN blocks, NEW j \in DOMAIN blocks, NEW a \in Nat,
             Inside(blocks[i], a), Inside(blocks[j], a)
      PROVE  i = j
  <2>1. i # j => EndOf(blocks[i]) <= blocks[j].at \/ EndOf(blocks[j]) <= blocks[i].at
    BY <1>1 DEF Apart
  <2> QED BY <1>2, <1>5, <2>1 DEF Inside
<1> HIDE DEF B
<1>6. f \in Bijection(B, HeapBytes)
  <2>1. ASSUME NEW z \in B PROVE f[z] \in HeapBytes
    <3>1. PageBase(blocks[z[1]].at + z[2]) \in mine
      BY <1>1, <1>3 DEF Tiles
    <3> QED BY <1>3, <3>1 DEF HeapBytes
  <2>2. ASSUME NEW y \in B, NEW z \in B, f[y] = f[z]
        PROVE  y = z
    <3>1. blocks[y[1]].at + y[2] = blocks[z[1]].at + z[2]
      BY <2>2
    <3>2. y[1] = z[1]
      BY <1>3, <1>5, <3>1
    <3>3. y[2] = z[2]
      BY <1>2, <1>3, <3>1, <3>2
    <3> QED BY <1>3, <3>2, <3>3
  <2>3. ASSUME NEW a \in HeapBytes
        PROVE  \E z \in B : f[z] = a
    <3>1. a \in Nat /\ PageBase(a) \in mine
      BY DEF HeapBytes
    <3>2. PICK i \in DOMAIN blocks : Inside(blocks[i], a)
      BY <1>1, <3>1 DEF Tiles
    <3>3. <<i, a - blocks[i].at>> \in B /\ f[<<i, a - blocks[i].at>>] = a
      BY <1>4, <3>1, <3>2
    <3> QED BY <3>3
  <2>4. f \in [B -> HeapBytes]
    BY <2>1
  <2> HIDE DEF f
  <2> QED BY <2>2, <2>3, <2>4 DEF Bijection, Injection, Surjection, IsInjective
<1> HIDE DEF f
<1>7. ExistsBijection(B, HeapBytes)
  BY <1>6 DEF ExistsBijection
<1> QED BY <1>7, Fun_ExistsBijSymmetric DEF B

\* The blocks fill the pages the heap has taken, headers included: a split and a
\* merge lose no byte, whatever the sizes.
THEOREM HeapLosesNothing == HeapSpec => []NothingLost
<1>1. HeapInv => NothingLost
  <2> SUFFICES ASSUME HeapInv, ~crossed
               PROVE  SumOf(blocks) = Cardinality(mine) * PAGE_SIZE
    BY DEF NothingLost, SumOf
  <2>1. /\ IsFiniteSet(HeapBytes)
        /\ Cardinality(HeapBytes) = Cardinality(mine) * PAGE_SIZE
    BY HeapBytesCount
  <2>2. /\ IsFiniteSet(BytesOf(blocks, DOMAIN blocks))
        /\ Cardinality(BytesOf(blocks, DOMAIN blocks)) = Cardinality(HeapBytes)
    BY <2>1, BytesOfBlocks, FS_Bijection
  <2>3. SumOf(blocks) = Cardinality(BytesOf(blocks, DOMAIN blocks))
    BY <2>2, SumIsCount DEF HeapInv, HeapTypeOK
  <2> QED BY <2>1, <2>2, <2>3
<1> QED BY <1>1, HeapInvariance, PTL

-----------------------------------------------------------------------------
(* How long kmalloc can take.                                              *)

\* Only kmalloc steps while it runs, and every turn that does not end it uses up a
\* free page: the recursion is as deep as there are free pages, and one more.
KmallocShortens ==
  [][wanted # NoCall => wanted' = NoCall \/ (wanted' = wanted /\ FreePages' < FreePages)
    ]_<<vars, heapVars>>

\* A page taken is one free page less, and no other page changes.
LEMMA OneFreePageLess == IInv /\ PmmAlloc => FreePages \in Nat /\ FreePages' < FreePages
<1> SUFFICES ASSUME IInv, PmmAlloc PROVE FreePages \in Nat /\ FreePages' < FreePages
  OBVIOUS
<1>1. PICK q \in Pages : IsFree(q) /\ bitmap' = SetUsed(bitmap, q)
  BY AllocPage
<1>2. bitmap \in [Bytes -> SUBSET Bits]
  BY DEF IInv, TypeOK
<1>3. \A p \in Pages : IsFree(p)' <=> IsFree(p) /\ p # q
  BY <1>1, <1>2, SetUsedPage DEF IsFree
<1>4. FreeSet' = FreeSet \ {q} /\ q \in FreeSet
  BY <1>1, <1>3 DEF FreeSet
<1>5. IsFiniteSet(FreeSet)
  <2>1. IsFiniteSet(Pages)
    BY FS_Interval, PmmAssumption DEF Pages, TOTAL_PAGES
  <2> QED BY <2>1, FS_Subset DEF FreeSet
<1>6. Cardinality(FreeSet \ {q}) = Cardinality(FreeSet) - 1 /\ Cardinality(FreeSet) \in Nat
  BY <1>4, <1>5, FS_RemoveElement, FS_CardinalityType
<1> QED BY <1>4, <1>6 DEF FreePages

\* With any amount of memory kmalloc ends after at most as many turns as there are
\* free pages, whatever it was asked for.
THEOREM KmallocIsShort == HeapSpec => KmallocShortens
<1>1. HeapInv /\ [HeapNext]_<<vars, heapVars>> =>
        [wanted # NoCall => wanted' = NoCall \/ (wanted' = wanted /\ FreePages' < FreePages)
        ]_<<vars, heapVars>>
  <2> SUFFICES ASSUME HeapInv, HeapNext, wanted # NoCall, wanted' # NoCall
               PROVE  wanted' = wanted /\ FreePages' < FreePages
    OBVIOUS
  <2>1. Grow \/ \E size \in Requests : Kmalloc(size)
    BY DEF HeapNext, OtherCaller, SetUpHeap, Kfree, KmallocStep, Take, Fail
  <2>2. Grow
    BY <2>1 DEF Kmalloc
  <2> QED BY <2>2, OneFreePageLess DEF Grow, HeapInv
<1> QED BY <1>1, HeapInvariance, PTL DEF HeapSpec, KmallocShortens
=============================================================================
