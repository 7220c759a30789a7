------------------------ MODULE SpanContractProofs ------------------------
(***************************************************************************)
(* The arithmetic of block edges and the algebra of tilings that the       *)
(* proofs about the planner and about the load path share.                 *)
(***************************************************************************)
EXTENDS SpanContract, FiniteSetTheorems, TLAPS

\* The fields of a segment are natural numbers, and so is its end.
LEMMA SegmentFields ==
  \A s \in Segment : /\ s.donor \in Donors /\ s.dstart \in Nat /\ s.tstart \in Nat
                     /\ s.count \in Nat /\ End(s) \in Nat /\ End(s) = s.tstart + s.count
  BY DEF Segment, End

-----------------------------------------------------------------------------
(* Sets of numbers. *)

\* Every set of natural numbers that is not empty has a least member.
LEMMA LeastNumber ==
  ASSUME NEW T, T \subseteq Nat, T # {}
  PROVE  \E x \in T : \A y \in T : x <= y
<1> DEFINE R == {ss \in Nat \X Nat : ss[1] < ss[2]}
<1>1. IsWellFoundedOn(R, Nat)
  BY NatLessThanWellFounded DEF OpToRel
<1>2. \E x \in T : \A y \in T : <<y, x>> \notin R
  <2> HIDE DEF R
  <2> QED
    BY <1>1, WFMin
<1>3. PICK x \in T : \A y \in T : <<y, x>> \notin R
  BY <1>2
<1>4. ASSUME NEW y \in T PROVE x <= y
  <2>1. x \in Nat /\ y \in Nat
    OBVIOUS
  <2>2. ASSUME y < x PROVE <<y, x>> \in R
    <3>1. <<y, x>> \in Nat \X Nat /\ <<y, x>>[1] = y /\ <<y, x>>[2] = x
      BY <2>1
    <3> QED
      BY <2>2, <3>1
  <2> QED
    BY <1>3, <2>1, <2>2
<1> QED
  BY <1>4

\* Every bounded set of natural numbers that is not empty has a greatest member.
LEMMA GreatestNumber ==
  ASSUME NEW n \in Nat, NEW T, T \subseteq 0 .. n, T # {}
  PROVE  \E x \in T : \A y \in T : y <= x
<1> DEFINE U == {n - x : x \in T}
<1>1. U \subseteq Nat /\ U # {}
  <2>1. \A x \in T : n - x \in Nat
    OBVIOUS
  <2>2. PICK x \in T : TRUE
    OBVIOUS
  <2>3. n - x \in U
    OBVIOUS
  <2> QED BY <2>1, <2>3
<1>2. PICK u \in U : \A v \in U : u <= v
  <2> HIDE DEF U
  <2> QED BY <1>1, LeastNumber
<1>3. PICK x \in T : u = n - x
  BY <1>2
<1>4. ASSUME NEW y \in T PROVE y <= x
  <2>1. n - y \in U
    OBVIOUS
  <2>2. n - x <= n - y
    BY <2>1, <1>2, <1>3
  <2>3. x \in Int /\ y \in Int
    OBVIOUS
  <2> QED BY <2>2, <2>3
<1> QED BY <1>4

-----------------------------------------------------------------------------
(* Block edges. *)

\* A multiple of the block size is a block edge.
LEMMA MultipleIsAligned ==
  ASSUME NEW q \in Nat
  PROVE  Aligned(q * BlockSize)
  BY SizeAssumption DEF Aligned

\* A block edge is a multiple of the block size.
LEMMA AlignedIsMultiple ==
  ASSUME NEW n \in Nat, Aligned(n)
  PROVE  n \div BlockSize \in Nat /\ n = (n \div BlockSize) * BlockSize
  BY SizeAssumption DEF Aligned

\* AlignDown is the last block edge that is not past n.
LEMMA AlignDownEdge ==
  ASSUME NEW n \in Nat
  PROVE  /\ AlignDown(n) \in Nat /\ AlignDown(n) <= n
         /\ n < AlignDown(n) + BlockSize /\ Aligned(AlignDown(n))
  BY SizeAssumption DEF AlignDown, Aligned

\* AlignUp is a block edge that is not before n.
LEMMA AlignUpEdge ==
  ASSUME NEW n \in Nat
  PROVE  AlignUp(n) \in Nat /\ n <= AlignUp(n) /\ Aligned(AlignUp(n))
  BY SizeAssumption DEF AlignUp, Aligned

\* The sum of two block edges is a block edge.
LEMMA AlignedSum ==
  ASSUME NEW m \in Nat, NEW n \in Nat, Aligned(m), Aligned(n)
  PROVE  Aligned(m + n)
<1> DEFINE q == m \div BlockSize
           r == n \div BlockSize
<1>1. q \in Nat /\ r \in Nat /\ m = q * BlockSize /\ n = r * BlockSize
  BY AlignedIsMultiple
<1>2. q + r \in Nat /\ m + n = (q + r) * BlockSize
  <2> HIDE DEF q, r
  <2> QED BY <1>1, SizeAssumption
<1> HIDE DEF q, r
<1> QED BY <1>2, MultipleIsAligned

\* No edge lies between AlignDown(n) and n.
LEMMA LastEdge ==
  ASSUME NEW m \in Nat, NEW n \in Nat, Aligned(m), m <= n
  PROVE  m <= AlignDown(n)
<1> DEFINE q == m \div BlockSize
           r == n \div BlockSize
<1>1. q \in Nat /\ m = q * BlockSize
  BY AlignedIsMultiple
<1>2. r \in Nat /\ AlignDown(n) = r * BlockSize
  BY SizeAssumption DEF AlignDown
<1>3. n < (r + 1) * BlockSize
  BY AlignDownEdge, <1>2, SizeAssumption DEF AlignDown
<1> HIDE DEF q, r
<1>4. q < r + 1
  <2>1. SUFFICES ASSUME q >= r + 1 PROVE FALSE
    BY <1>1, <1>2
  <2>2. q * BlockSize >= (r + 1) * BlockSize
    BY <2>1, <1>1, <1>2, SizeAssumption
  <2> QED BY <2>2, <1>1, <1>3, <1>2, SizeAssumption
<1>5. q * BlockSize <= r * BlockSize
  BY <1>4, <1>1, <1>2, SizeAssumption
<1> QED BY <1>5, <1>1, <1>2

\* AlignUp leaves a block edge where it is.
LEMMA AlignUpOfAligned ==
  ASSUME NEW n \in Nat, Aligned(n)
  PROVE  AlignUp(n) = n
<1> DEFINE q == n \div BlockSize
           m == n + BlockSize - 1
<1>1. q \in Nat /\ n = q * BlockSize
  BY AlignedIsMultiple
<1>2. m \in Nat /\ n <= m /\ m < n + BlockSize
  BY SizeAssumption
<1>3. AlignUp(n) = AlignDown(m)
  BY DEF AlignUp, AlignDown
<1>4. n <= AlignDown(m) /\ AlignDown(m) <= m
  BY <1>2, LastEdge, AlignDownEdge
<1>5. AlignDown(m) \in Nat /\ Aligned(AlignDown(m))
  BY <1>2, AlignDownEdge
<1> DEFINE r == AlignDown(m) \div BlockSize
<1>6. r \in Nat /\ AlignDown(m) = r * BlockSize
  BY <1>5, AlignedIsMultiple
<1> HIDE DEF q, m, r
<1>7. r * BlockSize < (q + 1) * BlockSize
  BY <1>1, <1>2, <1>4, <1>6, SizeAssumption
<1>8. r < q + 1
  <2>1. SUFFICES ASSUME r >= q + 1 PROVE FALSE
    BY <1>1, <1>6
  <2>2. r * BlockSize >= (q + 1) * BlockSize
    BY <2>1, <1>1, <1>6, SizeAssumption
  <2> QED BY <2>2, <1>7, <1>1, <1>6, SizeAssumption
<1>9. r * BlockSize <= q * BlockSize
  BY <1>8, <1>1, <1>6, SizeAssumption
<1> QED BY <1>9, <1>1, <1>3, <1>4, <1>5, <1>6

\* The cacheable prefix ends on a block edge.
LEMMA CacheableEdge ==
  CacheablePrefixTokens \in Nat /\ Aligned(CacheablePrefixTokens)
<1>1. CASE PromptTokens <= 1
  <2>1. CacheablePrefixTokens = 0
    BY <1>1 DEF CacheablePrefixTokens, Cacheable
  <2> QED BY <2>1, SizeAssumption DEF Aligned
<1>2. CASE ~(PromptTokens <= 1)
  <2>1. PromptTokens - 2 \in Nat
    BY <1>2, SizeAssumption
  <2>2. CacheablePrefixTokens = AlignDown(PromptTokens - 2)
    BY <1>2 DEF CacheablePrefixTokens, Cacheable, AlignDown
  <2> QED BY <2>1, <2>2, AlignDownEdge
<1> QED BY <1>1, <1>2

\* What is left below the cacheable prefix ends on a block edge.
LEMMA HeadroomEdge ==
  ASSUME NEW b \in Nat, Aligned(b)
  PROVE  /\ Headroom(b) \in Nat /\ Aligned(b + Headroom(b))
         /\ Headroom(b) = 0 \/ b + Headroom(b) = CacheablePrefixTokens
<1>1. CASE CacheablePrefixTokens > b
  BY <1>1, CacheableEdge DEF Headroom, Greater
<1>2. CASE CacheablePrefixTokens <= b
  BY <1>2, CacheableEdge DEF Headroom, Greater
<1> QED BY <1>1, <1>2, CacheableEdge

-----------------------------------------------------------------------------
(* Tilings. *)

\* trim_pieces keeps where a piece starts and only shortens it.
LEMMA TrimmedPiece ==
  ASSUME NEW ps \in SUBSET Segment, NEW f \in Nat,
         NEW p \in TrimPieces(ps, f)
  PROVE  /\ p \in Segment /\ p.count > 0
         /\ \E q \in ps : /\ p.donor = q.donor /\ p.dstart = q.dstart
                         /\ p.tstart = q.tstart /\ p.count <= q.count
                         /\ End(p) = Lesser(End(q), f)
<1>1. PICK q \in ps : /\ Lesser(q.count, f - q.tstart) > 0
                      /\ p = [q EXCEPT !.count = Lesser(q.count, f - q.tstart)]
  BY DEF TrimPieces
<1>2. q \in Segment
  OBVIOUS
<1>3. q.count \in Nat /\ q.tstart \in Nat /\ q.dstart \in Nat /\ q.donor \in Donors
  BY <1>2 DEF Segment
<1> DEFINE c == Lesser(q.count, f - q.tstart)
<1>4. c \in Nat /\ c > 0 /\ c <= q.count /\ q.tstart + c = Lesser(q.tstart + q.count, f)
  BY <1>1, <1>3 DEF Lesser
<1>5. /\ p.donor = q.donor /\ p.dstart = q.dstart /\ p.tstart = q.tstart
      /\ p.count = c
  BY <1>1, <1>2 DEF Segment
<1>6. p = [donor |-> q.donor, dstart |-> q.dstart, tstart |-> q.tstart, count |-> c]
  BY <1>1, <1>2 DEF Segment
<1> HIDE DEF c
<1>7. p \in Segment
  BY <1>3, <1>4, <1>6 DEF Segment
<1>8. End(p) = Lesser(End(q), f)
  BY <1>4, <1>5 DEF End
<1> QED BY <1>4, <1>5, <1>7, <1>8

\* Cutting a tiling off leaves a tiling of what is left.
LEMMA TrimTiles ==
  ASSUME NEW ps \in SUBSET Segment, NEW b \in Nat, NEW e \in Nat, NEW f \in Nat,
         Tiles(ps, b, e)
  PROVE  Tiles(TrimPieces(ps, f), b, Lesser(e, f))
<1> DEFINE ts == TrimPieces(ps, f)
<1>t. \A p \in Segment : p.tstart \in Nat /\ p.count \in Nat /\ End(p) \in Nat
                            /\ End(p) = p.tstart + p.count
  BY DEF Segment, End
<1>1. ASSUME NEW p \in ts
      PROVE  p.count > 0 /\ b <= p.tstart /\ End(p) <= Lesser(e, f)
  <2>1. PICK q \in ps : p.tstart = q.tstart /\ End(p) = Lesser(End(q), f)
    BY TrimmedPiece
  <2>2. p.count > 0
    BY TrimmedPiece
  <2>3. b <= q.tstart /\ End(q) <= e /\ End(q) \in Nat
    BY <1>t DEF Tiles
  <2> QED BY <2>1, <2>2, <2>3 DEF Lesser
<1>2. ASSUME NEW x \in b .. Lesser(e, f) - 1
      PROVE  \E p \in ts : x \in p.tstart .. End(p) - 1
  <2>1. x \in b .. e - 1 /\ x < f /\ x \in Nat
    BY DEF Lesser
  <2>2. PICK q \in ps : x \in q.tstart .. End(q) - 1
    BY <2>1 DEF Tiles
  <2>3. q \in Segment /\ q.tstart <= x /\ x < End(q)
    BY <2>1, <2>2, <1>t
  <2> DEFINE c == Lesser(q.count, f - q.tstart)
             p == [q EXCEPT !.count = c]
  <2>4. c > 0 /\ x < q.tstart + c
    BY <2>1, <2>3, <1>t DEF Lesser
  <2>5. p \in ts
    BY <2>4 DEF TrimPieces
  <2>6. p.tstart = q.tstart /\ p.count = c
    BY <2>3 DEF Segment
  <2> HIDE DEF c, p
  <2>7. p \in Segment
    BY <2>5, TrimmedPiece
  <2>8. End(p) = q.tstart + c
    BY <2>6, <2>7, <1>t
  <2>9. x \in p.tstart .. End(p) - 1
    BY <2>1, <2>3, <2>4, <2>6, <2>7, <2>8, <1>t
  <2> QED BY <2>5, <2>9
<1>3. ASSUME NEW p \in ts, NEW r \in ts
      PROVE  p = r \/ End(p) <= r.tstart \/ End(r) <= p.tstart
  <2>1. PICK q \in ps : p = [q EXCEPT !.count = Lesser(q.count, f - q.tstart)]
    BY DEF TrimPieces
  <2>2. PICK s \in ps : r = [s EXCEPT !.count = Lesser(s.count, f - s.tstart)]
    BY DEF TrimPieces
  <2>3. q = s \/ End(q) <= s.tstart \/ End(s) <= q.tstart
    BY DEF Tiles
  <2>4. /\ p.tstart = q.tstart /\ p.count = Lesser(q.count, f - q.tstart)
        /\ r.tstart = s.tstart /\ r.count = Lesser(s.count, f - s.tstart)
    BY <2>1, <2>2 DEF Segment
  <2>5. p \in Segment /\ r \in Segment
    BY TrimmedPiece
  <2>6. p.count <= q.count /\ r.count <= s.count
    BY <2>4, <1>t DEF Lesser
  <2>7. End(p) <= End(q) /\ End(r) <= End(s)
    BY <2>4, <2>5, <2>6, <1>t
  <2>8. CASE q = s
    BY <2>8, <2>1, <2>2
  <2>9. CASE End(q) <= s.tstart \/ End(s) <= q.tstart
    BY <2>9, <2>4, <2>5, <2>7, <1>t
  <2> QED BY <2>3, <2>8, <2>9
<1> HIDE DEF ts
<1>4. Tiles(ts, b, Lesser(e, f))
  BY <1>1, <1>2, <1>3 DEF Tiles
<1> QED BY <1>4 DEF ts

\* No pieces cover the empty range.
LEMMA EmptyTiles ==
  ASSUME NEW b \in Nat
  PROVE  Tiles({}, b, b)
  BY DEF Tiles

\* A piece that starts where a tiling ends extends it.
LEMMA ExtendTiles ==
  ASSUME NEW ps \in SUBSET Segment, NEW b \in Nat, NEW e \in Nat,
         NEW p \in Segment, b <= e, p.tstart = e, p.count > 0,
         Tiles(ps, b, e)
  PROVE  Tiles(ps \cup {p}, b, End(p))
<1>t. \A q \in Segment : q.tstart \in Nat /\ q.count \in Nat /\ End(q) \in Nat
                            /\ End(q) = q.tstart + q.count
  BY DEF Segment, End
<1>1. \A q \in ps \cup {p} : q.count > 0 /\ b <= q.tstart /\ End(q) <= End(p)
  BY <1>t DEF Tiles
<1>2. ASSUME NEW x \in b .. End(p) - 1
      PROVE  \E q \in ps \cup {p} : x \in q.tstart .. End(q) - 1
  <2>1. CASE x < e
    BY <2>1, <1>t DEF Tiles
  <2>2. CASE x >= e
    BY <2>2, <1>t
  <2> QED BY <2>1, <2>2, <1>t
<1>3. \A q, r \in ps \cup {p} : q = r \/ End(q) <= r.tstart \/ End(r) <= q.tstart
  BY <1>t DEF Tiles
<1> QED BY <1>1, <1>2, <1>3 DEF Tiles
\* The tokens of a tiling are the positions it covers, however many pieces it
\* is made of.
LEMMA TokensOfTiling ==
  ASSUME NEW ps \in SUBSET Segment, NEW b \in Nat, NEW e \in Nat, b <= e,
         Tiles(ps, b, e)
  PROVE  Tokens(ps) = e - b
<1> DEFINE S == b .. e - 1
           T == UNION {{p} \X (1 .. p.count) : p \in ps}
           At(x) == CHOOSE p \in ps : x \in p.tstart .. End(p) - 1
           f == [x \in S |-> <<At(x), x - At(x).tstart + 1>>]
<1>t. \A p \in ps : p.tstart \in Nat /\ p.count \in Nat /\ End(p) \in Nat
                      /\ End(p) = p.tstart + p.count
  BY SegmentFields
<1>1. ASSUME NEW x \in S
      PROVE  /\ At(x) \in ps /\ x \in Nat
             /\ At(x).tstart <= x /\ x < At(x).tstart + At(x).count
  <2>1. \E p \in ps : x \in p.tstart .. End(p) - 1
    BY DEF Tiles
  <2>2. At(x) \in ps /\ x \in At(x).tstart .. End(At(x)) - 1
    BY <2>1
  <2> HIDE DEF At
  <2> QED
    BY <2>2, <1>t
<1>2. ASSUME NEW p \in ps, NEW i \in 1 .. p.count
      PROVE  <<p, i>> \in T
  BY <1>2
<1>3. ASSUME NEW t \in T
      PROVE  \E p \in ps : \E i \in 1 .. p.count : t = <<p, i>>
  BY <1>3
<1> HIDE DEF At, T
<1>4. f \in [S -> T]
  <2>1. ASSUME NEW x \in S PROVE <<At(x), x - At(x).tstart + 1>> \in T
    <3>1. At(x) \in ps /\ x - At(x).tstart + 1 \in 1 .. At(x).count
      BY <1>1, <1>t
    <3> QED
      BY <3>1, <1>2
  <2> QED
    BY <2>1
<1>5. ASSUME NEW x \in S, NEW y \in S, f[x] = f[y]
      PROVE  x = y
  <2>1. At(x) = At(y) /\ x - At(x).tstart + 1 = y - At(y).tstart + 1
    BY <1>5
  <2> QED
    BY <2>1, <1>1, <1>t
<1>6. ASSUME NEW t \in T
      PROVE  \E x \in S : f[x] = t
  <2>p. PICK p \in ps : \E i \in 1 .. p.count : t = <<p, i>>
    BY <1>3
  <2>1. PICK i \in 1 .. p.count : t = <<p, i>>
    BY <2>p
  <2> DEFINE x == p.tstart + i - 1
  <2>2. b <= p.tstart /\ End(p) <= e
    BY DEF Tiles
  <2>3. x \in S /\ p.tstart <= x /\ x < End(p)
    BY <2>2, <1>t
  <2>4. At(x) = p
    <3>1. At(x) \in ps /\ At(x).tstart <= x /\ x < End(At(x))
      BY <2>3, <1>1, <1>t
    <3>2. p = At(x) \/ End(p) <= At(x).tstart \/ End(At(x)) <= p.tstart
      BY <3>1 DEF Tiles
    <3> HIDE DEF x
    <3>3. x \in Nat
      BY <2>3
    <3> QED
      BY <3>1, <3>2, <3>3, <2>3, <1>t
  <2>5. x - p.tstart + 1 = i
    BY <1>t
  <2>6. f[x] = <<p, i>>
    BY <2>3, <2>4, <2>5
  <2> QED
    BY <2>1, <2>3, <2>6
<1>7. ExistsBijection(S, T)
  <2> HIDE DEF f, S
  <2>1. f \in Injection(S, T)
    BY <1>4, <1>5 DEF Injection, IsInjective
  <2>2. f \in Surjection(S, T)
    BY <1>4, <1>6 DEF Surjection
  <2> QED
    BY <2>1, <2>2 DEF ExistsBijection, Bijection
<1>8. IsFiniteSet(S) /\ Cardinality(S) = e - b
  <2>1. e - 1 \in Int /\ b \in Int
    OBVIOUS
  <2>2. IsFiniteSet(S) /\ Cardinality(S) = IF b > e - 1 THEN 0 ELSE e - 1 - b + 1
    BY <2>1, FS_Interval
  <2> HIDE DEF S
  <2> QED
    BY <2>2
<1>9. Cardinality(T) = Cardinality(S)
  BY <1>7, <1>8, FS_Bijection
<1> QED
  BY <1>8, <1>9 DEF T, Tokens
=============================================================================
