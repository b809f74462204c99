------------------------- MODULE ChunkManagerProofs --------------------------
(***************************************************************************)
(* Proofs about ChunkManager.  The invariant is stated of any set of       *)
(* places and any counts (Good).  Every step is a pop or a push of stacks, *)
(* and one of three things to the places: a chunk is replaced by parts of  *)
(* itself in other places (Replace), given up (GiveUp), or the chunks of a *)
(* new region are added (NewRegion).                                       *)
(***************************************************************************)
EXTENDS ChunkManager, FiniteSetTheorems, SequenceTheorems, TLAPS

-----------------------------------------------------------------------------
(* The end of a stack.                                                     *)
LEMMA Ends ==
  ASSUME NEW S, NEW s \in Seq(S), s # <<>>
  PROVE  /\ Len(s) \in Nat \ {0}
         /\ Last(s) = s[Len(s)] /\ Last(s) \in S
         /\ Front(s) \in Seq(S) /\ Len(Front(s)) = Len(s) - 1
         /\ \A i \in 1 .. Len(s) - 1 : Front(s)[i] = s[i]
  <1>1. Len(s) \in Nat \ {0}
    BY EmptySeq, LenProperties
  <1>2. Last(s) = s[Len(s)] /\ s[Len(s)] \in S
    BY <1>1, ElementOfSeq DEF Last
  <1> DEFINE n == Len(s) - 1
  <1>3. Front(s) = SubSeq(s, 1, n)
    BY DEF Front
  <1>4. n \in Nat /\ \A i \in 1 .. n : s[i] \in S
    BY <1>1, ElementOfSeq
  <1> HIDE DEF n
  <1>5. /\ SubSeq(s, 1, n) \in Seq(S) /\ Len(SubSeq(s, 1, n)) = (IF 1 <= n THEN n - 1 + 1 ELSE 0)
        /\ \A i \in 1 .. n - 1 + 1 : SubSeq(s, 1, n)[i] = s[1 + i - 1]
    BY <1>4, SubSeqProperties
  <1>6. Len(Front(s)) = n /\ \A i \in 1 .. n : Front(s)[i] = s[i]
    BY <1>3, <1>4, <1>5
  <1> QED
    BY <1>1, <1>2, <1>3, <1>5, <1>6 DEF n

(* The numbers of the elements of a sequence.                              *)
LEMMA Indices ==
  ASSUME NEW S, NEW s \in Seq(S)
  PROVE  /\ Len(s) \in Nat /\ DOMAIN s = 1 .. Len(s)
         /\ \A i \in 1 .. Len(s) : s[i] \in S
  BY LenProperties, ElementOfSeq

-----------------------------------------------------------------------------
(* A chunk in a place.                                                     *)
At(tag, i, c) == [place |-> <<tag, i>>, chunk |-> c]
Row(tag, s) == {At(tag, i, s[i]) : i \in DOMAIN s}
CallRow(s) == {At("call", i, s[i].chunk) : i \in DOMAIN s}
CarvedRow(cv) == {At("carved", k.size, k.chunk) : k \in cv}
PlacesOf(fc, fl, cs, cv) ==
  Row("common", fc) \union Row("large", fl) \union CallRow(cs) \union CarvedRow(cv)

(* A place is known by its kind, its number and the chunk in it.           *)
LEMMA AtIs ==
  /\ \A t, i, c : At(t, i, c).chunk = c
  /\ \A t, i, c, u, j, d : At(t, i, c) = At(u, j, d) => t = u /\ i = j /\ c = d
  <1>1. \A t, i, c : At(t, i, c).chunk = c
    BY DEF At
  <1>2. ASSUME NEW t, NEW i, NEW c, NEW u, NEW j, NEW d, At(t, i, c) = At(u, j, d)
        PROVE  t = u /\ i = j /\ c = d
    <2>1. At(t, i, c).place = <<t, i>> /\ At(u, j, d).place = <<u, j>>
      BY DEF At
    <2>2. c = d
      BY <1>1, <1>2
    <2> QED
      BY <1>2, <2>1, <2>2
  <1> QED
    BY <1>1, <1>2

(* The places of this state and of the next, as a function of the          *)
(* variables.                                                              *)
LEMMA PlacesAre ==
  /\ Places = PlacesOf(free_common_chunks, free_large_chunks, calls, carved)
  /\ Places' = PlacesOf(free_common_chunks', free_large_chunks', calls', carved')
  BY DEF Places, PlacesOf, Row, CallRow, CarvedRow, At

(* The places of a stack.                                                  *)
LEMMA RowIs ==
  ASSUME NEW S, NEW s \in Seq(S), NEW t
  PROVE  /\ \A i \in 1 .. Len(s) : At(t, i, s[i]) \in Row(t, s)
         /\ \A p \in Row(t, s) : \E i \in 1 .. Len(s) : p = At(t, i, s[i])
  BY Indices DEF Row

(* A pop takes the last place of a stack away.                             *)
LEMMA FrontRow ==
  ASSUME NEW S, NEW s \in Seq(S), s # <<>>, NEW t
  PROVE  /\ At(t, Len(s), Last(s)) \in Row(t, s)
         /\ Row(t, Front(s)) \subseteq Row(t, s) \ {At(t, Len(s), Last(s))}
  <1>1. /\ Len(s) \in Nat \ {0} /\ Last(s) = s[Len(s)]
        /\ Front(s) \in Seq(S) /\ Len(Front(s)) = Len(s) - 1
        /\ \A i \in 1 .. Len(s) - 1 : Front(s)[i] = s[i]
    BY Ends
  <1>2. At(t, Len(s), Last(s)) \in Row(t, s)
    BY <1>1, RowIs
  <1>3. ASSUME NEW p \in Row(t, Front(s))
        PROVE  p \in Row(t, s) /\ p # At(t, Len(s), Last(s))
    <2>1. PICK i \in 1 .. Len(Front(s)) : p = At(t, i, Front(s)[i])
      BY <1>1, RowIs
    <2>2. i \in 1 .. Len(s) /\ i # Len(s) /\ Front(s)[i] = s[i]
      BY <1>1, <2>1
    <2>3. p \in Row(t, s)
      BY <2>1, <2>2, RowIs
    <2> QED
      BY <2>1, <2>2, <2>3, AtIs
  <1> QED
    BY <1>2, <1>3

(* A push adds one place.                                                  *)
LEMMA AppendRow ==
  ASSUME NEW S, NEW s \in Seq(S), NEW e \in S, NEW t
  PROVE  Row(t, Append(s, e)) \subseteq Row(t, s) \union {At(t, Len(s) + 1, e)}
  <1>1. /\ Append(s, e) \in Seq(S) /\ Len(Append(s, e)) = Len(s) + 1
        /\ \A i \in 1 .. Len(s) : Append(s, e)[i] = s[i]
        /\ Append(s, e)[Len(s) + 1] = e
    BY AppendProperties
  <1>2. ASSUME NEW p \in Row(t, Append(s, e))
        PROVE  p \in Row(t, s) \/ p = At(t, Len(s) + 1, e)
    <2>1. PICK i \in 1 .. Len(Append(s, e)) : p = At(t, i, Append(s, e)[i])
      BY <1>1, RowIs
    <2>2. CASE i = Len(s) + 1
      BY <1>1, <2>1, <2>2
    <2>3. CASE i # Len(s) + 1
      <3>1. i \in 1 .. Len(s)
        BY <1>1, <2>1, <2>3, Indices
      <3> QED
        BY <1>1, <2>1, <3>1, RowIs
    <2> QED
      BY <2>2, <2>3
  <1> QED
    BY <1>2

(* extend_from_slice adds one place for every element.                     *)
LEMMA ConcatRow ==
  ASSUME NEW S, NEW s \in Seq(S), NEW u \in Seq(S), NEW t
  PROVE  Row(t, s \o u) \subseteq
           Row(t, s) \union {At(t, Len(s) + i, u[i]) : i \in 1 .. Len(u)}
  <1>1. /\ s \o u \in Seq(S) /\ Len(s \o u) = Len(s) + Len(u)
        /\ \A i \in 1 .. Len(s) + Len(u) :
             (s \o u)[i] = IF i <= Len(s) THEN s[i] ELSE u[i - Len(s)]
    BY ConcatProperties
  <1>0. Len(s) \in Nat /\ Len(u) \in Nat
    BY Indices
  <1>2. ASSUME NEW p \in Row(t, s \o u)
        PROVE  p \in Row(t, s) \/ \E j \in 1 .. Len(u) : p = At(t, Len(s) + j, u[j])
    <2>1. PICK i \in 1 .. Len(s \o u) : p = At(t, i, (s \o u)[i])
      BY <1>1, RowIs
    <2>2. CASE i <= Len(s)
      <3>1. i \in 1 .. Len(s) /\ (s \o u)[i] = s[i]
        BY <1>0, <1>1, <2>1, <2>2
      <3> QED
        BY <2>1, <3>1, RowIs
    <2>3. CASE ~(i <= Len(s))
      <3> DEFINE j == i - Len(s)
      <3>1. j \in 1 .. Len(u) /\ (s \o u)[i] = u[j] /\ i = Len(s) + j
        BY <1>0, <1>1, <2>1, <2>3
      <3> HIDE DEF j
      <3> QED
        BY <2>1, <3>1
    <2> QED
      BY <2>2, <2>3
  <1> QED
    BY <1>2

(* The same of the chunks that calls hold.                                 *)
LEMMA CallFront ==
  ASSUME NEW S, NEW s \in Seq(S), s # <<>>
  PROVE  /\ At("call", Len(s), Last(s).chunk) \in CallRow(s)
         /\ CallRow(Front(s)) \subseteq CallRow(s) \ {At("call", Len(s), Last(s).chunk)}
  <1>1. /\ Len(s) \in Nat \ {0} /\ Last(s) = s[Len(s)]
        /\ Front(s) \in Seq(S) /\ Len(Front(s)) = Len(s) - 1
        /\ \A i \in 1 .. Len(s) - 1 : Front(s)[i] = s[i]
    BY Ends
  <1>2. DOMAIN s = 1 .. Len(s) /\ DOMAIN Front(s) = 1 .. Len(s) - 1
    BY <1>1, Indices
  <1>3. At("call", Len(s), Last(s).chunk) \in CallRow(s)
    BY <1>1, <1>2 DEF CallRow
  <1>4. ASSUME NEW p \in CallRow(Front(s))
        PROVE  p \in CallRow(s) /\ p # At("call", Len(s), Last(s).chunk)
    <2>1. PICK i \in DOMAIN Front(s) : p = At("call", i, Front(s)[i].chunk)
      BY DEF CallRow
    <2>2. i \in DOMAIN s /\ i # Len(s) /\ Front(s)[i] = s[i]
      BY <1>1, <1>2, <2>1
    <2>3. p \in CallRow(s)
      BY <2>1, <2>2 DEF CallRow
    <2> QED
      BY <2>1, <2>2, <2>3, AtIs
  <1> QED
    BY <1>3, <1>4

(* A call that begins adds one place.                                      *)
LEMMA CallAppend ==
  ASSUME NEW S, NEW s \in Seq(S), NEW e \in S
  PROVE  CallRow(Append(s, e)) \subseteq CallRow(s) \union {At("call", Len(s) + 1, e.chunk)}
  <1>1. /\ Append(s, e) \in Seq(S) /\ Len(Append(s, e)) = Len(s) + 1
        /\ \A i \in 1 .. Len(s) : Append(s, e)[i] = s[i]
        /\ Append(s, e)[Len(s) + 1] = e
    BY AppendProperties
  <1>2. DOMAIN s = 1 .. Len(s) /\ DOMAIN Append(s, e) = 1 .. Len(s) + 1 /\ Len(s) \in Nat
    BY <1>1, Indices
  <1>3. ASSUME NEW p \in CallRow(Append(s, e))
        PROVE  p \in CallRow(s) \/ p = At("call", Len(s) + 1, e.chunk)
    <2>1. PICK i \in DOMAIN Append(s, e) : p = At("call", i, Append(s, e)[i].chunk)
      BY DEF CallRow
    <2>2. CASE i = Len(s) + 1
      BY <1>1, <2>1, <2>2
    <2>3. CASE i # Len(s) + 1
      <3>1. i \in DOMAIN s /\ Append(s, e)[i] = s[i]
        BY <1>1, <1>2, <2>1, <2>3
      <3> QED
        BY <2>1, <3>1 DEF CallRow
    <2> QED
      BY <2>2, <2>3
  <1> QED
    BY <1>3

(* Places of one kind are none of another.                                 *)
LEMMA Kinds ==
  /\ \A t, s : \A p \in Row(t, s) : \E i, c : p = At(t, i, c)
  /\ \A s : \A p \in CallRow(s) : \E i, c : p = At("call", i, c)
  /\ \A cv : \A p \in CarvedRow(cv) : \E i, c : p = At("carved", i, c)
  BY DEF Row, CallRow, CarvedRow

-----------------------------------------------------------------------------
(* What is true of the units of a chunk.                                   *)
LEMMA UnitsAre ==
  ASSUME NEW c \in Chunk
  PROVE  /\ c.width \in Nat \ {0} /\ c.unit \in Nat /\ c.region \in Regions
         /\ <<c.region, c.unit>> \in Units(c)
         /\ \A x \in Units(c) : \E u \in c.unit .. c.unit + c.width - 1 : x = <<c.region, u>>
         /\ \A u \in c.unit .. c.unit + c.width - 1 : <<c.region, u>> \in Units(c)
         /\ IsFiniteSet(Units(c)) /\ Cardinality(Units(c)) = c.width
  <1>1. c.width \in Nat \ {0} /\ c.unit \in Nat /\ c.region \in Regions
    BY DEF Chunk
  <1> DEFINE I == c.unit .. c.unit + c.width - 1
             f == [u \in I |-> <<c.region, u>>]
  <1>2. /\ \A x \in Units(c) : \E u \in I : x = <<c.region, u>>
        /\ \A u \in I : <<c.region, u>> \in Units(c)
    BY DEF Units
  <1>3. c.unit \in I
    BY <1>1
  <1>4. IsFiniteSet(I) /\ Cardinality(I) = c.width
    <2> DEFINE a == c.unit
               b == c.unit + c.width - 1
    <2>1. a \in Int /\ b \in Int /\ ~(a > b) /\ b - a + 1 = c.width
      BY <1>1
    <2> HIDE DEF a, b
    <2>2. IsFiniteSet(a .. b) /\ Cardinality(a .. b) = b - a + 1
      BY <2>1, FS_Interval
    <2> QED
      BY <2>1, <2>2 DEF a, b
  <1> HIDE DEF I
  <1>5. f \in Bijection(I, Units(c))
    <2>1. f \in [I -> Units(c)]
      BY <1>2
    <2>2. f \in Injection(I, Units(c))
      BY <2>1 DEF Injection, IsInjective
    <2>3. f \in Surjection(I, Units(c))
      BY <1>2, <2>1 DEF Surjection
    <2> QED
      BY <2>2, <2>3 DEF Bijection
  <1>6. ExistsBijection(I, Units(c))
    BY <1>5 DEF ExistsBijection
  <1>7. IsFiniteSet(Units(c)) /\ Cardinality(Units(c)) = c.width
    BY <1>4, <1>6, FS_Bijection
  <1> QED
    BY <1>1, <1>2, <1>3, <1>7 DEF I

-----------------------------------------------------------------------------
(* The invariant, of any set of places and any counts.                     *)
Body(r) == {r} \X (1 .. MAX_COMMON_CHUNKS_IN_REGION)
UnitsIn(P, r) == UNION {Units(p.chunk) : p \in {q \in P : q.chunk.region = r}}
Apart(p, q) == Units(p.chunk) \intersect Units(q.chunk) = {}
Inside(p, occ) ==
  /\ p.chunk \in Chunk
  /\ p.chunk.region \in DOMAIN occ
  /\ Units(p.chunk) \subseteq Body(p.chunk.region)
Covers(P, occ) == \A r \in DOMAIN occ : Cardinality(UnitsIn(P, r)) <= occ[r]
Good(P, occ) ==
  /\ \A p \in P : Inside(p, occ)
  /\ \A p, q \in P : p # q => Apart(p, q)
  /\ Covers(P, occ)
Counts(occ) == \A r \in DOMAIN occ : r \in Regions /\ occ[r] \in Nat

(* The constants of a region.                                              *)
LEMMA RegionIs ==
  /\ COMMON_CHUNKS_IN_LARGE_CHUNK \in Nat \ {0} /\ LARGE_CHUNKS_IN_REGION \in Nat \ {0}
  /\ REST_COMMON_CHUNKS_IN_REGION \in Nat
  /\ REST_COMMON_CHUNKS_IN_REGION = COMMON_CHUNKS_IN_LARGE_CHUNK - 1
  /\ MAX_COMMON_CHUNKS_IN_REGION \in Nat
  /\ MAX_COMMON_CHUNKS_IN_REGION =
       LARGE_CHUNKS_IN_REGION * COMMON_CHUNKS_IN_LARGE_CHUNK + COMMON_CHUNKS_IN_LARGE_CHUNK - 1
  <1>1. COMMON_CHUNKS_IN_LARGE_CHUNK \in Nat \ {0} /\ LARGE_CHUNKS_IN_REGION \in Nat \ {0}
    BY RegionAssumption
  <1>2. LARGE_CHUNKS_IN_REGION * COMMON_CHUNKS_IN_LARGE_CHUNK \in Nat
    BY <1>1
  <1> QED
    BY <1>1, <1>2 DEF REST_COMMON_CHUNKS_IN_REGION, MAX_COMMON_CHUNKS_IN_REGION

(* A region has as many units as chunks at most.                           *)
LEMMA BodyIs ==
  ASSUME NEW r
  PROVE  IsFiniteSet(Body(r)) /\ Cardinality(Body(r)) = MAX_COMMON_CHUNKS_IN_REGION
  <1> DEFINE n == MAX_COMMON_CHUNKS_IN_REGION
             f == [u \in 1 .. n |-> <<r, u>>]
  <1>1. n \in Nat
    BY RegionIs
  <1>2. IsFiniteSet(1 .. n) /\ Cardinality(1 .. n) = n
    BY <1>1, FS_Interval
  <1>3. /\ \A x \in Body(r) : \E u \in 1 .. n : x = <<r, u>>
        /\ \A u \in 1 .. n : <<r, u>> \in Body(r)
    BY DEF Body
  <1> HIDE DEF n
  <1>4. f \in [1 .. n -> Body(r)]
    BY <1>3
  <1>5. f \in Injection(1 .. n, Body(r)) /\ f \in Surjection(1 .. n, Body(r))
    BY <1>3, <1>4 DEF Injection, IsInjective, Surjection
  <1>6. ExistsBijection(1 .. n, Body(r))
    BY <1>5 DEF ExistsBijection, Bijection
  <1> QED
    BY <1>2, <1>6, FS_Bijection DEF n

(* What is in use of a region are finitely many of its units.              *)
LEMMA UnitsInIs ==
  ASSUME NEW P, NEW r, \A p \in P : Units(p.chunk) \subseteq Body(p.chunk.region)
  PROVE  /\ UnitsIn(P, r) \subseteq Body(r)
         /\ \A p \in P : p.chunk.region = r => Units(p.chunk) \subseteq UnitsIn(P, r)
         /\ \A x \in UnitsIn(P, r) : \E p \in P : p.chunk.region = r /\ x \in Units(p.chunk)
         /\ IsFiniteSet(UnitsIn(P, r)) /\ Cardinality(UnitsIn(P, r)) \in Nat
         /\ Cardinality(UnitsIn(P, r)) <= MAX_COMMON_CHUNKS_IN_REGION
  <1>1. /\ UnitsIn(P, r) \subseteq Body(r)
        /\ \A p \in P : p.chunk.region = r => Units(p.chunk) \subseteq UnitsIn(P, r)
        /\ \A x \in UnitsIn(P, r) : \E p \in P : p.chunk.region = r /\ x \in Units(p.chunk)
    BY DEF UnitsIn
  <1>2. /\ IsFiniteSet(UnitsIn(P, r))
        /\ Cardinality(UnitsIn(P, r)) <= MAX_COMMON_CHUNKS_IN_REGION
    BY <1>1, BodyIs, FS_Subset
  <1> QED
    BY <1>1, <1>2, FS_CardinalityType

(* A chunk is taken from its place and cut into chunks that are put into   *)
(* other places (the whole chunk into one place, or into none, included).  *)
LEMMA Replace ==
  ASSUME NEW P, NEW occ, Good(P, occ), Counts(occ),
         NEW p \in P, NEW Y, NEW Q, Q \subseteq (P \ {p}) \union Y,
         \A y \in Y : /\ y.chunk \in Chunk /\ y.chunk.region = p.chunk.region
                      /\ Units(y.chunk) \subseteq Units(p.chunk),
         \A y, z \in Y : y # z => Apart(y, z)
  PROVE  Good(Q, occ)
  <1>1. \A q \in P : Inside(q, occ)
    BY DEF Good
  <1>2. ASSUME NEW q \in Q PROVE Inside(q, occ)
    BY <1>1 DEF Inside
  <1>3. ASSUME NEW q \in Q, NEW s \in Q, q # s PROVE Apart(q, s)
    <2>1. \A a, b \in P : a # b => Apart(a, b)
      BY DEF Good
    <2>2. CASE q \in Y /\ s \in Y
      BY <2>2, <1>3
    <2>3. CASE q \in Y /\ s \in P \ {p}
      BY <2>1, <2>3 DEF Apart
    <2>4. CASE q \in P \ {p} /\ s \in Y
      BY <2>1, <2>4 DEF Apart
    <2>5. CASE q \in P \ {p} /\ s \in P \ {p}
      BY <2>1, <2>5, <1>3
    <2> QED
      BY <2>2, <2>3, <2>4, <2>5
  <1>4. ASSUME NEW r \in DOMAIN occ PROVE Cardinality(UnitsIn(Q, r)) <= occ[r]
    <2>1. \A q \in P : Units(q.chunk) \subseteq Body(q.chunk.region)
      BY <1>1 DEF Inside
    <2>2. \A q \in Q : Units(q.chunk) \subseteq Body(q.chunk.region)
      BY <1>2 DEF Inside
    <2>3. UnitsIn(Q, r) \subseteq UnitsIn(P, r)
      BY DEF UnitsIn
    <2>4. /\ Cardinality(UnitsIn(Q, r)) <= Cardinality(UnitsIn(P, r))
          /\ Cardinality(UnitsIn(P, r)) \in Nat /\ Cardinality(UnitsIn(Q, r)) \in Nat
      BY <2>1, <2>2, <2>3, UnitsInIs, FS_Subset
    <2>5. Cardinality(UnitsIn(P, r)) <= occ[r] /\ occ[r] \in Nat
      BY DEF Good, Covers, Counts
    <2> QED
      BY <2>4, <2>5
  <1> QED
    BY <1>2, <1>3, <1>4 DEF Good, Covers

(* What free_common and free_large do to the counts.                       *)
Lowered(occ, r, width, occ2) ==
  LET left == occ[r] - width IN
  /\ left = 0 => DOMAIN occ2 = DOMAIN occ \ {r}
  /\ left # 0 => DOMAIN occ2 = DOMAIN occ /\ occ2[r] = left
  /\ \A s \in DOMAIN occ2 : s # r => occ2[s] = occ[s]

(* A chunk is given up: the count of its region goes down by its width, or *)
(* the region is unmapped, and then nothing else was in it.                *)
LEMMA GiveUp ==
  ASSUME NEW P, NEW occ, Good(P, occ), Counts(occ),
         NEW p \in P, NEW Q, Q \subseteq P \ {p},
         NEW occ2, Lowered(occ, p.chunk.region, p.chunk.width, occ2)
  PROVE  Good(Q, occ2) /\ Counts(occ2)
  <1> DEFINE r == p.chunk.region
             w == p.chunk.width
             left == occ[r] - w
  <1>a. /\ left = 0 => DOMAIN occ2 = DOMAIN occ \ {r}
        /\ left # 0 => DOMAIN occ2 = DOMAIN occ /\ occ2[r] = left
        /\ \A s \in DOMAIN occ2 : s # r => occ2[s] = occ[s]
    BY DEF Lowered
  <1>0. \A q \in P : Inside(q, occ)
    BY DEF Good
  <1>1. /\ p.chunk \in Chunk /\ r \in DOMAIN occ /\ w \in Nat \ {0} /\ occ[r] \in Nat
        /\ IsFiniteSet(Units(p.chunk)) /\ Cardinality(Units(p.chunk)) = w
    BY <1>0, UnitsAre DEF Inside, Counts
  <1>2. \A q \in P : Units(q.chunk) \subseteq Body(q.chunk.region)
    BY <1>0 DEF Inside
  <1>3. \A q \in Q : Units(q.chunk) \subseteq Body(q.chunk.region)
    BY <1>2
  <1> DEFINE A == UnitsIn(Q, r)
             B == Units(p.chunk)
             C == UnitsIn(P, r)
  <1>4. IsFiniteSet(A) /\ IsFiniteSet(B) /\ IsFiniteSet(C) /\ Cardinality(A) \in Nat
    BY <1>1, <1>2, <1>3, UnitsInIs
  <1>5. A \union B \subseteq C
    <2>1. A \subseteq C
      BY DEF UnitsIn
    <2>2. B \subseteq C
      BY <1>2, UnitsInIs
    <2> QED
      BY <2>1, <2>2
  <1>6. A \intersect B = {}
    <2>1. \A q \in Q : Apart(p, q)
      BY DEF Good
    <2>2. \A x \in A : \E q \in Q : x \in Units(q.chunk)
      BY <1>3, UnitsInIs
    <2> QED
      BY <2>1, <2>2 DEF Apart
  <1>7. Cardinality(A) + w <= occ[r]
    <2> HIDE DEF A, B, C
    <2>1. /\ IsFiniteSet(A \union B)
          /\ Cardinality(A \union B) = Cardinality(A) + Cardinality(B) - Cardinality(A \intersect B)
      BY <1>4, FS_Union
    <2>2. Cardinality(A \intersect B) = 0
      BY <1>6, FS_EmptySet
    <2>3. Cardinality(A \union B) <= Cardinality(C) /\ Cardinality(C) \in Nat
      BY <1>4, <1>5, FS_Subset, FS_CardinalityType
    <2>4. Cardinality(B) = w
      BY <1>1 DEF B
    <2>5. Cardinality(C) <= occ[r]
      BY <1>1 DEF C, Good, Covers
    <2> HIDE DEF w, r
    <2> QED
      BY <1>1, <1>4, <2>1, <2>2, <2>3, <2>4, <2>5
  <1>8. Counts(occ2)
    <2> HIDE DEF A, B, C
    <2> QED
      BY <1>a, <1>1, <1>4, <1>7 DEF Counts
  <1>9. \A s \in DOMAIN occ2 : s # r \/ left # 0
    BY <1>a
  <1>10. ASSUME NEW q \in Q PROVE Inside(q, occ2)
    <2>1. CASE q.chunk.region = r
      <3>1. q.chunk \in Chunk
        BY <1>0 DEF Inside
      <3>2. A # {}
        <4>1. <<q.chunk.region, q.chunk.unit>> \in Units(q.chunk)
          BY <3>1, UnitsAre
        <4>2. Units(q.chunk) \subseteq UnitsIn(Q, r)
          BY <2>1, <1>3, UnitsInIs
        <4> QED
          BY <4>1, <4>2
      <3>3. Cardinality(A) # 0
        BY <3>2, <1>4, FS_EmptySet
      <3>4. left # 0
        <4> HIDE DEF A, B, C
        <4> QED
          BY <3>3, <1>1, <1>4, <1>7
      <3> QED
        BY <1>a, <3>4, <1>0, <1>1 DEF Inside
    <2>2. CASE q.chunk.region # r
      BY <1>a, <2>2, <1>0, <1>1 DEF Inside
    <2> QED
      BY <2>1, <2>2
  <1>11. ASSUME NEW s \in DOMAIN occ2 PROVE Cardinality(UnitsIn(Q, s)) <= occ2[s]
    <2>1. CASE s = r
      <3> HIDE DEF B, C
      <3>1. occ2[s] = left
        BY <1>a, <1>9, <2>1, <1>1
      <3>2. Cardinality(A) <= left
        <4> HIDE DEF A
        <4> QED
          BY <1>1, <1>4, <1>7
      <3> QED
        BY <2>1, <3>1, <3>2
    <2>2. CASE s # r
      <3>1. s \in DOMAIN occ /\ occ2[s] = occ[s] /\ occ[s] \in Nat
        BY <1>a, <2>2, <1>1 DEF Counts
      <3>2. Cardinality(UnitsIn(P, s)) <= occ[s]
        BY <3>1 DEF Good, Covers
      <3>3. UnitsIn(Q, s) \subseteq UnitsIn(P, s)
        BY DEF UnitsIn
      <3>4. /\ Cardinality(UnitsIn(Q, s)) <= Cardinality(UnitsIn(P, s))
            /\ Cardinality(UnitsIn(P, s)) \in Nat /\ Cardinality(UnitsIn(Q, s)) \in Nat
        BY <1>2, <1>3, <3>3, UnitsInIs, FS_Subset
      <3> QED
        BY <3>1, <3>2, <3>4
    <2> QED
      BY <2>1, <2>2
  <1>12. \A a, b \in Q : a # b => Apart(a, b)
    BY DEF Good
  <1> QED
    BY <1>8, <1>10, <1>11, <1>12 DEF Good, Covers

(* What handle_state does to the counts, and the chunks it brings.         *)
Opened(occ, r, occ2) ==
  /\ r \in Regions /\ r \notin DOMAIN occ
  /\ DOMAIN occ2 = DOMAIN occ \union {r}
  /\ occ2[r] = MAX_COMMON_CHUNKS_IN_REGION
  /\ \A s \in DOMAIN occ : occ2[s] = occ[s]
Fresh(Y, r) ==
  /\ \A y \in Y : /\ y.chunk \in Chunk /\ y.chunk.region = r
                  /\ Units(y.chunk) \subseteq Body(r)
  /\ \A y, z \in Y : y # z => Apart(y, z)

(* A region is mapped: its chunks are new.                                 *)
LEMMA NewRegion ==
  ASSUME NEW P, NEW occ, Good(P, occ), Counts(occ),
         NEW r, NEW Y, Fresh(Y, r), NEW Q, Q \subseteq P \union Y,
         NEW occ2, Opened(occ, r, occ2)
  PROVE  Good(Q, occ2) /\ Counts(occ2)
  <1>a. /\ r \in Regions /\ r \notin DOMAIN occ
        /\ DOMAIN occ2 = DOMAIN occ \union {r}
        /\ occ2[r] = MAX_COMMON_CHUNKS_IN_REGION
        /\ \A s \in DOMAIN occ : occ2[s] = occ[s]
    BY DEF Opened
  <1>b. /\ \A y \in Y : /\ y.chunk \in Chunk /\ y.chunk.region = r
                        /\ Units(y.chunk) \subseteq Body(r)
        /\ \A y, z \in Y : y # z => Apart(y, z)
    BY DEF Fresh
  <1>1. \A q \in P : Inside(q, occ)
    BY DEF Good
  <1>2. \A q \in Q : Inside(q, occ2)
    BY <1>a, <1>b, <1>1 DEF Inside
  <1>3. Counts(occ2)
    BY <1>a, RegionIs DEF Counts
  <1>4. ASSUME NEW q \in P, NEW y \in Y PROVE Apart(q, y) /\ Apart(y, q)
    <2>1. Units(q.chunk) \subseteq Body(q.chunk.region) /\ q.chunk.region # r
      BY <1>a, <1>1 DEF Inside
    <2>2. Units(y.chunk) \subseteq Body(r)
      BY <1>b
    <2>3. Body(q.chunk.region) \intersect Body(r) = {}
      BY <2>1 DEF Body
    <2> QED
      BY <2>1, <2>2, <2>3 DEF Apart
  <1>5. \A a, b \in Q : a # b => Apart(a, b)
    <2>1. \A a, b \in P : a # b => Apart(a, b)
      BY DEF Good
    <2> QED
      BY <1>b, <2>1, <1>4
  <1>6. ASSUME NEW s \in DOMAIN occ2 PROVE Cardinality(UnitsIn(Q, s)) <= occ2[s]
    <2>1. \A q \in Q : Units(q.chunk) \subseteq Body(q.chunk.region)
      BY <1>2 DEF Inside
    <2>2. CASE s = r
      BY <1>a, <2>1, <2>2, UnitsInIs
    <2>3. CASE s # r
      <3>1. s \in DOMAIN occ /\ occ2[s] = occ[s] /\ occ[s] \in Nat
        BY <1>a, <2>3 DEF Counts
      <3>2. Cardinality(UnitsIn(P, s)) <= occ[s]
        BY <3>1 DEF Good, Covers
      <3>3. UnitsIn(Q, s) \subseteq UnitsIn(P, s)
        BY <1>b, <2>3 DEF UnitsIn
      <3>4. \A q \in P : Units(q.chunk) \subseteq Body(q.chunk.region)
        BY <1>1 DEF Inside
      <3>5. /\ Cardinality(UnitsIn(Q, s)) <= Cardinality(UnitsIn(P, s))
            /\ Cardinality(UnitsIn(P, s)) \in Nat /\ Cardinality(UnitsIn(Q, s)) \in Nat
        BY <2>1, <3>3, <3>4, UnitsInIs, FS_Subset
      <3> QED
        BY <3>1, <3>2, <3>5
    <2> QED
      BY <2>2, <2>3
  <1> QED
    BY <1>2, <1>3, <1>5, <1>6 DEF Good, Covers

-----------------------------------------------------------------------------
(* The invariant is what Good says of the places there are.                *)
LEMMA IInvIs ==
  /\ IInv => /\ Good(Places, occupied) /\ Counts(occupied) /\ TypeOK
  /\ Good(Places, occupied)' /\ TypeOK' => IInv'
  <1>1. TypeOK => Counts(occupied) /\ \A p \in Places : p.chunk \in Chunk
    <2> SUFFICES ASSUME TypeOK PROVE Counts(occupied) /\ \A p \in Places : p.chunk \in Chunk
      OBVIOUS
    <2>1. Counts(occupied)
      BY DEF TypeOK, Counts
    <2>2. ASSUME NEW s \in Seq(Chunk), NEW t, NEW p \in Row(t, s) PROVE p.chunk \in Chunk
      BY <2>2, RowIs, Indices, AtIs
    <2>3. ASSUME NEW p \in CallRow(calls) PROVE p.chunk \in Chunk
      <3>1. calls \in Seq(Held) /\ DOMAIN calls = 1 .. Len(calls)
        BY Indices DEF TypeOK
      <3>2. PICK i \in DOMAIN calls : p = At("call", i, calls[i].chunk)
        BY <2>3 DEF CallRow
      <3>3. calls[i] \in Held
        BY <3>1, <3>2, Indices
      <3> QED
        BY <3>2, <3>3, AtIs DEF Held
    <2>4. ASSUME NEW p \in CarvedRow(carved) PROVE p.chunk \in Chunk
      BY AtIs DEF TypeOK, CarvedRow
    <2> QED
      BY <2>1, <2>2, <2>3, <2>4, PlacesAre DEF TypeOK, PlacesOf
  <1>2. IInv => Good(Places, occupied)
    BY <1>1 DEF IInv, ChunksDisjoint, CountCoversUse, Good, Inside, Covers, Apart, UnitsIn, Body
  <1>3. Good(Places', occupied') /\ TypeOK' => IInv'
    BY DEF IInv, ChunksDisjoint, CountCoversUse, Good, Inside, Covers, Apart, UnitsIn, Body
  <1> QED
    BY <1>1, <1>2, <1>3 DEF IInv

(* Nothing is mapped.                                                      *)
LEMMA NoneTyped ==
  /\ <<>> \in [DOMAIN <<>> -> Nat] /\ DOMAIN <<>> \subseteq Regions
  /\ <<>> \in Seq(Chunk) /\ <<>> \in Seq(Held)
  <1>1. \A S : <<>> \in Seq(S)
    OBVIOUS
  <1>2. DOMAIN <<>> = {}
    OBVIOUS
  <1>3. <<>> \in [1 .. Len(<<>>) -> Nat] /\ DOMAIN <<>> = 1 .. Len(<<>>)
    BY <1>1, LenProperties
  <1> QED
    BY <1>1, <1>2, <1>3

(* Init establishes the invariant.                                         *)
LEMMA InitInv == Init => IInv
  <1> SUFFICES ASSUME Init PROVE IInv
    OBVIOUS
  <1>1. Places = {}
    BY DEF Init, Places
  <1>2. TypeOK
    BY NoneTyped DEF Init, TypeOK
  <1> QED
    BY <1>1, <1>2 DEF Init, IInv, ChunksDisjoint, CountCoversUse

-----------------------------------------------------------------------------
(* What pushes and pops do to the places.                                  *)
LEMMA PopCommon ==
  ASSUME NEW fc \in Seq(Chunk), fc # <<>>, NEW fl, NEW cs, NEW cv
  PROVE  /\ Last(fc) \in Chunk /\ Front(fc) \in Seq(Chunk)
         /\ At("common", Len(fc), Last(fc)) \in PlacesOf(fc, fl, cs, cv)
         /\ PlacesOf(Front(fc), fl, cs, cv) \subseteq
              PlacesOf(fc, fl, cs, cv) \ {At("common", Len(fc), Last(fc))}
  <1> DEFINE p == At("common", Len(fc), Last(fc))
  <1>1. p \in Row("common", fc) /\ Row("common", Front(fc)) \subseteq Row("common", fc) \ {p}
    BY FrontRow
  <1>2. p \notin Row("large", fl) /\ p \notin CallRow(cs) /\ p \notin CarvedRow(cv)
    BY Kinds, AtIs
  <1>3. Last(fc) \in Chunk /\ Front(fc) \in Seq(Chunk)
    BY Ends
  <1> QED
    BY <1>1, <1>2, <1>3 DEF PlacesOf

(* A large chunk is popped.                                                *)
LEMMA PopLarge ==
  ASSUME NEW fl \in Seq(Chunk), fl # <<>>, NEW fc, NEW cs, NEW cv
  PROVE  /\ Last(fl) \in Chunk /\ Front(fl) \in Seq(Chunk)
         /\ At("large", Len(fl), Last(fl)) \in PlacesOf(fc, fl, cs, cv)
         /\ PlacesOf(fc, Front(fl), cs, cv) \subseteq
              PlacesOf(fc, fl, cs, cv) \ {At("large", Len(fl), Last(fl))}
  <1> DEFINE p == At("large", Len(fl), Last(fl))
  <1>1. p \in Row("large", fl) /\ Row("large", Front(fl)) \subseteq Row("large", fl) \ {p}
    BY FrontRow
  <1>2. p \notin Row("common", fc) /\ p \notin CallRow(cs) /\ p \notin CarvedRow(cv)
    BY Kinds, AtIs
  <1>3. Last(fl) \in Chunk /\ Front(fl) \in Seq(Chunk)
    BY Ends
  <1> QED
    BY <1>1, <1>2, <1>3 DEF PlacesOf

(* A call returns.                                                         *)
LEMMA PopCall ==
  ASSUME NEW cs \in Seq(Held), cs # <<>>, NEW fc, NEW fl, NEW cv
  PROVE  /\ Last(cs) \in Held /\ Last(cs).chunk \in Chunk /\ Last(cs).size \in Sizes
         /\ Front(cs) \in Seq(Held) /\ Len(Front(cs)) + 1 = Len(cs)
         /\ At("call", Len(cs), Last(cs).chunk) \in PlacesOf(fc, fl, cs, cv)
         /\ PlacesOf(fc, fl, Front(cs), cv) \subseteq
              PlacesOf(fc, fl, cs, cv) \ {At("call", Len(cs), Last(cs).chunk)}
  <1> DEFINE p == At("call", Len(cs), Last(cs).chunk)
  <1>1. p \in CallRow(cs) /\ CallRow(Front(cs)) \subseteq CallRow(cs) \ {p}
    BY CallFront
  <1>2. p \notin Row("common", fc) /\ p \notin Row("large", fl) /\ p \notin CarvedRow(cv)
    BY Kinds, AtIs
  <1>3. Last(cs) \in Held /\ Front(cs) \in Seq(Held) /\ Len(Front(cs)) + 1 = Len(cs)
    BY Ends
  <1>4. Last(cs).chunk \in Chunk /\ Last(cs).size \in Sizes
    BY <1>3 DEF Held
  <1> QED
    BY <1>1, <1>2, <1>3, <1>4 DEF PlacesOf

(* A call begins.                                                          *)
LEMMA PushCall ==
  ASSUME NEW cs \in Seq(Held), NEW e \in Held, NEW fc, NEW fl, NEW cv
  PROVE  /\ Append(cs, e) \in Seq(Held)
         /\ PlacesOf(fc, fl, Append(cs, e), cv) \subseteq
              PlacesOf(fc, fl, cs, cv) \union {At("call", Len(cs) + 1, e.chunk)}
  BY CallAppend, AppendProperties DEF PlacesOf

(* A large chunk is put back.                                              *)
LEMMA PushLarge ==
  ASSUME NEW fl \in Seq(Chunk), NEW c \in Chunk, NEW fc, NEW cs, NEW cv
  PROVE  /\ Append(fl, c) \in Seq(Chunk)
         /\ PlacesOf(fc, Append(fl, c), cs, cv) \subseteq
              PlacesOf(fc, fl, cs, cv) \union {At("large", Len(fl) + 1, c)}
  BY AppendRow, AppendProperties DEF PlacesOf

(* What a call holds.                                                      *)
LEMMA CallIs ==
  ASSUME NEW c \in Chunk, NEW at \in {"carve", "split", "extend"}, NEW size \in Sizes,
         NEW slow \in BOOLEAN
  PROVE  Call(c, at, size, slow) \in Held /\ Call(c, at, size, slow).chunk = c
  BY DEF Call, Held

(* One chunk changes its place.                                            *)
LEMMA Move ==
  ASSUME NEW P, NEW occ, Good(P, occ), Counts(occ),
         NEW p \in P, NEW y, y.chunk = p.chunk, NEW Q, Q \subseteq (P \ {p}) \union {y}
  PROVE  Good(Q, occ)
  <1> DEFINE Y == {y}
  <1>1. Q \subseteq (P \ {p}) \union Y
    OBVIOUS
  <1>2. \A z \in Y : /\ z.chunk \in Chunk /\ z.chunk.region = p.chunk.region
                     /\ Units(z.chunk) \subseteq Units(p.chunk)
    BY DEF Good, Inside
  <1>3. \A u, z \in Y : u # z => Apart(u, z)
    OBVIOUS
  <1> HIDE DEF Y
  <1> QED
    BY <1>1, <1>2, <1>3, Replace

-----------------------------------------------------------------------------
(* The steps.                                                              *)
LEMMA GetCommonChunkStep ==
  ASSUME IInv, NEW size \in CommonSizes, GetCommonChunk(size)
  PROVE  IInv'
  <1> DEFINE fc == free_common_chunks
             e == Call(Last(fc), "carve", size, FALSE)
             p == At("common", Len(fc), Last(fc))
             y == At("call", Len(calls) + 1, Last(fc))
             M == PlacesOf(Front(fc), free_large_chunks, calls, carved)
  <1>1. /\ fc # <<>> /\ free_common_chunks' = Front(fc) /\ calls' = Append(calls, e)
        /\ UNCHANGED <<occupied, free_large_chunks, carved>>
    BY DEF GetCommonChunk
  <1>2. Good(Places, occupied) /\ Counts(occupied) /\ TypeOK
    BY IInvIs
  <1>3. fc \in Seq(Chunk) /\ calls \in Seq(Held)
    BY <1>2 DEF TypeOK
  <1>4. /\ Last(fc) \in Chunk /\ Front(fc) \in Seq(Chunk) /\ p \in Places
        /\ M \subseteq Places \ {p}
    BY <1>1, <1>3, PopCommon, PlacesAre
  <1>5. e \in Held /\ e.chunk = Last(fc)
    BY <1>4, CallIs DEF Sizes
  <1>6. calls' \in Seq(Held) /\ Places' \subseteq M \union {y}
    BY <1>1, <1>3, <1>5, PushCall, PlacesAre
  <1>7. y.chunk = p.chunk
    BY AtIs
  <1> HIDE DEF fc, e, p, y, M
  <1>8. Good(Places', occupied)
    BY <1>2, <1>4, <1>6, <1>7, Move
  <1>9. TypeOK'
    BY <1>1, <1>2, <1>4, <1>6 DEF TypeOK
  <1> QED
    BY <1>1, <1>8, <1>9, IInvIs

(* A large chunk goes to a call: GetLargeChunk and GetCommonChunkSlow.     *)
LEMMA TakeLarge ==
  ASSUME IInv, NEW at \in {"carve", "split"}, NEW size \in Sizes, NEW slow \in BOOLEAN,
         free_large_chunks # <<>>,
         free_large_chunks' = Front(free_large_chunks),
         calls' = Append(calls, Call(Last(free_large_chunks), at, size, slow)),
         UNCHANGED <<occupied, free_common_chunks, carved>>
  PROVE  IInv'
  <1> DEFINE fl == free_large_chunks
             e == Call(Last(fl), at, size, slow)
             p == At("large", Len(fl), Last(fl))
             y == At("call", Len(calls) + 1, Last(fl))
             M == PlacesOf(free_common_chunks, Front(fl), calls, carved)
  <1>2. Good(Places, occupied) /\ Counts(occupied) /\ TypeOK
    BY IInvIs
  <1>3. fl \in Seq(Chunk) /\ calls \in Seq(Held)
    BY <1>2 DEF TypeOK
  <1>4. /\ Last(fl) \in Chunk /\ Front(fl) \in Seq(Chunk) /\ p \in Places
        /\ M \subseteq Places \ {p}
    BY <1>3, PopLarge, PlacesAre
  <1>5. e \in Held /\ e.chunk = Last(fl)
    BY <1>4, CallIs
  <1>6. calls' \in Seq(Held) /\ Places' \subseteq M \union {y}
    BY <1>3, <1>5, PushCall, PlacesAre
  <1>7. y.chunk = p.chunk
    BY AtIs
  <1>0. free_large_chunks' = Front(fl)
    OBVIOUS
  <1> HIDE DEF fl, e, p, y, M
  <1>8. Good(Places', occupied)
    BY <1>2, <1>4, <1>6, <1>7, Move
  <1>9. TypeOK'
    BY <1>0, <1>2, <1>4, <1>6 DEF TypeOK
  <1> QED
    BY <1>8, <1>9, IInvIs

(* try_get_large_chunk moves a chunk from its stack to the call.           *)
LEMMA GetLargeChunkStep ==
  ASSUME IInv, NEW size \in LargeSizes, GetLargeChunk(size)
  PROVE  IInv'
  <1>1. size \in Sizes /\ FALSE \in BOOLEAN
    BY DEF Sizes
  <1> QED
    BY <1>1, TakeLarge DEF GetLargeChunk

(* get_common_chunk_slow takes a large chunk to split it.                  *)
LEMMA GetCommonChunkSlowStep ==
  ASSUME IInv, NEW size \in CommonSizes, GetCommonChunkSlow(size)
  PROVE  IInv'
  <1> DEFINE e == Call(Last(free_large_chunks), "split", size, TRUE)
  <1>1. size \in Sizes /\ TRUE \in BOOLEAN
    BY DEF Sizes
  <1>2. <<e>> = Append(<<>>, e)
    OBVIOUS
  <1>3. calls' = Append(calls, e)
    BY <1>2 DEF GetCommonChunkSlow
  <1> QED
    BY <1>1, <1>3, TakeLarge DEF GetCommonChunkSlow

(* The call goes on with the chunk it holds.                               *)
LEMMA BeginSplitStep ==
  ASSUME IInv, BeginSplit
  PROVE  IInv'
  <1> DEFINE e == [Top EXCEPT !.at = "extend"]
             p == At("call", Len(calls), Top.chunk)
             M == PlacesOf(free_common_chunks, free_large_chunks, Return, carved)
  <1>1. /\ calls # <<>> /\ calls' = Append(Return, e)
        /\ UNCHANGED <<occupied, free_common_chunks, free_large_chunks, carved>>
    BY DEF BeginSplit
  <1>2. Good(Places, occupied) /\ Counts(occupied) /\ TypeOK
    BY IInvIs
  <1>3. calls \in Seq(Held)
    BY <1>2 DEF TypeOK
  <1>4. /\ Top \in Held /\ Return \in Seq(Held) /\ Len(Return) + 1 = Len(calls)
        /\ p \in Places /\ M \subseteq Places \ {p}
    BY <1>1, <1>3, PopCall, PlacesAre DEF Top, Return
  <1>5. e \in Held /\ e.chunk = Top.chunk
    BY <1>4 DEF Held
  <1> HIDE DEF e
  <1>6. calls' \in Seq(Held) /\ Places' \subseteq M \union {p}
    BY <1>1, <1>4, <1>5, PushCall, PlacesAre
  <1> HIDE DEF p, M
  <1>8. Good(Places', occupied)
    BY <1>2, <1>4, <1>6, Move
  <1>9. TypeOK'
    BY <1>1, <1>2, <1>6 DEF TypeOK
  <1> QED
    BY <1>1, <1>8, <1>9, IInvIs

(* The chunk is in no place any more, which disturbs nothing.              *)
LEMMA LoseChunkStep ==
  ASSUME IInv, LoseChunk
  PROVE  IInv'
  <1> DEFINE p == At("call", Len(calls), Top.chunk)
  <1>1. /\ calls # <<>> /\ calls' = Return
        /\ UNCHANGED <<occupied, free_common_chunks, free_large_chunks, carved>>
    BY DEF LoseChunk
  <1>2. Good(Places, occupied) /\ Counts(occupied) /\ TypeOK
    BY IInvIs
  <1>3. calls \in Seq(Held)
    BY <1>2 DEF TypeOK
  <1>4. Return \in Seq(Held) /\ p \in Places /\ Places' \subseteq Places \ {p}
    BY <1>1, <1>3, PopCall, PlacesAre DEF Top, Return
  <1> HIDE DEF p
  <1>8. Good(Places', occupied)
    BY <1>2, <1>4, Move
  <1>9. TypeOK'
    BY <1>1, <1>2, <1>4 DEF TypeOK
  <1> QED
    BY <1>1, <1>8, <1>9, IInvIs

(* The chunk goes from the call to the table.                              *)
LEMMA CarveStep ==
  ASSUME IInv, Carve
  PROVE  IInv'
  <1> DEFINE p == At("call", Len(calls), Top.chunk)
             k == [chunk |-> Top.chunk, size |-> Top.size]
             y == At("carved", Top.size, Top.chunk)
             M == PlacesOf(free_common_chunks, free_large_chunks, Return, carved)
  <1>1. /\ calls # <<>> /\ calls' = Return /\ carved' = carved \union {k}
        /\ UNCHANGED <<occupied, free_common_chunks, free_large_chunks>>
    BY DEF Carve
  <1>2. Good(Places, occupied) /\ Counts(occupied) /\ TypeOK
    BY IInvIs
  <1>3. calls \in Seq(Held)
    BY <1>2 DEF TypeOK
  <1>4. /\ Top.chunk \in Chunk /\ Top.size \in Sizes /\ Return \in Seq(Held)
        /\ p \in Places /\ M \subseteq Places \ {p}
    BY <1>1, <1>3, PopCall, PlacesAre DEF Top, Return
  <1>5. k \in [chunk : Chunk, size : Sizes]
    BY <1>4
  <1>6. CarvedRow(carved') \subseteq CarvedRow(carved) \union {y}
    <2>1. k.size = Top.size /\ k.chunk = Top.chunk
      OBVIOUS
    <2> HIDE DEF k
    <2> QED
      BY <1>1, <2>1 DEF CarvedRow
  <1>7. Places' \subseteq M \union {y} /\ y.chunk = p.chunk
    <2>1. Places' = PlacesOf(free_common_chunks, free_large_chunks, Return, carved')
      BY <1>1, PlacesAre
    <2> QED
      BY <1>6, <2>1, AtIs DEF PlacesOf
  <1> HIDE DEF p, k, y, M
  <1>8. Good(Places', occupied)
    BY <1>2, <1>4, <1>7, Move
  <1>9. TypeOK'
    BY <1>1, <1>2, <1>4, <1>5 DEF TypeOK
  <1> QED
    BY <1>1, <1>8, <1>9, IInvIs

(* The count goes down with the chunk, or the region, then empty, is       *)
(* unmapped.                                                               *)
LEMMA FreeChunkStep ==
  ASSUME IInv, FreeChunk
  PROVE  IInv'
  <1> DEFINE p == At("call", Len(calls), Top.chunk)
             r == Top.chunk.region
             left == occupied[r] - Top.chunk.width
  <1>1. /\ calls # <<>> /\ calls' = Return
        /\ occupied' = IF left = 0 THEN [q \in DOMAIN occupied \ {r} |-> occupied[q]]
                       ELSE [occupied EXCEPT ![r] = left]
        /\ UNCHANGED <<free_common_chunks, free_large_chunks, carved>>
    BY DEF FreeChunk
  <1>2. Good(Places, occupied) /\ Counts(occupied) /\ TypeOK
    BY IInvIs
  <1>3. calls \in Seq(Held) /\ occupied \in [DOMAIN occupied -> Nat]
    BY <1>2 DEF TypeOK
  <1>4. Return \in Seq(Held) /\ p \in Places /\ Places' \subseteq Places \ {p}
    BY <1>1, <1>3, PopCall, PlacesAre DEF Top, Return
  <1>5. p.chunk = Top.chunk
    BY AtIs
  <1>6. r \in DOMAIN occupied
    BY <1>2, <1>4, <1>5 DEF Good, Inside
  <1> HIDE DEF p
  <1>7. /\ left = 0 => DOMAIN occupied' = DOMAIN occupied \ {r}
        /\ left # 0 => DOMAIN occupied' = DOMAIN occupied /\ occupied'[r] = left
        /\ \A s \in DOMAIN occupied' : s # r => occupied'[s] = occupied[s]
    BY <1>1, <1>3, <1>6
  <1>12. Lowered(occupied, p.chunk.region, p.chunk.width, occupied')
    BY <1>5, <1>7 DEF Lowered
  <1> HIDE DEF r, left
  <1>8. Good(Places', occupied') /\ Counts(occupied')
    BY <1>2, <1>4, <1>12, GiveUp
  <1>9. occupied' = [q \in DOMAIN occupied' |-> occupied'[q]]
    BY <1>1, <1>3
  <1>10. occupied' \in [DOMAIN occupied' -> Nat] /\ DOMAIN occupied' \subseteq Regions
    BY <1>8, <1>9 DEF Counts
  <1>11. TypeOK'
    BY <1>1, <1>2, <1>4, <1>10 DEF TypeOK
  <1> QED
    BY <1>8, <1>11, IInvIs

(* Nothing is left.                                                        *)
LEMMA FreeAllMemoryStep ==
  ASSUME FreeAllMemory
  PROVE  IInv'
  <1>1. Places' = {}
    BY DEF FreeAllMemory, Places
  <1>2. TypeOK'
    BY NoneTyped DEF FreeAllMemory, TypeOK
  <1> QED
    BY <1>1, <1>2 DEF FreeAllMemory, IInv, ChunksDisjoint, CountCoversUse

(* The large chunk goes back to its stack and a common one takes its       *)
(* place.                                                                  *)
LEMMA PutBackLargeStep ==
  ASSUME IInv, PutBackLarge
  PROVE  IInv'
  <1> DEFINE fc == free_common_chunks
             fl == free_large_chunks
             c == Last(fc)
             d == Top.chunk
             e == Call(c, "carve", Top.size, TRUE)
             p == At("common", Len(fc), c)
             q == At("call", Len(calls), d)
             y == At("call", Len(calls), c)
             z == At("large", Len(fl) + 1, d)
             M == PlacesOf(Front(fc), fl, calls, carved)
             N == PlacesOf(Front(fc), fl, Return, carved)
             L == PlacesOf(Front(fc), Append(fl, d), Return, carved)
             K == (Places \ {p}) \union {y}
  <1>1. /\ calls # <<>> /\ fc # <<>> /\ free_common_chunks' = Front(fc)
        /\ free_large_chunks' = Append(fl, d) /\ calls' = Append(Return, e)
        /\ UNCHANGED <<occupied, carved>>
    BY DEF PutBackLarge
  <1>2. Good(Places, occupied) /\ Counts(occupied) /\ TypeOK
    BY IInvIs
  <1>3. fc \in Seq(Chunk) /\ fl \in Seq(Chunk) /\ calls \in Seq(Held)
    BY <1>2 DEF TypeOK
  <1>4. c \in Chunk /\ Front(fc) \in Seq(Chunk) /\ p \in Places /\ M \subseteq Places \ {p}
    BY <1>1, <1>3, PopCommon, PlacesAre
  <1>5. /\ d \in Chunk /\ Top.size \in Sizes /\ Return \in Seq(Held) /\ Len(Return) + 1 = Len(calls)
        /\ N \subseteq M \ {q}
    BY <1>1, <1>3, PopCall DEF Top, Return
  <1>6. q \in Places
    BY <1>1, <1>3, PopCall, PlacesAre DEF Top
  <1>7. Append(fl, d) \in Seq(Chunk) /\ L \subseteq N \union {z}
    BY <1>3, <1>5, PushLarge
  <1>8. e \in Held /\ e.chunk = c
    BY <1>4, <1>5, CallIs
  <1> HIDE DEF e
  <1>9. calls' \in Seq(Held) /\ Places' \subseteq L \union {y}
    BY <1>1, <1>5, <1>8, PushCall, PlacesAre
  <1>10. p.chunk = c /\ y.chunk = c /\ q.chunk = d /\ z.chunk = d /\ p # q
    BY AtIs
  <1>11. y # q
    <2>1. Apart(p, q)
      BY <1>2, <1>4, <1>6, <1>10 DEF Good
    <2>2. Units(c) # {}
      BY <1>4, UnitsAre
    <2> QED
      BY <1>10, <2>1, <2>2 DEF Apart
  <1> HIDE DEF fc, fl, c, d, p, q, y, z, M, N, L
  <1>12. Good(K, occupied) /\ q \in K
    BY <1>2, <1>4, <1>6, <1>10, Move
  <1>13. Places' \subseteq (K \ {q}) \union {z}
    BY <1>4, <1>5, <1>7, <1>9, <1>11
  <1> HIDE DEF K
  <1>14. Good(Places', occupied)
    BY <1>2, <1>10, <1>12, <1>13, Move
  <1>15. TypeOK'
    BY <1>1, <1>2, <1>4, <1>7, <1>9 DEF TypeOK
  <1> QED
    BY <1>1, <1>14, <1>15, IInvIs

(* A common chunk is one unit.                                             *)
LEMMA CommonIs ==
  ASSUME NEW r \in Regions, NEW u \in Nat
  PROVE  /\ Common(r, u) \in Chunk /\ Common(r, u).region = r
         /\ Units(Common(r, u)) = {<<r, u>>}
  <1>1. /\ Common(r, u) \in Chunk /\ Common(r, u).region = r
        /\ Common(r, u).unit = u /\ Common(r, u).width = 1
    BY DEF Common, Chunk
  <1>2. u .. u + 1 - 1 = {u}
    OBVIOUS
  <1>3. \A x \in Units(Common(r, u)) : x = <<r, u>>
    BY <1>1, <1>2, UnitsAre
  <1>4. <<r, u>> \in Units(Common(r, u))
    BY <1>1, UnitsAre
  <1> QED
    BY <1>1, <1>3, <1>4

(* split_large_chunk_to_common cuts a chunk into its units.                *)
LEMMA SplitIs ==
  ASSUME NEW c \in Chunk
  PROVE  /\ SplitLargeChunkToCommon(c) \in Seq(Chunk)
         /\ SplitLargeChunkToCommon(c) # <<>>
         /\ Len(SplitLargeChunkToCommon(c)) = c.width /\ c.width \in Nat \ {0}
         /\ \A i \in 1 .. c.width :
              /\ SplitLargeChunkToCommon(c)[i] \in Chunk
              /\ SplitLargeChunkToCommon(c)[i].region = c.region
              /\ Units(SplitLargeChunkToCommon(c)[i]) = {<<c.region, c.unit + i - 1>>}
              /\ Units(SplitLargeChunkToCommon(c)[i]) \subseteq Units(c)
  <1> DEFINE cc == SplitLargeChunkToCommon(c)
  <1>1. c.width \in Nat \ {0} /\ c.unit \in Nat /\ c.region \in Regions
    BY UnitsAre
  <1>2. ASSUME NEW i \in 1 .. c.width
        PROVE  /\ cc[i] \in Chunk /\ cc[i].region = c.region
               /\ Units(cc[i]) = {<<c.region, c.unit + i - 1>>} /\ Units(cc[i]) \subseteq Units(c)
    <2> DEFINE u == c.unit + i - 1
    <2>1. u \in Nat /\ u \in c.unit .. c.unit + c.width - 1
      BY <1>1
    <2>2. cc[i] = Common(c.region, u)
      BY DEF SplitLargeChunkToCommon
    <2> HIDE DEF u
    <2>3. cc[i] \in Chunk /\ cc[i].region = c.region /\ Units(cc[i]) = {<<c.region, u>>}
      BY <1>1, <2>1, <2>2, CommonIs
    <2>4. <<c.region, u>> \in Units(c)
      BY <2>1, UnitsAre
    <2> QED
      BY <2>3, <2>4 DEF u
  <1>3. cc \in [1 .. c.width -> Chunk] /\ DOMAIN cc = 1 .. c.width
    BY <1>2 DEF SplitLargeChunkToCommon
  <1> HIDE DEF cc
  <1>4. cc \in Seq(Chunk)
    BY <1>1, <1>3
  <1>5. Len(cc) = c.width
    BY <1>1, <1>3, <1>4
  <1>6. cc # <<>>
    BY <1>1, <1>5
  <1> QED
    BY <1>1, <1>2, <1>4, <1>5, <1>6 DEF cc

(* A large chunk is replaced by its units.                                 *)
LEMMA SplitLargeStep ==
  ASSUME IInv, SplitLarge
  PROVE  IInv'
  <1> DEFINE fc == free_common_chunks
             c == Top.chunk
             w == c.width
             cc == SplitLargeChunkToCommon(c)
             e == Call(Last(cc), "carve", Top.size, TRUE)
             p == At("call", Len(calls), c)
             y == At("call", Len(calls), cc[w])
             Y0 == {At("common", Len(fc) + i, cc[i]) : i \in 1 .. w - 1}
             Y == Y0 \union {y}
             N == PlacesOf(fc, free_large_chunks, Return, carved)
             L == PlacesOf(fc \o Front(cc), free_large_chunks, Return, carved)
  <1>1. /\ calls # <<>> /\ free_common_chunks' = fc \o Front(cc) /\ calls' = Append(Return, e)
        /\ UNCHANGED <<occupied, free_large_chunks, carved>>
    BY DEF SplitLarge
  <1>2. Good(Places, occupied) /\ Counts(occupied) /\ TypeOK
    BY IInvIs
  <1>3. fc \in Seq(Chunk) /\ calls \in Seq(Held)
    BY <1>2 DEF TypeOK
  <1>4. /\ c \in Chunk /\ Top.size \in Sizes /\ Return \in Seq(Held) /\ Len(Return) + 1 = Len(calls)
        /\ p \in Places /\ N \subseteq Places \ {p}
    BY <1>1, <1>3, PopCall, PlacesAre DEF Top, Return
  <1>5. /\ cc \in Seq(Chunk) /\ cc # <<>> /\ Len(cc) = w /\ w \in Nat \ {0}
        /\ \A i \in 1 .. w : /\ cc[i] \in Chunk /\ cc[i].region = c.region
                             /\ Units(cc[i]) = {<<c.region, c.unit + i - 1>>}
                             /\ Units(cc[i]) \subseteq Units(c)
    BY <1>4, SplitIs
  <1>6. c.unit \in Nat
    BY <1>4, UnitsAre
  <1> HIDE DEF fc, c, w, cc
  <1>7. /\ Last(cc) = cc[w] /\ Last(cc) \in Chunk /\ Front(cc) \in Seq(Chunk)
        /\ Len(Front(cc)) = w - 1 /\ \A i \in 1 .. w - 1 : Front(cc)[i] = cc[i]
    BY <1>5, Ends
  <1>8. e \in Held /\ e.chunk = cc[w]
    BY <1>4, <1>7, CallIs
  <1> HIDE DEF e
  <1>9. calls' \in Seq(Held) /\ Places' \subseteq L \union {y}
    BY <1>1, <1>4, <1>8, PushCall, PlacesAre
  <1>10. fc \o Front(cc) \in Seq(Chunk)
    BY <1>3, <1>7, ConcatProperties
  <1>11. L \subseteq N \union Y0
    <2>1. Row("common", fc \o Front(cc)) \subseteq
            Row("common", fc) \union {At("common", Len(fc) + i, Front(cc)[i]) : i \in 1 .. Len(Front(cc))}
      BY <1>3, <1>7, ConcatRow
    <2>2. {At("common", Len(fc) + i, Front(cc)[i]) : i \in 1 .. Len(Front(cc))} \subseteq Y0
      BY <1>7
    <2> HIDE DEF Y0
    <2> QED
      BY <2>1, <2>2 DEF PlacesOf
  <1>12. ASSUME NEW z \in Y
         PROVE  \E i \in 1 .. w : /\ z.chunk = cc[i]
                                  /\ z = IF i = w THEN y ELSE At("common", Len(fc) + i, cc[i])
    <2>1. CASE z = y
      <3>1. w \in 1 .. w /\ y.chunk = cc[w]
        BY <1>5, AtIs
      <3> QED
        BY <2>1, <3>1
    <2>2. CASE z # y
      <3>1. PICK i \in 1 .. w - 1 : z = At("common", Len(fc) + i, cc[i])
        BY <2>2, <1>12
      <3>2. i \in 1 .. w /\ i # w /\ z.chunk = cc[i]
        BY <1>5, <3>1, AtIs
      <3> QED
        BY <3>1, <3>2
    <2> QED
      BY <2>1, <2>2
  <1>13. p.chunk = c
    BY AtIs
  <1> HIDE DEF p, y, Y0, Y, N, L
  <1>14. \A z \in Y : /\ z.chunk \in Chunk /\ z.chunk.region = p.chunk.region
                      /\ Units(z.chunk) \subseteq Units(p.chunk)
    BY <1>5, <1>12, <1>13
  <1>15. ASSUME NEW a \in Y, NEW b \in Y, a # b PROVE Apart(a, b)
    <2>1. PICK i \in 1 .. w : a.chunk = cc[i] /\ a = IF i = w THEN y ELSE At("common", Len(fc) + i, cc[i])
      BY <1>12
    <2>2. PICK j \in 1 .. w : b.chunk = cc[j] /\ b = IF j = w THEN y ELSE At("common", Len(fc) + j, cc[j])
      BY <1>12
    <2>3. i # j
      BY <1>15, <2>1, <2>2
    <2>4. Units(cc[i]) = {<<c.region, c.unit + i - 1>>} /\ Units(cc[j]) = {<<c.region, c.unit + j - 1>>}
      BY <1>5
    <2>5. c.unit + i - 1 # c.unit + j - 1
      BY <1>5, <1>6, <2>3
    <2> QED
      BY <2>1, <2>2, <2>4, <2>5 DEF Apart
  <1>16. Places' \subseteq (Places \ {p}) \union Y
    BY <1>4, <1>9, <1>11 DEF Y
  <1>17. Good(Places', occupied)
    BY <1>2, <1>4, <1>14, <1>15, <1>16, Replace
  <1>18. TypeOK'
    BY <1>1, <1>2, <1>9, <1>10 DEF TypeOK
  <1> QED
    BY <1>1, <1>17, <1>18, IInvIs

-----------------------------------------------------------------------------
(* The chunks of a region: the common ones and the first m large ones.     *)
Wide == COMMON_CHUNKS_IN_LARGE_CHUNK
Grid(r, m) ==
  {Common(r, i) : i \in 1 .. REST_COMMON_CHUNKS_IN_REGION} \union {Large(r, i * Wide) : i \in 1 .. m}

(* Where large chunks begin and end.                                       *)
LEMMA Multiples ==
  ASSUME NEW i \in Nat \ {0}
  PROVE  /\ i * Wide \in Nat /\ Wide <= i * Wide
         /\ \A j \in Nat : i < j => i * Wide + Wide <= j * Wide
         /\ i <= LARGE_CHUNKS_IN_REGION => i * Wide + Wide - 1 <= MAX_COMMON_CHUNKS_IN_REGION
  <1>1. Wide \in Nat \ {0} /\ LARGE_CHUNKS_IN_REGION \in Nat
    BY RegionIs DEF Wide
  <1>2. i * Wide \in Nat
    BY <1>1
  <1>3. ASSUME NEW a \in Nat, NEW b \in Nat, a < b PROVE a * Wide + Wide <= b * Wide
    <2>1. b * Wide = a * Wide + Wide + (b - a - 1) * Wide
      BY <1>1
    <2>2. b - a - 1 \in Nat
      BY <1>3
    <2>3. (b - a - 1) * Wide \in Nat
      BY <1>1, <2>2
    <2>4. a * Wide \in Nat
      BY <1>1
    <2> HIDE DEF Wide
    <2> QED
      BY <1>1, <2>1, <2>3, <2>4
  <1>4. Wide <= i * Wide
    <2>1. 0 * Wide + Wide <= i * Wide
      BY <1>3
    <2>2. 0 * Wide = 0
      BY <1>1
    <2> QED
      BY <1>1, <1>2, <2>1, <2>2
  <1>5. ASSUME i <= LARGE_CHUNKS_IN_REGION PROVE i * Wide <= LARGE_CHUNKS_IN_REGION * Wide
    <2>1. CASE i = LARGE_CHUNKS_IN_REGION
      BY <1>2, <2>1
    <2>2. CASE i < LARGE_CHUNKS_IN_REGION
      <3>1. i * Wide + Wide <= LARGE_CHUNKS_IN_REGION * Wide
        BY <1>1, <1>3, <2>2
      <3>2. LARGE_CHUNKS_IN_REGION * Wide \in Nat
        BY <1>1
      <3> QED
        BY <1>1, <1>2, <3>1, <3>2
    <2> QED
      BY <1>1, <1>5, <2>1, <2>2
  <1>6. MAX_COMMON_CHUNKS_IN_REGION = LARGE_CHUNKS_IN_REGION * Wide + Wide - 1
    BY RegionIs DEF Wide
  <1>7. LARGE_CHUNKS_IN_REGION * Wide \in Nat
    BY <1>1
  <1> QED
    BY <1>1, <1>2, <1>3, <1>4, <1>5, <1>6, <1>7

(* The units of a large chunk.                                             *)
LEMMA LargeIs ==
  ASSUME NEW r \in Regions, NEW i \in 1 .. LARGE_CHUNKS_IN_REGION
  PROVE  /\ Large(r, i * Wide) \in Chunk /\ Large(r, i * Wide).region = r
         /\ Large(r, i * Wide).unit = i * Wide
         /\ \A x \in Units(Large(r, i * Wide)) :
              \E u \in i * Wide .. i * Wide + Wide - 1 : x = <<r, u>>
  <1>1. LARGE_CHUNKS_IN_REGION \in Nat /\ Wide \in Nat \ {0}
    BY RegionIs DEF Wide
  <1>2. i \in Nat \ {0}
    BY <1>1
  <1> DEFINE u == i * Wide
             c == Large(r, u)
  <1>3. u \in Nat
    BY <1>2, Multiples
  <1> HIDE DEF u
  <1>4. c \in Chunk /\ c.region = r /\ c.unit = u /\ c.width = Wide
    BY <1>1, <1>3 DEF Large, Chunk, Wide
  <1> HIDE DEF c
  <1>5. \A x \in Units(c) : \E v \in u .. u + Wide - 1 : x = <<r, v>>
    BY <1>4, UnitsAre
  <1> QED
    BY <1>4, <1>5 DEF u, c

(* What a chunk of the grid is.                                            *)
LEMMA GridMember ==
  ASSUME NEW r \in Regions, NEW m \in 0 .. LARGE_CHUNKS_IN_REGION, NEW c \in Grid(r, m)
  PROVE  \/ \E i \in 1 .. REST_COMMON_CHUNKS_IN_REGION :
              c = Common(r, i) /\ i \in Nat \ {0} /\ i < Wide /\ Units(c) = {<<r, i>>}
         \/ \E i \in 1 .. m :
              /\ c = Large(r, i * Wide) /\ i \in 1 .. LARGE_CHUNKS_IN_REGION /\ i \in Nat \ {0}
              /\ \A x \in Units(c) : \E u \in i * Wide .. i * Wide + Wide - 1 : x = <<r, u>>
  <1>1. /\ LARGE_CHUNKS_IN_REGION \in Nat /\ Wide \in Nat \ {0}
        /\ REST_COMMON_CHUNKS_IN_REGION = Wide - 1
    BY RegionIs DEF Wide
  <1>2. CASE \E i \in 1 .. REST_COMMON_CHUNKS_IN_REGION : c = Common(r, i)
    <2>1. PICK i \in 1 .. REST_COMMON_CHUNKS_IN_REGION : c = Common(r, i)
      BY <1>2
    <2>2. i \in Nat \ {0} /\ i < Wide
      BY <1>1
    <2>3. Units(c) = {<<r, i>>}
      BY <2>1, <2>2, CommonIs
    <2> QED
      BY <2>1, <2>2, <2>3
  <1>3. CASE \E i \in 1 .. m : c = Large(r, i * Wide)
    <2>1. PICK i \in 1 .. m : c = Large(r, i * Wide)
      BY <1>3
    <2>2. i \in 1 .. LARGE_CHUNKS_IN_REGION /\ i \in Nat \ {0}
      BY <1>1
    <2>3. \A x \in Units(c) : \E u \in i * Wide .. i * Wide + Wide - 1 : x = <<r, u>>
      BY <2>1, <2>2, LargeIs
    <2> QED
      BY <2>1, <2>2, <2>3
  <1> QED
    BY <1>2, <1>3 DEF Grid

(* The chunks parse_region makes lie in the region, behind its metadata,   *)
(* and apart from one another.                                             *)
LEMMA GridApart ==
  ASSUME NEW r \in Regions, NEW m \in 0 .. LARGE_CHUNKS_IN_REGION,
         NEW c \in Grid(r, m), NEW d \in Grid(r, m)
  PROVE  /\ c \in Chunk /\ c.region = r /\ Units(c) \subseteq Body(r)
         /\ c # d => Units(c) \intersect Units(d) = {}
  <1> DEFINE MAX == MAX_COMMON_CHUNKS_IN_REGION
  <1>1. /\ LARGE_CHUNKS_IN_REGION \in Nat \ {0} /\ Wide \in Nat \ {0} /\ MAX \in Nat
        /\ Wide - 1 <= MAX
    <2>1. LARGE_CHUNKS_IN_REGION * Wide \in Nat
      BY RegionIs DEF Wide
    <2> QED
      BY RegionIs, <2>1 DEF Wide
  <1> HIDE DEF MAX
  <1>2. c \in Chunk /\ c.region = r
    <2>1. \A i \in Nat : Common(r, i) \in Chunk /\ Common(r, i).region = r
      BY CommonIs
    <2>2. \A i \in 1 .. LARGE_CHUNKS_IN_REGION :
            Large(r, i * Wide) \in Chunk /\ Large(r, i * Wide).region = r
      BY LargeIs
    <2> QED
      BY <2>1, <2>2, GridMember
  <1>3. Units(c) \subseteq Body(r)
    <2>1. \A u \in 1 .. MAX : <<r, u>> \in Body(r)
      BY DEF Body, MAX
    <2>2. ASSUME NEW i \in Nat \ {0}, i < Wide, Units(c) = {<<r, i>>}
          PROVE  Units(c) \subseteq Body(r)
      <3>1. i \in 1 .. MAX
        BY <1>1, <2>2
      <3> QED
        BY <2>1, <2>2, <3>1
    <2>3. ASSUME NEW i \in 1 .. LARGE_CHUNKS_IN_REGION,
                 \A x \in Units(c) : \E u \in i * Wide .. i * Wide + Wide - 1 : x = <<r, u>>
          PROVE  Units(c) \subseteq Body(r)
      <3>1. i * Wide \in Nat /\ Wide <= i * Wide /\ i * Wide + Wide - 1 <= MAX
        <4>1. i \in Nat \ {0} /\ i <= LARGE_CHUNKS_IN_REGION
          BY <1>1
        <4> QED
          BY <4>1, Multiples DEF MAX
      <3>2. i * Wide .. i * Wide + Wide - 1 \subseteq 1 .. MAX
        BY <1>1, <3>1
      <3> QED
        BY <2>1, <2>3, <3>2
    <2> QED
      BY <2>2, <2>3, GridMember
  <1>4. ASSUME c # d, NEW x \in Units(c), x \in Units(d) PROVE FALSE
    <2> DEFINE CommonAt(k, i) == k = Common(r, i) /\ Units(k) = {<<r, i>>}
               LargeAt(k, i) == /\ k = Large(r, i * Wide)
                                /\ \A z \in Units(k) : \E u \in i * Wide .. i * Wide + Wide - 1 : z = <<r, u>>
    <2>1. \/ \E i \in Nat \ {0} : i < Wide /\ CommonAt(c, i)
          \/ \E i \in Nat \ {0} : LargeAt(c, i)
      BY GridMember
    <2>2. \/ \E i \in Nat \ {0} : i < Wide /\ CommonAt(d, i)
          \/ \E i \in Nat \ {0} : LargeAt(d, i)
      BY GridMember
    <2>3. ASSUME NEW i, NEW j, CommonAt(c, i), CommonAt(d, j) PROVE FALSE
      <3>1. x = <<r, i>> /\ x = <<r, j>>
        BY <1>4, <2>3
      <3> QED
        BY <1>4, <2>3, <3>1
    <2>4. ASSUME NEW i \in Nat \ {0}, NEW j \in Nat \ {0}, i < Wide,
                 \/ CommonAt(c, i) /\ LargeAt(d, j)
                 \/ CommonAt(d, i) /\ LargeAt(c, j)
          PROVE  FALSE
      <3>1. x = <<r, i>>
        BY <1>4, <2>4
      <3>2. PICK u \in j * Wide .. j * Wide + Wide - 1 : x = <<r, u>>
        BY <1>4, <2>4
      <3>3. j * Wide \in Nat /\ Wide <= j * Wide
        BY Multiples
      <3>4. u = i
        BY <3>1, <3>2
      <3> QED
        BY <1>1, <2>4, <3>2, <3>3, <3>4
    <2>5. ASSUME NEW i \in Nat \ {0}, NEW j \in Nat \ {0}, LargeAt(c, i), LargeAt(d, j) PROVE FALSE
      <3>1. PICK u \in i * Wide .. i * Wide + Wide - 1 : x = <<r, u>>
        BY <1>4, <2>5
      <3>2. PICK v \in j * Wide .. j * Wide + Wide - 1 : x = <<r, v>>
        BY <1>4, <2>5
      <3>3. u = v
        BY <3>1, <3>2
      <3>4. i # j
        BY <1>4, <2>5
      <3>5. /\ i * Wide \in Nat /\ j * Wide \in Nat
            /\ i < j => i * Wide + Wide <= j * Wide
            /\ j < i => j * Wide + Wide <= i * Wide
        BY Multiples
      <3> QED
        BY <1>1, <3>1, <3>2, <3>3, <3>4, <3>5
    <2> QED
      BY <2>1, <2>2, <2>3, <2>4, <2>5
  <1> QED
    BY <1>2, <1>3, <1>4

(* Chunks of a region are known by their numbers.                          *)
LEMMA GridNumbers ==
  ASSUME NEW r, NEW i \in Nat \ {0}, NEW j \in Nat \ {0}
  PROVE  /\ Common(r, i) = Common(r, j) => i = j
         /\ Large(r, i * Wide) = Large(r, j * Wide) => i = j
         /\ i < Wide => Common(r, i) # Large(r, j * Wide)
  <1>1. \A u, v : /\ Common(r, u) = Common(r, v) => u = v
                  /\ Large(r, u) = Large(r, v) => u = v
                  /\ Common(r, u) = Large(r, v) => u = v
    <2>1. \A u : Common(r, u).unit = u /\ Large(r, u).unit = u
      BY DEF Common, Large
    <2> QED
      BY <2>1
  <1>2. /\ i * Wide \in Nat /\ j * Wide \in Nat /\ Wide <= j * Wide
        /\ i < j => i * Wide + Wide <= j * Wide
        /\ j < i => j * Wide + Wide <= i * Wide
    BY Multiples
  <1>3. Wide \in Nat \ {0}
    BY RegionIs DEF Wide
  <1>4. i * Wide = j * Wide => i = j
    BY <1>2, <1>3
  <1>5. i < Wide => i # j * Wide
    BY <1>2, <1>3
  <1> QED
    BY <1>1, <1>4, <1>5

(* New places with one chunk of a region each.                             *)
Sown(Y, r, m) ==
  /\ \A y \in Y : y.chunk \in Grid(r, m)
  /\ \A y, z \in Y : y # z => y.chunk # z.chunk
Larges(s, r, m) ==
  /\ s \in Seq(Chunk) /\ Len(s) = m
  /\ \A i \in 1 .. m : s[i] = Large(r, i * Wide)

(* parse_region.                                                           *)
LEMMA ParseRegion ==
  ASSUME NEW r \in Regions
  PROVE  /\ CommonChunks(r) \in Seq(Chunk) /\ Len(CommonChunks(r)) = REST_COMMON_CHUNKS_IN_REGION
         /\ \A i \in 1 .. REST_COMMON_CHUNKS_IN_REGION : CommonChunks(r)[i] = Common(r, i)
         /\ Larges(LargeChunks(r), r, LARGE_CHUNKS_IN_REGION)
         /\ LargeChunks(r) # <<>>
  <1>1. REST_COMMON_CHUNKS_IN_REGION \in Nat /\ LARGE_CHUNKS_IN_REGION \in Nat \ {0}
    BY RegionIs
  <1>2. \A i \in 1 .. REST_COMMON_CHUNKS_IN_REGION : CommonChunks(r)[i] = Common(r, i) /\ Common(r, i) \in Chunk
    BY <1>1, CommonIs DEF CommonChunks
  <1>3. \A i \in 1 .. LARGE_CHUNKS_IN_REGION :
          LargeChunks(r)[i] = Large(r, i * Wide) /\ Large(r, i * Wide) \in Chunk
    BY LargeIs DEF LargeChunks, Wide
  <1> DEFINE cs == CommonChunks(r)
             ls == LargeChunks(r)
  <1>4. cs \in [1 .. REST_COMMON_CHUNKS_IN_REGION -> Chunk] /\ ls \in [1 .. LARGE_CHUNKS_IN_REGION -> Chunk]
    BY <1>2, <1>3 DEF CommonChunks, LargeChunks
  <1> HIDE DEF cs, ls
  <1>5. cs \in Seq(Chunk) /\ ls \in Seq(Chunk)
    BY <1>1, <1>4
  <1>6. Len(cs) = REST_COMMON_CHUNKS_IN_REGION /\ Len(ls) = LARGE_CHUNKS_IN_REGION
    BY <1>1, <1>4, <1>5
  <1>7. ls # <<>>
    BY <1>1, <1>6
  <1> QED
    BY <1>2, <1>3, <1>5, <1>6, <1>7 DEF cs, ls, Larges

(* All large chunks but the last one.                                      *)
LEMMA LargesFront ==
  ASSUME NEW r, NEW m, NEW s, Larges(s, r, m), s # <<>>
  PROVE  /\ m \in Nat \ {0} /\ Last(s) = Large(r, m * Wide) /\ Last(s) \in Chunk
         /\ Larges(Front(s), r, m - 1)
  <1>1. s \in Seq(Chunk) /\ Len(s) = m /\ \A i \in 1 .. m : s[i] = Large(r, i * Wide)
    BY DEF Larges
  <1>2. /\ Len(s) \in Nat \ {0} /\ Last(s) = s[Len(s)] /\ Last(s) \in Chunk
        /\ Front(s) \in Seq(Chunk) /\ Len(Front(s)) = Len(s) - 1
        /\ \A i \in 1 .. Len(s) - 1 : Front(s)[i] = s[i]
    BY <1>1, Ends
  <1>3. m \in 1 .. m /\ \A i \in 1 .. m - 1 : i \in 1 .. m
    BY <1>1, <1>2
  <1> QED
    BY <1>1, <1>2, <1>3 DEF Larges

(* Places that are numbered without repetition are sown.                   *)
Numbered(Y, r, m, f, g) ==
  \A y \in Y : \/ \E i \in 1 .. REST_COMMON_CHUNKS_IN_REGION : y = f[i] /\ y.chunk = Common(r, i)
               \/ \E i \in 1 .. m : y = g[i] /\ y.chunk = Large(r, i * Wide)

(* Numbered places have different chunks.                                  *)
LEMMA SownByNumber ==
  ASSUME NEW Y, NEW r, NEW m, m \in Nat, NEW f, NEW g, Numbered(Y, r, m, f, g)
  PROVE  Sown(Y, r, m)
  <1> USE DEF Numbered
  <1>1. \A y \in Y : y.chunk \in Grid(r, m)
    BY DEF Grid
  <1>2. ASSUME NEW y \in Y, NEW z \in Y, y.chunk = z.chunk PROVE y = z
    <2>1. REST_COMMON_CHUNKS_IN_REGION = Wide - 1 /\ Wide \in Nat \ {0}
      BY RegionIs DEF Wide
    <2>2. /\ \A i \in 1 .. REST_COMMON_CHUNKS_IN_REGION : i \in Nat \ {0} /\ i < Wide
          /\ \A i \in 1 .. m : i \in Nat \ {0}
      BY <2>1
    <2>3. CASE /\ \E i \in 1 .. REST_COMMON_CHUNKS_IN_REGION : y = f[i] /\ y.chunk = Common(r, i)
               /\ \E i \in 1 .. REST_COMMON_CHUNKS_IN_REGION : z = f[i] /\ z.chunk = Common(r, i)
      BY <1>2, <2>2, <2>3, GridNumbers
    <2>4. CASE /\ \E i \in 1 .. m : y = g[i] /\ y.chunk = Large(r, i * Wide)
               /\ \E i \in 1 .. m : z = g[i] /\ z.chunk = Large(r, i * Wide)
      BY <1>2, <2>2, <2>4, GridNumbers
    <2>5. CASE /\ \E i \in 1 .. REST_COMMON_CHUNKS_IN_REGION : y = f[i] /\ y.chunk = Common(r, i)
               /\ \E i \in 1 .. m : z = g[i] /\ z.chunk = Large(r, i * Wide)
      BY <1>2, <2>2, <2>5, GridNumbers
    <2>6. CASE /\ \E i \in 1 .. REST_COMMON_CHUNKS_IN_REGION : z = f[i] /\ z.chunk = Common(r, i)
               /\ \E i \in 1 .. m : y = g[i] /\ y.chunk = Large(r, i * Wide)
      BY <1>2, <2>2, <2>6, GridNumbers
    <2> QED
      BY <2>3, <2>4, <2>5, <2>6
  <1> QED
    BY <1>1, <1>2 DEF Sown

(* handle_state: the chunks of the new region go to the stacks and to the  *)
(* tables, each to one place.                                              *)
LEMMA HandleStateIs ==
  ASSUME TypeOK, NEW r \in Regions, NEW m \in Nat, NEW larges, Larges(larges, r, m),
         NEW n \in 0 .. REST_COMMON_CHUNKS_IN_REGION, NEW size \in CommonSizes,
         NEW own, own = {} \/ \E s \in LargeSizes : own = {s},
         own # {} => larges # <<>>, HandleState(r, larges, n, size, own)
  PROVE  /\ free_common_chunks' \in Seq(Chunk) /\ free_large_chunks' \in Seq(Chunk)
         /\ carved' \subseteq [chunk : Chunk, size : Sizes]
         /\ \E Y : /\ Sown(Y, r, m)
                   /\ PlacesOf(free_common_chunks', free_large_chunks', calls, carved')
                        \subseteq Places \union Y
  <1> DEFINE K == REST_COMMON_CHUNKS_IN_REGION
             k == K - n
             fc == free_common_chunks
             fl == free_large_chunks
             cs == SubSeq(CommonChunks(r), 1, k)
             ls == IF own = {} THEN larges ELSE Front(larges)
             used == {CommonChunks(r)[i] : i \in k + 1 .. K}
             last == {Last(larges) : s \in own}
             new1 == {[chunk |-> c, size |-> size] : c \in used}
             new2 == {[chunk |-> c, size |-> s] : c \in last, s \in own}
             m2 == Len(ls)
  <1>1. K \in Nat /\ n \in Nat /\ k \in Nat /\ k <= K
    BY RegionIs
  <1>2. /\ CommonChunks(r) \in Seq(Chunk) /\ Len(CommonChunks(r)) = K
        /\ \A i \in 1 .. K : CommonChunks(r)[i] = Common(r, i) /\ Common(r, i) \in Chunk
    <2>1. \A i \in 1 .. K : Common(r, i) \in Chunk
      BY <1>1, CommonIs
    <2> QED
      BY <2>1, ParseRegion
  <1>3. /\ free_common_chunks' = fc \o cs /\ free_large_chunks' = fl \o ls
        /\ carved' = carved \union new1 \union new2
    BY <1>2 DEF HandleState
  <1>4. fc \in Seq(Chunk) /\ fl \in Seq(Chunk) /\ carved \subseteq [chunk : Chunk, size : Sizes]
    BY DEF TypeOK
  <1> HIDE DEF k, K
  <1>5. cs \in Seq(Chunk) /\ Len(cs) = k /\ \A i \in 1 .. k : cs[i] = Common(r, i)
    <2>1. \A i \in 1 .. k : i \in 1 .. K /\ CommonChunks(r)[i] \in Chunk
      BY <1>1, <1>2
    <2>2. 1 \in Int /\ k \in Int
      BY <1>1
    <2>3. /\ cs \in Seq(Chunk) /\ Len(cs) = (IF 1 <= k THEN k - 1 + 1 ELSE 0)
          /\ \A i \in 1 .. k - 1 + 1 : cs[i] = CommonChunks(r)[1 + i - 1]
      BY <2>1, <2>2, SubSeqProperties
    <2>4. Len(cs) = k /\ \A i \in 1 .. k : cs[i] = CommonChunks(r)[i]
      BY <1>1, <2>3
    <2> QED
      BY <1>2, <2>1, <2>3, <2>4
  <1> HIDE DEF cs
  <1>6. /\ ls \in Seq(Chunk) /\ m2 \in Nat /\ m2 <= m /\ (own # {} => m2 = m - 1 /\ m \in Nat \ {0})
        /\ \A i \in 1 .. m2 : ls[i] = Large(r, i * Wide)
        /\ own # {} => Last(larges) = Large(r, m * Wide) /\ Last(larges) \in Chunk
    <2>1. CASE own = {}
      BY <2>1 DEF Larges
    <2>2. CASE own # {}
      <3>1. m \in Nat \ {0} /\ Last(larges) = Large(r, m * Wide) /\ Last(larges) \in Chunk
        BY <2>2, LargesFront
      <3>2. Larges(Front(larges), r, m - 1)
        BY <2>2, LargesFront
      <3> QED
        BY <2>2, <3>1, <3>2 DEF Larges
    <2> QED
      BY <2>1, <2>2
  <1> HIDE DEF ls, m2
  <1>7. fc \o cs \in Seq(Chunk) /\ fl \o ls \in Seq(Chunk)
    BY <1>4, <1>5, <1>6, ConcatProperties
  <1>8. size \in Sizes /\ \A s \in own : s \in Sizes /\ own = {s}
    BY DEF Sizes
  <1>9. \A c \in used : \E i \in k + 1 .. K : i \in 1 .. K /\ c = Common(r, i) /\ c \in Chunk
    <2>1. \A i \in k + 1 .. K : i \in 1 .. K
      BY <1>1
    <2> QED
      BY <1>2, <2>1
  <1> HIDE DEF used
  <1>10. carved' \subseteq [chunk : Chunk, size : Sizes]
    <2>1. new1 \subseteq [chunk : Chunk, size : Sizes]
      BY <1>8, <1>9
    <2>2. new2 \subseteq [chunk : Chunk, size : Sizes]
      BY <1>6, <1>8
    <2> HIDE DEF new1, new2
    <2> QED
      BY <1>3, <1>4, <2>1, <2>2
  <1> DEFINE s0 == CHOOSE s \in own : TRUE
             f == [i \in 1 .. K |-> IF i <= k THEN At("common", Len(fc) + i, Common(r, i))
                                    ELSE At("carved", size, Common(r, i))]
             g == [i \in 1 .. m |-> IF i <= m2 THEN At("large", Len(fl) + i, Large(r, i * Wide))
                                    ELSE At("carved", s0, Large(r, i * Wide))]
             Y == {f[i] : i \in 1 .. K} \union {g[i] : i \in 1 .. m}
  <1>11. Sown(Y, r, m)
    <2>1. ASSUME NEW y \in Y
          PROVE  \/ \E i \in 1 .. K : y = f[i] /\ y.chunk = Common(r, i)
                 \/ \E i \in 1 .. m : y = g[i] /\ y.chunk = Large(r, i * Wide)
      <3>1. \A i \in 1 .. K : f[i].chunk = Common(r, i)
        BY AtIs
      <3>2. \A i \in 1 .. m : g[i].chunk = Large(r, i * Wide)
        BY AtIs
      <3> HIDE DEF f, g
      <3> QED
        BY <3>1, <3>2
    <2> HIDE DEF f, g, Y
    <2> QED
      <3>1. Numbered(Y, r, m, f, g)
        BY <2>1 DEF K, Numbered
      <3> QED
        BY <3>1, SownByNumber
  <1>12. Row("common", fc \o cs) \subseteq Row("common", fc) \union Y
    <2>1. Row("common", fc \o cs) \subseteq
            Row("common", fc) \union {At("common", Len(fc) + i, cs[i]) : i \in 1 .. Len(cs)}
      BY <1>4, <1>5, ConcatRow
    <2>2. ASSUME NEW i \in 1 .. Len(cs) PROVE At("common", Len(fc) + i, cs[i]) \in Y
      <3>1. i \in 1 .. K /\ i <= k /\ cs[i] = Common(r, i)
        BY <1>1, <1>5
      <3>2. f[i] = At("common", Len(fc) + i, cs[i])
        BY <3>1
      <3> HIDE DEF f
      <3> QED
        BY <3>1, <3>2
    <2> HIDE DEF Y
    <2> QED
      BY <2>1, <2>2
  <1>13. Row("large", fl \o ls) \subseteq Row("large", fl) \union Y
    <2>1. Row("large", fl \o ls) \subseteq
            Row("large", fl) \union {At("large", Len(fl) + i, ls[i]) : i \in 1 .. Len(ls)}
      BY <1>4, <1>6, ConcatRow
    <2>2. ASSUME NEW i \in 1 .. Len(ls) PROVE At("large", Len(fl) + i, ls[i]) \in Y
      <3>1. i \in 1 .. m /\ i <= m2 /\ ls[i] = Large(r, i * Wide)
        BY <1>6 DEF m2
      <3>2. g[i] = At("large", Len(fl) + i, ls[i])
        BY <3>1
      <3> HIDE DEF g
      <3> QED
        BY <3>1, <3>2
    <2> HIDE DEF Y
    <2> QED
      BY <2>1, <2>2
  <1>14. ASSUME NEW q \in new1 \union new2 PROVE At("carved", q.size, q.chunk) \in Y
    <2>1. CASE q \in new1
      <3>1. PICK c \in used : q = [chunk |-> c, size |-> size]
        BY <2>1
      <3>2. PICK i \in k + 1 .. K : i \in 1 .. K /\ c = Common(r, i)
        BY <1>9
      <3>3. ~(i <= k)
        BY <1>1, <3>2
      <3>4. f[i] = At("carved", size, c)
        BY <3>2, <3>3
      <3>5. q.size = size /\ q.chunk = c
        BY <3>1
      <3> HIDE DEF f
      <3> QED
        BY <3>2, <3>4, <3>5
    <2>2. CASE q \in new2
      <3>1. PICK c \in last, s \in own : q = [chunk |-> c, size |-> s]
        BY <2>2
      <3>2. q.size = s /\ q.chunk = c
        BY <3>1
      <3>3. s = s0
        BY <1>8
      <3>4. c = Large(r, m * Wide) /\ m \in 1 .. m /\ ~(m <= m2)
        BY <1>6
      <3> HIDE DEF s0
      <3>5. g[m] = At("carved", s, c)
        BY <3>3, <3>4
      <3> HIDE DEF g
      <3> QED
        BY <3>2, <3>4, <3>5
    <2> QED
      BY <2>1, <2>2
  <1> HIDE DEF Y, new1, new2
  <1>15. CarvedRow(carved') \subseteq CarvedRow(carved) \union Y
    BY <1>3, <1>14 DEF CarvedRow
  <1>16. PlacesOf(fc \o cs, fl \o ls, calls, carved') \subseteq Places \union Y
    BY <1>12, <1>13, <1>15, PlacesAre DEF PlacesOf
  <1> QED
    BY <1>3, <1>7, <1>10, <1>11, <1>16

(* What the next state has of the region that was mapped.                  *)
LEMMA StateOfIs ==
  ASSUME IInv, NEW r \in Regions, NEW m \in Nat, NEW larges, Larges(larges, r, m), StateOf(r, larges)
  PROVE  /\ Opened(occupied, r, occupied')
         /\ free_common_chunks' \in Seq(Chunk) /\ free_large_chunks' \in Seq(Chunk)
         /\ carved' \subseteq [chunk : Chunk, size : Sizes]
         /\ occupied' = [q \in DOMAIN occupied' |-> occupied'[q]]
         /\ \E Y : /\ Sown(Y, r, m)
                   /\ PlacesOf(free_common_chunks', free_large_chunks', calls, carved')
                        \subseteq Places \union Y
  <1>1. r \notin DOMAIN occupied
    BY DEF StateOf
  <1>2. PICK n \in 0 .. REST_COMMON_CHUNKS_IN_REGION, size \in CommonSizes :
          \E own \in {{}} \union {{s} : s \in LargeSizes} :
            (own # {} => larges # <<>>) /\ HandleState(r, larges, n, size, own)
    BY DEF StateOf
  <1>3. PICK own \in {{}} \union {{s} : s \in LargeSizes} :
          (own # {} => larges # <<>>) /\ HandleState(r, larges, n, size, own)
    BY <1>2
  <1>4. TypeOK
    BY DEF IInv
  <1>5. own = {} \/ \E s \in LargeSizes : own = {s}
    OBVIOUS
  <1>6. /\ free_common_chunks' \in Seq(Chunk) /\ free_large_chunks' \in Seq(Chunk)
        /\ carved' \subseteq [chunk : Chunk, size : Sizes]
        /\ \E Y : /\ Sown(Y, r, m)
                  /\ PlacesOf(free_common_chunks', free_large_chunks', calls, carved')
                       \subseteq Places \union Y
    BY <1>3, <1>4, <1>5, HandleStateIs
  <1>7. occupied' = [q \in DOMAIN occupied \union {r} |->
                       IF q = r THEN MAX_COMMON_CHUNKS_IN_REGION ELSE occupied[q]]
    BY <1>3 DEF HandleState
  <1>8. Opened(occupied, r, occupied') /\ occupied' = [q \in DOMAIN occupied' |-> occupied'[q]]
    BY <1>1, <1>7 DEF Opened
  <1> QED
    BY <1>6, <1>8

(* Chunks of the grid are fresh ones.                                      *)
LEMMA SownFresh ==
  ASSUME NEW r \in Regions, NEW m \in 0 .. LARGE_CHUNKS_IN_REGION, NEW Y, Sown(Y, r, m)
  PROVE  Fresh(Y, r)
  BY GridApart DEF Sown, Fresh, Apart

(* A region is mapped for the allocator's own vectors.                     *)
LEMMA SlowSelfAllocStep ==
  ASSUME IInv, NEW r \in Regions, SlowSelfAlloc(r)
  PROVE  IInv'
  <1> DEFINE m == LARGE_CHUNKS_IN_REGION
  <1>1. m \in Nat /\ m \in 0 .. m
    BY RegionIs
  <1>2. StateOf(r, LargeChunks(r)) /\ calls' = calls
    BY DEF SlowSelfAlloc
  <1>3. Larges(LargeChunks(r), r, m)
    BY ParseRegion
  <1>4. /\ Opened(occupied, r, occupied')
        /\ free_common_chunks' \in Seq(Chunk) /\ free_large_chunks' \in Seq(Chunk)
        /\ carved' \subseteq [chunk : Chunk, size : Sizes]
        /\ occupied' = [q \in DOMAIN occupied' |-> occupied'[q]]
        /\ \E Y : /\ Sown(Y, r, m)
                  /\ PlacesOf(free_common_chunks', free_large_chunks', calls, carved')
                       \subseteq Places \union Y
    BY <1>1, <1>2, <1>3, StateOfIs
  <1>5. PICK Y : Sown(Y, r, m) /\ Places' \subseteq Places \union Y
    BY <1>2, <1>4, PlacesAre
  <1>6. Good(Places, occupied) /\ Counts(occupied) /\ TypeOK
    BY IInvIs
  <1>7. Fresh(Y, r)
    BY <1>1, <1>5, SownFresh
  <1>8. Good(Places', occupied') /\ Counts(occupied')
    BY <1>4, <1>5, <1>6, <1>7, NewRegion
  <1>9. occupied' \in [DOMAIN occupied' -> Nat] /\ DOMAIN occupied' \subseteq Regions
    BY <1>4, <1>8 DEF Counts
  <1>10. TypeOK'
    BY <1>2, <1>4, <1>6, <1>9 DEF TypeOK
  <1> QED
    BY <1>8, <1>10, IInvIs

(* A region is mapped, and its last large chunk goes to the call.          *)
LEMMA AllocLargeChunkStep ==
  ASSUME IInv, NEW r \in Regions, NEW at \in {"split", "carve"}, NEW size \in Sizes,
         AllocLargeChunk(r, at, size)
  PROVE  IInv'
  <1> DEFINE m == LARGE_CHUNKS_IN_REGION
             c == Last(LargeChunks(r))
             e == Call(c, at, size, TRUE)
             y == At("call", 1, c)
  <1>1. m \in Nat \ {0} /\ m - 1 \in Nat /\ m - 1 \in 0 .. m /\ m \in 0 .. m /\ m \in 1 .. m
    BY RegionIs
  <1>2. calls = <<>> /\ StateOf(r, Front(LargeChunks(r))) /\ calls' = <<e>>
    BY DEF AllocLargeChunk
  <1>3. c = Large(r, m * Wide) /\ c \in Chunk /\ Larges(Front(LargeChunks(r)), r, m - 1)
    BY ParseRegion, LargesFront
  <1>4. /\ Opened(occupied, r, occupied')
        /\ free_common_chunks' \in Seq(Chunk) /\ free_large_chunks' \in Seq(Chunk)
        /\ carved' \subseteq [chunk : Chunk, size : Sizes]
        /\ occupied' = [q \in DOMAIN occupied' |-> occupied'[q]]
        /\ \E Y : /\ Sown(Y, r, m - 1)
                  /\ PlacesOf(free_common_chunks', free_large_chunks', calls, carved')
                       \subseteq Places \union Y
    BY <1>1, <1>2, <1>3, StateOfIs
  <1>5. PICK Y : /\ Sown(Y, r, m - 1)
                 /\ PlacesOf(free_common_chunks', free_large_chunks', calls, carved')
                      \subseteq Places \union Y
    BY <1>4
  <1>6. Good(Places, occupied) /\ Counts(occupied) /\ TypeOK
    BY IInvIs
  <1>7. e \in Held /\ e.chunk = c
    BY <1>3, CallIs
  <1> DEFINE Z == Y \union {y}
  <1>8. calls' \in Seq(Held) /\ Places' \subseteq Places \union Z
    <2>1. calls' = Append(calls, e)
      BY <1>2
    <2>2. calls \in Seq(Held) /\ Len(calls) + 1 = 1
      BY <1>2, <1>6 DEF TypeOK
    <2> HIDE DEF e, c
    <2>3. /\ Append(calls, e) \in Seq(Held)
          /\ PlacesOf(free_common_chunks', free_large_chunks', Append(calls, e), carved')
               \subseteq PlacesOf(free_common_chunks', free_large_chunks', calls, carved')
                         \union {At("call", Len(calls) + 1, e.chunk)}
      BY <1>7, <2>2, PushCall
    <2>4. At("call", Len(calls) + 1, e.chunk) = y
      BY <1>7, <2>2
    <2> HIDE DEF y
    <2> QED
      BY <1>5, <2>1, <2>3, <2>4, PlacesAre
  <1>9. Sown(Z, r, m)
    <2>1. y.chunk = Large(r, m * Wide)
      BY <1>3, AtIs
    <2>2. Grid(r, m - 1) \subseteq Grid(r, m) /\ Large(r, m * Wide) \in Grid(r, m)
      BY <1>1 DEF Grid
    <2>3. \A d \in Grid(r, m - 1) : d # Large(r, m * Wide)
      <3>1. REST_COMMON_CHUNKS_IN_REGION = Wide - 1 /\ Wide \in Nat \ {0}
        BY RegionIs DEF Wide
      <3>2. /\ \A i \in 1 .. REST_COMMON_CHUNKS_IN_REGION : i \in Nat \ {0} /\ i < Wide
            /\ \A i \in 1 .. m - 1 : i \in Nat \ {0} /\ i # m
        BY <1>1, <3>1
      <3> QED
        BY <1>1, <3>2, GridNumbers DEF Grid
    <2> HIDE DEF y, m
    <2> QED
      BY <1>5, <2>1, <2>2, <2>3 DEF Sown
  <1> HIDE DEF Z
  <1>10. Fresh(Z, r)
    BY <1>1, <1>9, SownFresh
  <1>11. Good(Places', occupied') /\ Counts(occupied')
    BY <1>4, <1>6, <1>8, <1>10, NewRegion
  <1>12. occupied' \in [DOMAIN occupied' -> Nat] /\ DOMAIN occupied' \subseteq Regions
    BY <1>4, <1>11 DEF Counts
  <1>13. TypeOK'
    BY <1>4, <1>6, <1>8, <1>12 DEF TypeOK
  <1> QED
    BY <1>11, <1>13, IInvIs

-----------------------------------------------------------------------------
(* Every step keeps the invariant.                                         *)
LEMMA StepInv == IInv /\ [Next]_vars => IInv'
  <1> SUFFICES ASSUME IInv, [Next]_vars PROVE IInv'
    OBVIOUS
  <1>1. ASSUME NEW size \in CommonSizes, GetCommonChunk(size) PROVE IInv'
    BY <1>1, GetCommonChunkStep
  <1>2. ASSUME NEW size \in CommonSizes, GetCommonChunkSlow(size) PROVE IInv'
    BY <1>2, GetCommonChunkSlowStep
  <1>3. ASSUME NEW size \in LargeSizes, GetLargeChunk(size) PROVE IInv'
    BY <1>3, GetLargeChunkStep
  <1>4. ASSUME NEW r \in Regions, NEW at \in {"split", "carve"}, NEW size \in Sizes,
               AllocLargeChunk(r, at, size)
        PROVE  IInv'
    BY <1>4, AllocLargeChunkStep
  <1>5. ASSUME NEW r \in Regions, SlowSelfAlloc(r) PROVE IInv'
    BY <1>5, SlowSelfAllocStep
  <1>6. CASE PutBackLarge
    BY <1>6, PutBackLargeStep
  <1>7. CASE BeginSplit
    BY <1>7, BeginSplitStep
  <1>8. CASE SplitLarge
    BY <1>8, SplitLargeStep
  <1>9. CASE LoseChunk
    BY <1>9, LoseChunkStep
  <1>10. CASE Carve
    BY <1>10, CarveStep
  <1>11. CASE FreeChunk
    BY <1>11, FreeChunkStep
  <1>12. CASE FreeAllMemory
    BY <1>12, FreeAllMemoryStep
  <1>13. CASE UNCHANGED vars
    <2>1. Places' = Places /\ occupied' = occupied
      BY <1>13 DEF vars, Places
    <2>2. TypeOK'
      BY <1>13 DEF vars, IInv, TypeOK
    <2>3. Good(Places', occupied')
      BY <2>1, IInvIs
    <2> QED
      BY <2>2, <2>3, IInvIs
  <1> QED
    BY <1>1, <1>2, <1>3, <1>4, <1>5, <1>6, <1>7, <1>8, <1>9, <1>10, <1>11, <1>12, <1>13 DEF Next

(* The invariant holds in every reachable state, for regions of any shape  *)
(* and any number of them, any sizes and any depth of nested calls.        *)
THEOREM Invariance == Spec => []IInv
  BY InitInv, StepInv, PTL DEF Spec

(* No byte belongs to two chunks, whatever get_common_chunk_slow puts back *)
(* or splits, handle_state brings, or nested self-allocations take while a *)
(* call holds a chunk.                                                     *)
THEOREM Disjointness == Spec => []ChunksDisjoint
  <1>1. IInv => ChunksDisjoint
    BY DEF IInv
  <1> QED
    BY <1>1, Invariance, PTL

(* number_of_common_chunks_occupied is never below what is in use of a     *)
(* region, so free_common and free_large unmap only what nobody uses.      *)
THEOREM Coverage == Spec => []CountCoversUse
  <1>1. IInv => CountCoversUse
    BY DEF IInv
  <1> QED
    BY <1>1, Invariance, PTL
=============================================================================
