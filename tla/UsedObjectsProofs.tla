-------------------------- MODULE UsedObjectsProofs --------------------------
(***************************************************************************)
(* Proofs about UsedObjects, by induction over the array, and the facts    *)
(* about sequences that other proofs need the same kind of induction for.  *)
(*                                                                         *)
(* The induction is that a set of natural numbers has a least element,     *)
(* which follows from the library's theorem that inclusion of finite sets  *)
(* is well founded.                                                        *)
(***************************************************************************)
EXTENDS UsedObjects, FiniteSetTheorems, TLAPS

(* A set of natural numbers has a least element.                           *)
LEMMA Least ==
  ASSUME NEW T, T \subseteq Nat, T # {}
  PROVE  \E x \in T : \A y \in T : x <= y
<1>1. PICK t \in T : TRUE
  OBVIOUS
<1> DEFINE F == {1 .. n : n \in T}
<1>2. F \subseteq FiniteSubsetsOf(Nat)
  <2>1. SUFFICES ASSUME NEW n \in T PROVE 1 .. n \in FiniteSubsetsOf(Nat)
    OBVIOUS
  <2>2. IsFiniteSet(1 .. n)
    BY FS_Interval
  <2> QED BY <2>2 DEF FiniteSubsetsOf
<1>3. F # {}
  BY <1>1
<1>4. IsWellFoundedOn(StrictSubsetOrdering(Nat), FiniteSubsetsOf(Nat))
  BY FS_StrictSubsetOrderingWellFounded
<1> HIDE DEF F
<1>5. PICK X \in F : \A Y \in F : ~ (<<Y, X>> \in StrictSubsetOrdering(Nat))
  BY <1>2, <1>3, <1>4, WFMin
<1>6. PICK x \in T : X = 1 .. x
  BY DEF F
<1>7. ASSUME NEW y \in T PROVE x <= y
  <2>1. 1 .. y \in F
    BY DEF F
  <2>2. ASSUME y < x PROVE FALSE
    <3>1. 1 .. y \subseteq 1 .. x /\ x \in 1 .. x /\ x \notin 1 .. y
      BY <2>2
    <3>2. <<1 .. y, 1 .. x>> \in StrictSubsetOrdering(Nat)
      BY <3>1 DEF StrictSubsetOrdering
    <3> QED BY <3>2, <2>1, <1>5, <1>6
  <2> QED BY <2>2
<1> QED BY <1>7

(* Induction up to a bound, for a set of numbers.                          *)
LEMMA UpTo ==
  ASSUME NEW n \in Nat, NEW S, 0 \in S,
         \A m \in 0 .. n : m + 1 <= n /\ m \in S => m + 1 \in S
  PROVE  \A m \in 0 .. n : m \in S
<1> DEFINE T == {m \in 0 .. n : m \notin S}
<1> SUFFICES ASSUME T # {} PROVE FALSE
  OBVIOUS
<1>0. T \subseteq Nat
  OBVIOUS
<1>1. PICK x \in T : \A y \in T : x <= y
  <2> HIDE DEF T
  <2> QED BY <1>0, Least
<1>2. x \in 0 .. n /\ x \notin S /\ x # 0
  OBVIOUS
<1>3. x - 1 \in 0 .. n /\ x - 1 + 1 = x /\ ~ (x <= x - 1)
  BY <1>2
<1>4. x - 1 \in S
  BY <1>1, <1>3
<1> QED BY <1>2, <1>3, <1>4

-----------------------------------------------------------------------------
(* The array                                                               *)

Entry == [number : Nat, size : Nat]
Sorted(arr) ==
  /\ arr \in Seq(Entry)
  /\ \A i, j \in DOMAIN arr : i < j => arr[i].size < arr[j].size

(* What binary_search looks for in arr[low .. high - 1].                   *)
Hit(arr, s, low, high, hit) ==
  \/ /\ hit.found = TRUE /\ hit.at \in low .. high - 1 /\ arr[hit.at].size = s
  \/ /\ hit.found = FALSE /\ hit.at \in low .. high
     /\ \A i \in low .. hit.at - 1 : arr[i].size < s
     /\ \A i \in hit.at .. high - 1 : arr[i].size > s

IsHit(hit) == hit = [found |-> hit.found, at |-> hit.at]

Ranges(arr) == (1 .. Len(arr) + 1) \X (1 .. Len(arr) + 1)

(* The body of the loop, with the rest of the loop as f.                   *)
Narrow(arr, s, f, range) ==
  LET low == range[1]
      high == range[2]
      mid == (low + high) \div 2 IN
  IF low >= high THEN [found |-> FALSE, at |-> low]
  ELSE IF arr[mid].size < s THEN f[<<mid + 1, high>>]
  ELSE IF arr[mid].size > s THEN f[<<low, mid>>]
  ELSE [found |-> TRUE, at |-> mid]
Search(arr, s, f) == f = [range \in Ranges(arr) |-> Narrow(arr, s, f, range)]

(* The middle lies in the range.                                           *)
LEMMA Middle ==
  ASSUME NEW low \in Nat, NEW high \in Nat, low < high
  PROVE  /\ (low + high) \div 2 \in Nat
         /\ low <= (low + high) \div 2 /\ (low + high) \div 2 < high
OBVIOUS

(* The shape of a sorted array.                                            *)
LEMMA SortedIs ==
  ASSUME NEW arr, Sorted(arr)
  PROVE  /\ Len(arr) \in Nat /\ DOMAIN arr = 1 .. Len(arr)
         /\ \A i \in DOMAIN arr : arr[i] \in Entry /\ arr[i].size \in Nat /\ arr[i].number \in Nat
         /\ \A i, j \in DOMAIN arr : i < j => arr[i].size < arr[j].size
<1>1. arr \in Seq(Entry) /\ \A i, j \in DOMAIN arr : i < j => arr[i].size < arr[j].size
  BY DEF Sorted
<1>2. Len(arr) \in Nat /\ DOMAIN arr = 1 .. Len(arr)
  BY <1>1
<1>3. \A i \in DOMAIN arr : arr[i] \in Entry
  BY <1>1
<1> QED BY <1>1, <1>2, <1>3 DEF Entry

(* In a sorted array there is something to find in every range.            *)
LEMMA HitExists ==
  ASSUME NEW arr, Sorted(arr), NEW s \in Nat,
         NEW low \in 1 .. Len(arr) + 1, NEW high \in 1 .. Len(arr) + 1, low <= high
  PROVE  \E hit : Hit(arr, s, low, high, hit) /\ IsHit(hit)
<1> DEFINE T == {i \in low .. high : i = high \/ arr[i].size >= s}
<1>0. T \subseteq Nat /\ T # {}
  <2>0. Len(arr) \in Nat
    BY SortedIs
  <2>1. low \in Nat /\ high \in Nat
    BY <2>0
  <2>2. high \in low .. high
    BY <2>1
  <2>3. high \in T
    BY <2>2
  <2>4. low .. high \subseteq Nat
    BY <2>1
  <2> QED BY <2>3, <2>4
<1>1. PICK x \in T : \A y \in T : x <= y
  <2> HIDE DEF T
  <2> QED BY <1>0, Least
<1>2. Len(arr) \in Nat /\ DOMAIN arr = 1 .. Len(arr) /\ \A i \in DOMAIN arr : arr[i].size \in Nat
  BY SortedIs
<1>3. \A i \in low .. x - 1 : arr[i].size < s
  <2> SUFFICES ASSUME NEW i \in low .. x - 1 PROVE arr[i].size < s
    OBVIOUS
  <2>1. i \notin T /\ i \in low .. high /\ i # high /\ i \in DOMAIN arr
    BY <1>1, <1>2
  <2> QED BY <2>1, <1>2
<1>4. CASE x # high /\ arr[x].size = s
  <2> DEFINE hit == [found |-> TRUE, at |-> x]
  <2>1. Hit(arr, s, low, high, hit)
    BY <1>4 DEF Hit
  <2> QED BY <2>1 DEF IsHit
<1>5. CASE ~ (x # high /\ arr[x].size = s)
  <2> DEFINE hit == [found |-> FALSE, at |-> x]
  <2>1. \A i \in x .. high - 1 : arr[i].size > s
    <3> SUFFICES ASSUME NEW i \in x .. high - 1 PROVE arr[i].size > s
      OBVIOUS
    <3>1. x \in DOMAIN arr /\ i \in DOMAIN arr /\ x # high
      BY <1>2
    <3>2. arr[x].size > s
      BY <1>5, <3>1, <1>2
    <3>3. i = x \/ arr[x].size < arr[i].size
      BY <3>1, <1>2 DEF Sorted
    <3> QED BY <3>1, <3>2, <3>3, <1>2
  <2>2. Hit(arr, s, low, high, hit)
    BY <1>3, <2>1 DEF Hit
  <2> QED BY <2>2 DEF IsHit
<1> QED BY <1>4, <1>5

(* ... and only one thing.                                                 *)
LEMMA HitUnique ==
  ASSUME NEW arr, Sorted(arr), NEW s \in Nat,
         NEW low \in 1 .. Len(arr) + 1, NEW high \in 1 .. Len(arr) + 1,
         NEW g, NEW h, IsHit(g), IsHit(h),
         Hit(arr, s, low, high, g), Hit(arr, s, low, high, h)
  PROVE  g = h
<1>1. /\ Len(arr) \in Nat /\ DOMAIN arr = 1 .. Len(arr)
      /\ \A i \in DOMAIN arr : arr[i].size \in Nat
      /\ \A i, j \in DOMAIN arr : i < j => arr[i].size < arr[j].size
  BY SortedIs
<1>2. \A i \in low .. high - 1 : i \in DOMAIN arr
  BY <1>1
<1>3. g.found = h.found
  <2>1. ASSUME g.found = TRUE, h.found = FALSE PROVE FALSE
    <3>1. g.at \in low .. high - 1 /\ arr[g.at].size = s
      BY <2>1 DEF Hit
    <3>2. h.at \in low .. high /\ (\A i \in low .. h.at - 1 : arr[i].size < s)
          /\ \A i \in h.at .. high - 1 : arr[i].size > s
      BY <2>1 DEF Hit
    <3>3. g.at \in low .. h.at - 1 \/ g.at \in h.at .. high - 1
      BY <3>1, <3>2
    <3> QED BY <3>1, <3>2, <3>3, <1>1, <1>2
  <2>2. ASSUME g.found = FALSE, h.found = TRUE PROVE FALSE
    <3>1. h.at \in low .. high - 1 /\ arr[h.at].size = s
      BY <2>2 DEF Hit
    <3>2. g.at \in low .. high /\ (\A i \in low .. g.at - 1 : arr[i].size < s)
          /\ \A i \in g.at .. high - 1 : arr[i].size > s
      BY <2>2 DEF Hit
    <3>3. h.at \in low .. g.at - 1 \/ h.at \in g.at .. high - 1
      BY <3>1, <3>2
    <3> QED BY <3>1, <3>2, <3>3, <1>1, <1>2
  <2>3. (g.found = TRUE \/ g.found = FALSE) /\ (h.found = TRUE \/ h.found = FALSE)
    BY DEF Hit
  <2>4. CASE g.found = TRUE
    <3>1. h.found = TRUE
      BY <2>1, <2>3, <2>4
    <3> QED BY <2>4, <3>1
  <2>5. CASE g.found = FALSE
    <3>1. h.found = FALSE
      BY <2>2, <2>3, <2>5
    <3> QED BY <2>5, <3>1
  <2> QED BY <2>3, <2>4, <2>5
<1>4. g.at = h.at
  <2>1. CASE g.found = TRUE
    <3>1. g.at \in low .. high - 1 /\ arr[g.at].size = s /\ h.at \in low .. high - 1 /\ arr[h.at].size = s
      BY <2>1, <1>3 DEF Hit
    <3>2. ~ (g.at < h.at) /\ ~ (h.at < g.at)
      BY <3>1, <1>1, <1>2
    <3> QED BY <3>1, <3>2
  <2>2. CASE g.found = FALSE
    <3>1. g.at \in low .. high /\ (\A i \in low .. g.at - 1 : arr[i].size < s)
          /\ \A i \in g.at .. high - 1 : arr[i].size > s
      BY <2>2 DEF Hit
    <3>2. h.at \in low .. high /\ (\A i \in low .. h.at - 1 : arr[i].size < s)
          /\ \A i \in h.at .. high - 1 : arr[i].size > s
      BY <2>2, <1>3 DEF Hit
    <3>3. ASSUME g.at < h.at PROVE FALSE
      <4>1. g.at \in low .. h.at - 1 /\ g.at \in g.at .. high - 1 /\ g.at \in low .. high - 1
        BY <3>1, <3>2, <3>3
      <4>2. arr[g.at].size < s /\ arr[g.at].size > s
        BY <4>1, <3>1, <3>2
      <4>3. arr[g.at].size \in Nat
        BY <4>1, <1>1, <1>2
      <4> QED BY <4>2, <4>3
    <3>4. ASSUME h.at < g.at PROVE FALSE
      <4>1. h.at \in low .. g.at - 1 /\ h.at \in h.at .. high - 1 /\ h.at \in low .. high - 1
        BY <3>1, <3>2, <3>4
      <4>2. arr[h.at].size < s /\ arr[h.at].size > s
        BY <4>1, <3>1, <3>2
      <4>3. arr[h.at].size \in Nat
        BY <4>1, <1>1, <1>2
      <4> QED BY <4>2, <4>3
    <3> QED BY <3>1, <3>2, <3>3, <3>4
  <2> QED BY <2>1, <2>2 DEF Hit
<1> QED BY <1>3, <1>4 DEF IsHit

(* What one half of a range has, the range has.                            *)
LEMMA HitWider ==
  ASSUME NEW arr, Sorted(arr), NEW s \in Nat,
         NEW low \in 1 .. Len(arr) + 1, NEW high \in 1 .. Len(arr) + 1,
         NEW mid, mid \in low .. high - 1, NEW hit
  PROVE  /\ arr[mid].size < s /\ Hit(arr, s, mid + 1, high, hit) => Hit(arr, s, low, high, hit)
         /\ arr[mid].size > s /\ Hit(arr, s, low, mid, hit) => Hit(arr, s, low, high, hit)
<1>1. /\ Len(arr) \in Nat /\ DOMAIN arr = 1 .. Len(arr)
      /\ \A i \in DOMAIN arr : arr[i].size \in Nat
      /\ \A i, j \in DOMAIN arr : i < j => arr[i].size < arr[j].size
  BY SortedIs
<1>2. mid \in DOMAIN arr /\ mid \in Nat /\ \A i \in low .. high - 1 : i \in DOMAIN arr
  BY <1>1
<1>3. ASSUME arr[mid].size < s, Hit(arr, s, mid + 1, high, hit) PROVE Hit(arr, s, low, high, hit)
  <2>1. \A i \in low .. mid : arr[i].size < s
    <3> SUFFICES ASSUME NEW i \in low .. mid PROVE arr[i].size < s
      OBVIOUS
    <3>1. i \in DOMAIN arr /\ (i = mid \/ i < mid)
      BY <1>2
    <3> QED BY <3>1, <1>1, <1>2, <1>3
  <2>2. CASE hit.found = TRUE
    BY <2>2, <1>2, <1>3 DEF Hit
  <2>3. CASE hit.found = FALSE
    <3>1. hit.at \in mid + 1 .. high /\ (\A i \in mid + 1 .. hit.at - 1 : arr[i].size < s)
          /\ \A i \in hit.at .. high - 1 : arr[i].size > s
      BY <2>3, <1>3 DEF Hit
    <3>2. \A i \in low .. hit.at - 1 : arr[i].size < s
      <4> SUFFICES ASSUME NEW i \in low .. hit.at - 1 PROVE arr[i].size < s
        OBVIOUS
      <4>1. i \in low .. mid \/ i \in mid + 1 .. hit.at - 1
        BY <3>1, <1>2
      <4> QED BY <4>1, <3>1, <2>1
    <3>3. hit.at \in low .. high
      BY <3>1, <1>2
    <3> QED BY <3>1, <3>2, <3>3, <2>3 DEF Hit
  <2> QED BY <2>2, <2>3, <1>3 DEF Hit
<1>4. ASSUME arr[mid].size > s, Hit(arr, s, low, mid, hit) PROVE Hit(arr, s, low, high, hit)
  <2>1. \A i \in mid .. high - 1 : arr[i].size > s
    <3> SUFFICES ASSUME NEW i \in mid .. high - 1 PROVE arr[i].size > s
      OBVIOUS
    <3>1. i \in DOMAIN arr /\ (i = mid \/ mid < i)
      BY <1>2
    <3> QED BY <3>1, <1>1, <1>2, <1>4
  <2>2. CASE hit.found = TRUE
    BY <2>2, <1>2, <1>4 DEF Hit
  <2>3. CASE hit.found = FALSE
    <3>1. hit.at \in low .. mid /\ (\A i \in low .. hit.at - 1 : arr[i].size < s)
          /\ \A i \in hit.at .. mid - 1 : arr[i].size > s
      BY <2>3, <1>4 DEF Hit
    <3>2. \A i \in hit.at .. high - 1 : arr[i].size > s
      <4> SUFFICES ASSUME NEW i \in hit.at .. high - 1 PROVE arr[i].size > s
        OBVIOUS
      <4>1. i \in hit.at .. mid - 1 \/ i \in mid .. high - 1
        BY <3>1, <1>2
      <4> QED BY <4>1, <3>1, <2>1
    <3>3. hit.at \in low .. high
      BY <3>1, <1>2
    <3> QED BY <3>1, <3>2, <3>3, <2>3 DEF Hit
  <2> QED BY <2>2, <2>3, <1>4 DEF Hit
<1> QED BY <1>3, <1>4

(* The loop comes to an end: there is a function that the recursion of     *)
(* BinarySearch describes.                                                 *)
LEMMA SearchExists ==
  ASSUME NEW arr, Sorted(arr), NEW s \in Nat
  PROVE  \E f : Search(arr, s, f)
<1> DEFINE found(range) == CHOOSE hit : Hit(arr, s, range[1], range[2], hit) /\ IsHit(hit)
           g == [range \in Ranges(arr) |->
                   IF range[1] >= range[2] THEN [found |-> FALSE, at |-> range[1]] ELSE found(range)]
<1>1. Len(arr) \in Nat /\ DOMAIN arr = 1 .. Len(arr) /\ \A i \in DOMAIN arr : arr[i].size \in Nat
  BY SortedIs
<1>2. ASSUME NEW low \in 1 .. Len(arr) + 1, NEW high \in 1 .. Len(arr) + 1, low <= high
      PROVE  Hit(arr, s, low, high, g[<<low, high>>]) /\ IsHit(g[<<low, high>>])
  <2>1. <<low, high>> \in Ranges(arr) /\ <<low, high>>[1] = low /\ <<low, high>>[2] = high
    BY DEF Ranges
  <2>2. CASE low >= high
    <3>0. low = high
      BY <2>2, <1>2, <1>1
    <3>1. g[<<low, high>>] = [found |-> FALSE, at |-> low] /\ low = high
      <4>1. g[<<low, high>>] = IF <<low, high>>[1] >= <<low, high>>[2]
                               THEN [found |-> FALSE, at |-> <<low, high>>[1]] ELSE found(<<low, high>>)
        BY <2>1
      <4> HIDE DEF found, g
      <4> QED BY <4>1, <2>1, <2>2, <3>0
    <3>2. Hit(arr, s, low, high, [found |-> FALSE, at |-> low])
      BY <3>1, <1>1 DEF Hit
    <3> QED BY <3>1, <3>2 DEF IsHit
  <2>3. CASE ~ (low >= high)
    <3>1. g[<<low, high>>] = CHOOSE hit : Hit(arr, s, low, high, hit) /\ IsHit(hit)
      BY <2>1, <2>3
    <3>2. \E hit : Hit(arr, s, low, high, hit) /\ IsHit(hit)
      BY <1>2, HitExists
    <3> QED BY <3>1, <3>2
  <2> QED BY <2>2, <2>3
<1>3. ASSUME NEW range \in Ranges(arr) PROVE g[range] = Narrow(arr, s, g, range)
  <2> DEFINE low == range[1]
             high == range[2]
             mid == (low + high) \div 2
  <2>1. range = <<low, high>> /\ low \in 1 .. Len(arr) + 1 /\ high \in 1 .. Len(arr) + 1
    BY DEF Ranges
  <2>2. CASE low >= high
    BY <2>1, <2>2 DEF Narrow
  <2>3. CASE ~ (low >= high)
    <3>1. mid \in Nat /\ low <= mid /\ mid < high /\ mid \in DOMAIN arr /\ mid \in low .. high - 1
      BY <2>1, <2>3, <1>1, Middle
    <3>2. Hit(arr, s, low, high, g[<<low, high>>]) /\ IsHit(g[<<low, high>>])
      <4> HIDE DEF low, high, mid, g
      <4> QED BY <2>1, <2>3, <1>1, <1>2
    <3>3. Hit(arr, s, low, high, Narrow(arr, s, g, range)) /\ IsHit(Narrow(arr, s, g, range))
      <4>1. CASE arr[mid].size < s
        <5>1. Narrow(arr, s, g, range) = g[<<mid + 1, high>>]
          BY <4>1, <2>3 DEF Narrow
        <5>2. mid + 1 \in 1 .. Len(arr) + 1 /\ mid + 1 <= high
          BY <3>1, <2>1, <1>1
        <5> HIDE DEF low, high, mid, g
        <5>3. Hit(arr, s, mid + 1, high, g[<<mid + 1, high>>]) /\ IsHit(g[<<mid + 1, high>>])
          BY <5>2, <2>1, <1>2
        <5> QED BY <5>1, <5>3, <4>1, <3>1, <2>1, HitWider
      <4>2. CASE arr[mid].size > s
        <5>1. Narrow(arr, s, g, range) = g[<<low, mid>>]
          BY <4>2, <2>3, <3>1, <1>1 DEF Narrow
        <5>2. mid \in 1 .. Len(arr) + 1 /\ low <= mid
          BY <3>1, <2>1, <1>1
        <5> HIDE DEF low, high, mid, g
        <5>3. Hit(arr, s, low, mid, g[<<low, mid>>]) /\ IsHit(g[<<low, mid>>])
          BY <5>2, <2>1, <1>2
        <5> QED BY <5>1, <5>3, <4>2, <3>1, <2>1, HitWider
      <4>3. CASE arr[mid].size = s
        <5>1. Narrow(arr, s, g, range) = [found |-> TRUE, at |-> mid]
          BY <4>3, <2>3, <3>1, <1>1 DEF Narrow
        <5> HIDE DEF low, high, mid, g
        <5> QED BY <5>1, <4>3, <3>1 DEF Hit, IsHit
      <4>4. arr[mid].size \in Nat
        BY <3>1, <1>1
      <4> QED BY <4>1, <4>2, <4>3, <4>4
    <3> HIDE DEF low, high, mid, g
    <3> QED BY <3>2, <3>3, <2>1, HitUnique
  <2> QED BY <2>2, <2>3
<1>4. Search(arr, s, g)
  BY <1>3 DEF Search
<1> QED BY <1>4

(* In a sorted array binary_search finds the size if it is there, and      *)
(* otherwise the place where it belongs.                                   *)
THEOREM BinarySearchFinds ==
  ASSUME NEW arr, Sorted(arr), NEW s \in Nat
  PROVE  Hit(arr, s, 1, Len(arr) + 1, BinarySearch(arr, s))
<1> DEFINE f == CHOOSE h : Search(arr, s, h)
<1>1. Search(arr, s, f)
  BY SearchExists
<1>2. BinarySearch(arr, s) = f[<<1, Len(arr) + 1>>]
  BY DEF BinarySearch, Search, Narrow, Ranges
<1> HIDE DEF f
<1>3. Len(arr) \in Nat /\ DOMAIN arr = 1 .. Len(arr) /\ \A i \in DOMAIN arr : arr[i].size \in Nat
  BY SortedIs
<1> DEFINE Right(d) == \A low, high \in 1 .. Len(arr) + 1 :
                         low <= high /\ high - low <= d => Hit(arr, s, low, high, f[<<low, high>>])
           S == {d \in Nat : Right(d)}
<1>4. ASSUME NEW low \in 1 .. Len(arr) + 1, NEW high \in 1 .. Len(arr) + 1
      PROVE  f[<<low, high>>] = Narrow(arr, s, f, <<low, high>>)
  <2>1. <<low, high>> \in Ranges(arr)
    BY DEF Ranges
  <2> QED BY <1>1, <2>1 DEF Search
<1>4a. ASSUME NEW low \in 1 .. Len(arr) + 1, NEW high \in 1 .. Len(arr) + 1
       PROVE  /\ low >= high => f[<<low, high>>] = [found |-> FALSE, at |-> low]
              /\ ~ (low >= high) =>
                   f[<<low, high>>] = IF arr[(low + high) \div 2].size < s THEN f[<<(low + high) \div 2 + 1, high>>]
                                      ELSE IF arr[(low + high) \div 2].size > s THEN f[<<low, (low + high) \div 2>>]
                                      ELSE [found |-> TRUE, at |-> (low + high) \div 2]
  <2>1. f[<<low, high>>] = Narrow(arr, s, f, <<low, high>>)
    BY <1>4
  <2>2. <<low, high>>[1] = low /\ <<low, high>>[2] = high
    OBVIOUS
  <2> QED BY <2>1, <2>2 DEF Narrow
<1>5. 0 \in S
  <2>1. SUFFICES ASSUME NEW low \in 1 .. Len(arr) + 1, NEW high \in 1 .. Len(arr) + 1,
                        low <= high, high - low <= 0
                 PROVE  Hit(arr, s, low, high, f[<<low, high>>])
    OBVIOUS
  <2>2. low = high
    BY <2>1
  <2>3. f[<<low, high>>] = [found |-> FALSE, at |-> low]
    <3>1. low >= high
      BY <1>3, <2>2
    <3> QED BY <1>4a, <3>1, Zenon
  <2> QED BY <2>2, <2>3 DEF Hit
<1>6. ASSUME NEW d \in Nat, d \in S PROVE d + 1 \in S
  <2>1. SUFFICES ASSUME NEW low \in 1 .. Len(arr) + 1, NEW high \in 1 .. Len(arr) + 1,
                        low <= high, high - low <= d + 1
                 PROVE  Hit(arr, s, low, high, f[<<low, high>>])
    OBVIOUS
  <2>2. CASE low = high
    <3>1. f[<<low, high>>] = [found |-> FALSE, at |-> low]
      <4>1. low >= high
        BY <1>3, <2>2
      <4> QED BY <1>4a, <4>1, Zenon
    <3> QED BY <2>2, <3>1 DEF Hit
  <2>3. CASE low < high
    <3> DEFINE mid == (low + high) \div 2
    <3>1. mid \in Nat /\ low <= mid /\ mid < high /\ mid \in DOMAIN arr /\ mid \in low .. high - 1
      BY <2>3, <1>3, Middle
    <3>2. f[<<low, high>>] = IF arr[mid].size < s THEN f[<<mid + 1, high>>]
                             ELSE IF arr[mid].size > s THEN f[<<low, mid>>]
                             ELSE [found |-> TRUE, at |-> mid]
      <4>1. ~ (low >= high)
        BY <1>3, <2>3
      <4> QED BY <1>4a, <4>1, Zenon
    <3> HIDE DEF mid
    <3>3. CASE arr[mid].size < s
      <4>1. mid + 1 \in 1 .. Len(arr) + 1 /\ mid + 1 <= high /\ high - (mid + 1) <= d
        BY <3>1, <2>1, <1>3
      <4>2. Hit(arr, s, mid + 1, high, f[<<mid + 1, high>>])
        BY <4>1, <1>6
      <4> QED BY <4>2, <3>1, <3>2, <3>3, HitWider
    <3>4. CASE arr[mid].size > s
      <4>1. mid \in 1 .. Len(arr) + 1 /\ low <= mid /\ mid - low <= d
        BY <3>1, <2>1, <1>3
      <4>2. Hit(arr, s, low, mid, f[<<low, mid>>])
        BY <4>1, <1>6
      <4>3. f[<<low, high>>] = f[<<low, mid>>]
        BY <3>1, <3>2, <3>4, <1>3
      <4> QED BY <4>2, <4>3, <3>1, <3>4, HitWider
    <3>5. CASE arr[mid].size = s
      <4>1. f[<<low, high>>] = [found |-> TRUE, at |-> mid]
        BY <3>1, <3>2, <3>5, <1>3
      <4> QED BY <4>1, <3>1, <3>5 DEF Hit
    <3>6. arr[mid].size \in Nat
      BY <3>1, <1>3
    <3> QED BY <3>3, <3>4, <3>5, <3>6
  <2> QED BY <2>1, <2>2, <2>3
<1>7. Len(arr) \in S
  <2> HIDE DEF S
  <2>1. \A m \in 0 .. Len(arr) : m + 1 <= Len(arr) /\ m \in S => m + 1 \in S
    BY <1>6
  <2>2. \A m \in 0 .. Len(arr) : m \in S
    BY <1>3, <1>5, <2>1, UpTo
  <2> QED BY <1>3, <2>2
<1> QED BY <1>2, <1>3, <1>7

(* find_size in a sorted array.                                            *)
LEMMA FindIs ==
  ASSUME NEW arr, Sorted(arr), NEW s \in Nat
  PROVE  /\ \A i \in DOMAIN arr : arr[i].size = s => FindSize(arr, s) = arr[i].number
         /\ (\A i \in DOMAIN arr : arr[i].size # s) => FindSize(arr, s) = 0
<1> DEFINE hit == BinarySearch(arr, s)
<1>1. Hit(arr, s, 1, Len(arr) + 1, hit)
  BY BinarySearchFinds
<1>2. FindSize(arr, s) = IF hit.found THEN arr[hit.at].number ELSE 0
  BY DEF FindSize, NumberAt
<1> HIDE DEF hit
<1>3. Len(arr) \in Nat /\ DOMAIN arr = 1 .. Len(arr)
      /\ (\A i \in DOMAIN arr : arr[i].size \in Nat)
      /\ \A i, j \in DOMAIN arr : i < j => arr[i].size < arr[j].size
  BY SortedIs
<1>4. CASE hit.found = TRUE
  <2>1. hit.at \in DOMAIN arr /\ arr[hit.at].size = s /\ FindSize(arr, s) = arr[hit.at].number
    BY <1>1, <1>2, <1>3, <1>4 DEF Hit
  <2>2. ASSUME NEW i \in DOMAIN arr, arr[i].size = s PROVE i = hit.at
    <3>1. ~ (i < hit.at) /\ ~ (hit.at < i)
      BY <1>3, <2>1, <2>2
    <3> QED BY <3>1, <2>1, <1>3
  <2> QED BY <2>1, <2>2
<1>5. CASE hit.found = FALSE
  <2>1. hit.at \in 1 .. Len(arr) + 1 /\ (\A i \in 1 .. hit.at - 1 : arr[i].size < s)
        /\ \A i \in hit.at .. Len(arr) + 1 - 1 : arr[i].size > s
    BY <1>1, <1>5 DEF Hit
  <2>2. ASSUME NEW i \in DOMAIN arr PROVE arr[i].size # s
    <3>1. i \in 1 .. hit.at - 1 \/ i \in hit.at .. Len(arr) + 1 - 1
      BY <1>3, <2>1
    <3> QED BY <3>1, <2>1, <1>3
  <2> QED BY <2>2, <1>2, <1>5
<1> QED BY <1>1, <1>4, <1>5 DEF Hit

(* What an array has after a size was written.                             *)
Written(arr, s, n, new) ==
  /\ Sorted(new)
  /\ \A j \in DOMAIN new : new[j].size = s \/ \E i \in DOMAIN arr : new[j] = arr[i]
  /\ \A i \in DOMAIN arr : arr[i].size # s => \E j \in DOMAIN new : new[j] = arr[i]
  /\ \E j \in DOMAIN new : new[j] = [number |-> FindSize(arr, s) + n, size |-> s]

(* The size is there: its number is raised.                                *)
LEMMA WriteFound ==
  ASSUME NEW arr, Sorted(arr), NEW s \in Nat, NEW n \in Nat,
         NEW hit, Hit(arr, s, 1, Len(arr) + 1, hit), hit.found = TRUE
  PROVE  Written(arr, s, n, WriteAt(arr, hit, s, n))
<1> DEFINE new == WriteAt(arr, hit, s, n)
<1>1. Len(arr) \in Nat /\ DOMAIN arr = 1 .. Len(arr) /\ arr \in Seq(Entry)
      /\ (\A i \in DOMAIN arr : arr[i] \in Entry /\ arr[i].size \in Nat /\ arr[i].number \in Nat)
      /\ \A i, j \in DOMAIN arr : i < j => arr[i].size < arr[j].size
  BY SortedIs DEF Sorted
<1>2. hit.at \in DOMAIN arr /\ arr[hit.at].size = s
  BY <1>1 DEF Hit
<1>3. new = [arr EXCEPT ![hit.at].number = @ + n]
  BY DEF WriteAt
<1>4. DOMAIN new = DOMAIN arr /\ (\A i \in DOMAIN arr : i # hit.at => new[i] = arr[i])
      /\ new[hit.at] = [arr[hit.at] EXCEPT !.number = @ + n]
  BY <1>1, <1>2, <1>3
<1>5. new[hit.at] = [number |-> FindSize(arr, s) + n, size |-> s]
  <2>1. FindSize(arr, s) = arr[hit.at].number
    BY <1>2, FindIs
  <2>2. arr[hit.at] \in [number : Nat, size : Nat]
    BY <1>1, <1>2 DEF Entry
  <2> QED BY <2>1, <2>2, <1>2, <1>4
<1> HIDE DEF new
<1>6. \A i \in DOMAIN arr : new[i] \in Entry /\ new[i].size = arr[i].size
  <2>1. FindSize(arr, s) \in Nat
    BY <1>1, <1>2, FindIs
  <2>2. new[hit.at] \in Entry /\ new[hit.at].size = arr[hit.at].size
    BY <2>1, <1>2, <1>5 DEF Entry
  <2> QED BY <2>2, <1>1, <1>4
<1>7. Sorted(new)
  <2>1. new \in Seq(Entry)
    <3>1. new \in [1 .. Len(arr) -> Entry]
      BY <1>1, <1>3, <1>4, <1>6
    <3> QED BY <3>1, <1>1
  <2> QED BY <2>1, <1>1, <1>4, <1>6 DEF Sorted
<1>8. \A i \in DOMAIN arr : arr[i].size # s => \E j \in DOMAIN new : new[j] = arr[i]
  BY <1>2, <1>4
<1>9. \A j \in DOMAIN new : new[j].size = s \/ \E i \in DOMAIN arr : new[j] = arr[i]
  BY <1>2, <1>4, <1>6
<1>10. \E j \in DOMAIN new : new[j] = [number |-> FindSize(arr, s) + n, size |-> s]
  BY <1>2, <1>4, <1>5
<1> QED BY <1>7, <1>8, <1>9, <1>10 DEF Written, new

(* The size is not there: it is inserted where it belongs.                 *)
LEMMA WriteNew ==
  ASSUME NEW arr, Sorted(arr), NEW s \in Nat, NEW n \in Nat,
         NEW hit, Hit(arr, s, 1, Len(arr) + 1, hit), hit.found = FALSE
  PROVE  Written(arr, s, n, WriteAt(arr, hit, s, n))
<1> DEFINE new == WriteAt(arr, hit, s, n)
           at == hit.at
           entry == [number |-> n, size |-> s]
<1>1. Len(arr) \in Nat /\ DOMAIN arr = 1 .. Len(arr) /\ arr \in Seq(Entry)
      /\ (\A i \in DOMAIN arr : arr[i] \in Entry /\ arr[i].size \in Nat /\ arr[i].number \in Nat)
      /\ \A i, j \in DOMAIN arr : i < j => arr[i].size < arr[j].size
  BY SortedIs DEF Sorted
<1>2. at \in 1 .. Len(arr) + 1 /\ (\A i \in 1 .. at - 1 : arr[i].size < s)
      /\ \A i \in at .. Len(arr) : arr[i].size > s
  <2>1. Len(arr) + 1 - 1 = Len(arr)
    BY <1>1
  <2> QED BY <2>1 DEF Hit
<1>3. new = SubSeq(arr, 1, at - 1) \o <<entry>> \o SubSeq(arr, at, Len(arr))
  BY DEF WriteAt
<1>4. entry \in Entry /\ entry.size = s
  BY DEF Entry
<1> HIDE DEF entry, at
<1>5. /\ new \in Seq(Entry) /\ Len(new) = Len(arr) + 1 /\ DOMAIN new = 1 .. Len(arr) + 1
      /\ \A j \in 1 .. Len(arr) + 1 : new[j] = IF j < at THEN arr[j] ELSE IF j = at THEN entry ELSE arr[j - 1]
  <2> DEFINE a == SubSeq(arr, 1, at - 1)
             b == SubSeq(arr, at, Len(arr))
  <2>1. at - 1 \in Nat /\ at - 1 <= Len(arr) /\ at \in Nat /\ at <= Len(arr) + 1
    BY <1>1, <1>2
  <2>2. a \in Seq(Entry) /\ Len(a) = at - 1 /\ \A j \in 1 .. at - 1 : a[j] = arr[j]
    BY <2>1, <1>1
  <2>3. b \in Seq(Entry) /\ Len(b) = Len(arr) - at + 1
        /\ \A j \in 1 .. Len(arr) - at + 1 : b[j] = arr[at + j - 1]
    <3>1. CASE at = Len(arr) + 1
      BY <3>1, <2>1, <1>1
    <3>2. CASE at <= Len(arr)
      BY <3>2, <2>1, <1>1
    <3> QED BY <3>1, <3>2, <2>1, <1>1
  <2> HIDE DEF a, b
  <2>4. <<entry>> \in Seq(Entry) /\ Len(<<entry>>) = 1 /\ <<entry>>[1] = entry
    BY <1>4
  <2> DEFINE c == a \o <<entry>>
  <2>5. c \in Seq(Entry) /\ Len(c) = at /\ \A j \in 1 .. at : c[j] = IF j < at THEN arr[j] ELSE entry
    BY <2>1, <2>2, <2>4
  <2>6. new = c \o b
    BY <1>3 DEF a, b
  <2> HIDE DEF c, new
  <2>7. new \in Seq(Entry) /\ Len(new) = Len(arr) + 1
    BY <2>1, <2>3, <2>5, <2>6, <1>1
  <2>8. ASSUME NEW j \in 1 .. Len(arr) + 1
        PROVE  new[j] = IF j < at THEN arr[j] ELSE IF j = at THEN entry ELSE arr[j - 1]
    <3>1. CASE j <= at
      BY <3>1, <2>1, <2>3, <2>5, <2>6, <1>1
    <3>2. CASE j > at
      <4>1. new[j] = b[j - at] /\ j - at \in 1 .. Len(arr) - at + 1
        BY <3>2, <2>1, <2>3, <2>5, <2>6, <1>1
      <4>2. b[j - at] = arr[at + (j - at) - 1] /\ at + (j - at) - 1 = j - 1
        BY <4>1, <2>3, <2>1
      <4> QED BY <4>1, <4>2, <3>2, <2>1
    <3> QED BY <3>1, <3>2, <2>1
  <2> QED BY <2>7, <2>8
<1> HIDE DEF new
<1>6. Sorted(new)
  <2> SUFFICES ASSUME NEW i \in 1 .. Len(arr) + 1, NEW j \in 1 .. Len(arr) + 1, i < j
               PROVE  new[i].size < new[j].size
    BY <1>5 DEF Sorted
  <2>1. CASE j < at
    <3>1. new[i] = arr[i] /\ new[j] = arr[j] /\ i \in DOMAIN arr /\ j \in DOMAIN arr
      BY <2>1, <1>1, <1>2, <1>5
    <3> QED BY <3>1, <1>1
  <2>2. CASE j = at
    <3>1. new[i] = arr[i] /\ new[j] = entry /\ i \in 1 .. at - 1
      BY <2>2, <1>1, <1>2, <1>5
    <3> QED BY <3>1, <1>2, <1>4
  <2>3. CASE j > at /\ i > at
    <3>1. new[i] = arr[i - 1] /\ new[j] = arr[j - 1] /\ i - 1 \in DOMAIN arr /\ j - 1 \in DOMAIN arr
      BY <2>3, <1>1, <1>2, <1>5
    <3> QED BY <3>1, <1>1
  <2>4. CASE j > at /\ i = at
    <3>1. new[i] = entry /\ new[j] = arr[j - 1] /\ j - 1 \in at .. Len(arr)
      BY <2>4, <1>1, <1>2, <1>5
    <3>2. arr[j - 1].size > s /\ arr[j - 1].size \in Nat
      BY <3>1, <1>1, <1>2
    <3> QED BY <3>1, <3>2, <1>4
  <2>5. CASE j > at /\ i < at
    <3>1. new[i] = arr[i] /\ new[j] = arr[j - 1] /\ j - 1 \in at .. Len(arr) /\ i \in 1 .. at - 1
          /\ i \in DOMAIN arr /\ j - 1 \in DOMAIN arr
      BY <2>5, <1>1, <1>2, <1>5
    <3>2. arr[j - 1].size > s /\ arr[i].size < s /\ arr[j - 1].size \in Nat /\ arr[i].size \in Nat
      BY <3>1, <1>1, <1>2
    <3> QED BY <3>1, <3>2
  <2> QED BY <2>1, <2>2, <2>3, <2>4, <2>5, <1>1, <1>2
<1>7. ASSUME NEW j \in DOMAIN new PROVE new[j].size = s \/ \E i \in DOMAIN arr : new[j] = arr[i]
  <2>1. CASE j < at
    BY <2>1, <1>1, <1>2, <1>5
  <2>2. CASE j = at
    BY <2>2, <1>2, <1>4, <1>5
  <2>3. CASE j > at
    <3>1. new[j] = arr[j - 1] /\ j - 1 \in DOMAIN arr
      BY <2>3, <1>1, <1>2, <1>5
    <3> QED BY <3>1
  <2> QED BY <2>1, <2>2, <2>3, <1>1, <1>2, <1>5
<1>8. ASSUME NEW i \in DOMAIN arr PROVE \E j \in DOMAIN new : new[j] = arr[i]
  <2>1. CASE i < at
    <3>1. i \in 1 .. at - 1
      BY <2>1, <1>1, <1>2
    <3>2. i \in DOMAIN new /\ new[i] = arr[i]
      BY <3>1, <1>1, <1>2, <1>5
    <3> QED BY <3>2
  <2>2. CASE ~ (i < at)
    <3>1. i + 1 \in DOMAIN new /\ new[i + 1] = arr[i + 1 - 1] /\ i + 1 - 1 = i
      BY <2>2, <1>1, <1>2, <1>5
    <3> QED BY <3>1
  <2> QED BY <2>1, <2>2
<1>9. \E j \in DOMAIN new : new[j] = [number |-> FindSize(arr, s) + n, size |-> s]
  <2>1. ASSUME NEW i \in DOMAIN arr PROVE arr[i].size # s
    <3>1. i \in 1 .. at - 1 \/ i \in at .. Len(arr)
      BY <1>1, <1>2
    <3> QED BY <3>1, <1>1, <1>2
  <2>2. FindSize(arr, s) = 0
    BY <2>1, FindIs
  <2>3. at \in DOMAIN new /\ new[at] = entry
    BY <1>1, <1>2, <1>5
  <2>4. entry = [number |-> FindSize(arr, s) + n, size |-> s]
    BY <2>2 DEF entry
  <2> QED BY <2>3, <2>4
<1> QED BY <1>6, <1>7, <1>8, <1>9 DEF Written, new

(* write_used_number_and_size keeps the array sorted, adds to the number   *)
(* of its size and leaves the other numbers alone, whatever the order in   *)
(* which the sizes come.                                                   *)
THEOREM WriteCounts ==
  ASSUME NEW arr, Sorted(arr), NEW s \in Nat, NEW n \in Nat
  PROVE  /\ Sorted(WriteUsedNumberAndSize(arr, s, n))
         /\ \A t \in Nat : FindSize(WriteUsedNumberAndSize(arr, s, n), t)
                             = FindSize(arr, t) + IF t = s /\ s # 0 THEN n ELSE 0
<1> DEFINE new == WriteUsedNumberAndSize(arr, s, n)
<1>0. \A t \in Nat : FindSize(arr, t) \in Nat
  BY FindIs, SortedIs
<1>1. CASE s = 0 \/ n = 0
  <2>1. new = arr
    BY <1>1 DEF WriteUsedNumberAndSize
  <2> QED BY <2>1, <1>0, <1>1
<1>2. CASE ~ (s = 0 \/ n = 0)
  <2> DEFINE hit == BinarySearch(arr, s)
  <2>1. new = WriteAt(arr, hit, s, n)
    BY <1>2 DEF WriteUsedNumberAndSize
  <2>2. Hit(arr, s, 1, Len(arr) + 1, hit)
    BY BinarySearchFinds
  <2> HIDE DEF hit
  <2>3. Written(arr, s, n, new)
    <3>1. hit.found = TRUE \/ hit.found = FALSE
      BY <2>2 DEF Hit
    <3> QED BY <2>1, <2>2, <3>1, WriteFound, WriteNew
  <2> HIDE DEF new
  <2>4. Sorted(new)
    BY <2>3 DEF Written
  <2>5. ASSUME NEW t \in Nat PROVE FindSize(new, t) = FindSize(arr, t) + IF t = s /\ s # 0 THEN n ELSE 0
    <3>1. CASE t = s
      <4>1. PICK j \in DOMAIN new : new[j] = [number |-> FindSize(arr, s) + n, size |-> s]
        BY <2>3 DEF Written
      <4>2. FindSize(new, s) = new[j].number
        BY <4>1, <2>4, FindIs
      <4> QED BY <4>1, <4>2, <3>1, <1>2
    <3>2. CASE t # s /\ \E i \in DOMAIN arr : arr[i].size = t
      <4>1. PICK i \in DOMAIN arr : arr[i].size = t
        BY <3>2
      <4>2. PICK j \in DOMAIN new : new[j] = arr[i]
        BY <4>1, <3>2, <2>3 DEF Written
      <4>3. FindSize(new, t) = new[j].number /\ FindSize(arr, t) = arr[i].number
        BY <4>1, <4>2, <2>4, FindIs
      <4> QED BY <4>2, <4>3, <3>2, <1>0
    <3>3. CASE t # s /\ \A i \in DOMAIN arr : arr[i].size # t
      <4>1. \A j \in DOMAIN new : new[j].size # t
        BY <3>3, <2>3 DEF Written
      <4>2. FindSize(new, t) = 0 /\ FindSize(arr, t) = 0
        BY <4>1, <3>3, <2>4, FindIs
      <4> QED BY <4>2, <3>3
    <3> QED BY <3>1, <3>2, <3>3
  <2> QED BY <2>4, <2>5 DEF new
<1> QED BY <1>1, <1>2
=============================================================================
