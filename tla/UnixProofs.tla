----------------------------- MODULE UnixProofs ------------------------------
(***************************************************************************)
(* Limit and Unix, for every value of their constants.                     *)
(*                                                                         *)
(* Limit first: the count is exact modulo the width of the counter, and    *)
(* what was granted is within the limit.  A step changes the blocks that   *)
(* are mapped or counted by at most one, and ALLOCATED by its size         *)
(* (HeldStep).  The rest is arithmetic: sums modulo UsizeMax + 1 (AddMod,  *)
(* SubMod) and the number of bytes of a set of blocks (BytesAdd).          *)
(*                                                                         *)
(* Then Unix: it implements Limit, the key is ready when it is used, and   *)
(* the mappings are exact.  The pages are the long part.  A step of the    *)
(* layer concerns one block (OneBlock), to which it gives free pages       *)
(* (Gives) or whose pages it frees (Frees); that alloc_aligned_from_os     *)
(* frees the right ones is Trimming, which needs regions to be made of     *)
(* whole pages.  A region whose commit failed keeps track of what it may   *)
(* have lost (Lost), which lies in the part that is not trimmed, until it  *)
(* is unmapped (FailedStep); after that munmap may have strayed, and no    *)
(* more is claimed (StrayedStays).                                         *)
(***************************************************************************)
EXTENDS Unix, FiniteSetTheorems, TLAPS

-----------------------------------------------------------------------------
(* The limit                                                               *)

(* Division leaves a quotient and a remainder.                             *)
LEMMA DivMod ==
  ASSUME NEW x \in Nat, NEW m \in Nat \ {0}
  PROVE  /\ x \div m \in Nat
         /\ x % m \in 0 .. (m - 1)
         /\ x = m * (x \div m) + (x % m)
  OBVIOUS

(* They are the only ones.                                                 *)
LEMMA ModUnique ==
  ASSUME NEW x \in Nat, NEW m \in Nat \ {0}, NEW q \in Nat, NEW r \in 0 .. (m - 1), x = m * q + r
  PROVE  x % m = r
  <1> DEFINE d == x \div m
             e == x % m
  <1>1. d \in Nat /\ e \in 0 .. (m - 1) /\ m * d + e = m * q + r
    BY DivMod
  <1> HIDE DEF d, e
  <1>2. CASE d < q
    <2>1. m * (d + 1) <= m * q
      BY <1>1, <1>2
    <2>2. m * (d + 1) = m * d + m
      BY <1>1
    <2> QED
      BY <1>1, <2>1, <2>2
  <1>3. CASE q < d
    <2>1. m * (q + 1) <= m * d
      BY <1>1, <1>3
    <2>2. m * (q + 1) = m * q + m
      BY <1>1
    <2> QED
      BY <1>1, <2>1, <2>2
  <1>4. CASE d = q
    BY <1>1, <1>4 DEF e
  <1> QED
    BY <1>1, <1>2, <1>3, <1>4

(* Counting on, modulo the width of the counter.                           *)
LEMMA AddMod ==
  ASSUME NEW x \in Nat, NEW s \in 0 .. UsizeMax
  PROVE  Add(x % (UsizeMax + 1), s) = (x + s) % (UsizeMax + 1)
  <1> DEFINE m == UsizeMax + 1
             q == x \div m
             r == x % m
  <1>1. m \in Nat \ {0} /\ s \in 0 .. m - 1
    BY LimitAssumption
  <1> HIDE DEF m
  <1>2. q \in Nat /\ r \in 0 .. (m - 1) /\ x = m * q + r
    BY <1>1, DivMod
  <1> HIDE DEF q, r
  <1>3. (r + s) % m = (x + s) % m
    <2>1. CASE r + s < m
      <3>1. (r + s) % m = r + s
        <4>1. r + s = m * 0 + (r + s) /\ r + s \in Nat /\ r + s \in 0 .. (m - 1)
          BY <1>1, <1>2, <2>1
        <4> QED
          BY <1>1, <4>1, ModUnique
      <3>2. (x + s) % m = r + s
        <4>1. x + s = m * q + (r + s) /\ x + s \in Nat /\ r + s \in 0 .. (m - 1)
          BY <1>1, <1>2, <2>1
        <4> QED
          BY <1>1, <1>2, <4>1, ModUnique
      <3> QED
        BY <3>1, <3>2
    <2>2. CASE r + s >= m
      <3>0. r + s - m \in 0 .. (m - 1)
        BY <1>1, <1>2, <2>2
      <3>1. (r + s) % m = r + s - m
        <4>1. r + s = m * 1 + (r + s - m) /\ r + s \in Nat
          BY <1>1, <1>2
        <4> QED
          BY <1>1, <3>0, <4>1, ModUnique
      <3>2. (x + s) % m = r + s - m
        <4>1. m * (q + 1) = m * q + m
          BY <1>1, <1>2
        <4>2. x + s = m * (q + 1) + (r + s - m) /\ x + s \in Nat /\ q + 1 \in Nat
          BY <1>1, <1>2, <4>1
        <4> QED
          BY <1>1, <3>0, <4>2, ModUnique
      <3> QED
        BY <3>1, <3>2
    <2> QED
      BY <1>1, <1>2, <2>1, <2>2
  <1> QED
    BY <1>3 DEF Add, m, r

(* Counting back.                                                          *)
LEMMA SubMod ==
  ASSUME NEW x \in Nat, NEW s \in 0 .. UsizeMax
  PROVE  Sub((x + s) % (UsizeMax + 1), s) = x % (UsizeMax + 1)
  <1> DEFINE m == UsizeMax + 1
             q == x \div m
             r == x % m
             y == (x + s) % m
  <1>1. m \in Nat \ {0} /\ s \in 0 .. m - 1
    BY LimitAssumption
  <1> HIDE DEF m
  <1>2. q \in Nat /\ r \in 0 .. (m - 1) /\ x = m * q + r
    BY <1>1, DivMod
  <1> HIDE DEF q, r
  <1>3. y = IF r + s < m THEN r + s ELSE r + s - m
    <2>1. CASE r + s < m
      <3>1. x + s = m * q + (r + s) /\ x + s \in Nat /\ r + s \in 0 .. (m - 1)
        BY <1>1, <1>2, <2>1
      <3> QED
        BY <1>1, <1>2, <2>1, <3>1, ModUnique
    <2>2. CASE r + s >= m
      <3>1. m * (q + 1) = m * q + m
        BY <1>1, <1>2
      <3>2. x + s = m * (q + 1) + (r + s - m) /\ x + s \in Nat /\ q + 1 \in Nat /\ r + s - m \in 0 .. (m - 1)
        BY <1>1, <1>2, <2>2, <3>1
      <3>3. (x + s) % m = r + s - m
        BY <1>1, <3>2, ModUnique
      <3> QED
        BY <1>1, <1>2, <2>2, <3>3
    <2> QED
      BY <1>1, <1>2, <2>1, <2>2
  <1> HIDE DEF y
  <1>4. (y + m - s) % m = r
    <2>1. CASE r + s < m
      <3>1. y + m - s = m * 1 + r /\ y + m - s \in Nat
        BY <1>1, <1>2, <1>3, <2>1
      <3> QED
        BY <1>1, <1>2, <3>1, ModUnique
    <2>2. CASE r + s >= m
      <3>1. y + m - s = m * 0 + r /\ y + m - s \in Nat
        BY <1>1, <1>2, <1>3, <2>2
      <3> QED
        BY <1>1, <1>2, <3>1, ModUnique
    <2> QED
      BY <1>1, <1>2, <2>1, <2>2
  <1> QED
    BY <1>4 DEF Sub, m, r, y

-----------------------------------------------------------------------------
ByteSet(B) == {p \in B \X (1 .. UsizeMax) : p[2] <= Size[p[1]]}

(* Bytes is a number: blocks are finitely many.                            *)
LEMMA BytesFinite ==
  ASSUME NEW B \in SUBSET Blocks
  PROVE  IsFiniteSet(ByteSet(B)) /\ Bytes(B) = Cardinality(ByteSet(B)) /\ Bytes(B) \in Nat
  <1>1. IsFiniteSet(B) /\ IsFiniteSet(1 .. UsizeMax)
    BY FS_Subset, FS_Interval, LimitAssumption
  <1>2. IsFiniteSet(B \X (1 .. UsizeMax))
    BY <1>1, FS_Product
  <1>3. ByteSet(B) \in SUBSET (B \X (1 .. UsizeMax))
    BY DEF ByteSet
  <1>4. IsFiniteSet(ByteSet(B))
    BY <1>2, <1>3, FS_Subset
  <1>5. Bytes(B) = Cardinality(ByteSet(B))
    BY DEF Bytes, ByteSet
  <1> QED
    BY <1>4, <1>5, FS_CardinalityType

(* Nothing has no bytes.                                                   *)
LEMMA BytesEmpty == Bytes({}) = 0
  <1>1. ByteSet({}) = {}
    BY DEF ByteSet
  <1> QED
    BY <1>1, BytesFinite, FS_EmptySet

(* One block has as many bytes as its size says.                           *)
LEMMA BytesOne ==
  ASSUME NEW b \in Blocks
  PROVE  Bytes({b}) = Size[b]
  <1> DEFINE n == Size[b]
             f == [i \in 1 .. n |-> <<b, i>>]
  <1>1. n \in 1 .. UsizeMax /\ UsizeMax \in Nat
    BY LimitAssumption
  <1>2. f \in Bijection(1 .. n, ByteSet({b}))
    <2>1. \A i \in 1 .. n : <<b, i>> \in ByteSet({b})
      BY <1>1 DEF ByteSet
    <2>2. \A x \in ByteSet({b}) : \E i \in 1 .. n : f[i] = x
      BY <1>1 DEF ByteSet
    <2>3. \A i, j \in 1 .. n : f[i] = f[j] => i = j
      OBVIOUS
    <2>4. f \in [1 .. n -> ByteSet({b})]
      BY <2>1
    <2> HIDE DEF f
    <2>5. f \in Injection(1 .. n, ByteSet({b}))
      BY <2>3, <2>4 DEF Injection, IsInjective
    <2>6. f \in Surjection(1 .. n, ByteSet({b}))
      BY <2>2, <2>4 DEF Surjection
    <2> QED
      BY <2>5, <2>6 DEF Bijection
  <1>3. ExistsBijection(1 .. n, ByteSet({b}))
    BY <1>2 DEF ExistsBijection
  <1>4. IsFiniteSet(1 .. n) /\ Cardinality(1 .. n) = n
    BY <1>1, FS_Interval
  <1>5. Cardinality(ByteSet({b})) = n
    BY <1>3, <1>4, FS_Bijection
  <1> QED
    BY <1>5, BytesFinite

(* Sets of blocks have together at most the bytes of each, and exactly     *)
(* these if they have no block in common.                                  *)
LEMMA BytesUnion ==
  ASSUME NEW B \in SUBSET Blocks, NEW C \in SUBSET Blocks
  PROVE  /\ B \intersect C = {} => Bytes(B \union C) = Bytes(B) + Bytes(C)
         /\ Bytes(B \union C) <= Bytes(B) + Bytes(C)
  <1>1. ByteSet(B \union C) = ByteSet(B) \union ByteSet(C)
    BY DEF ByteSet
  <1>2. B \intersect C = {} => ByteSet(B) \intersect ByteSet(C) = {}
    BY DEF ByteSet
  <1>3. /\ IsFiniteSet(ByteSet(B)) /\ IsFiniteSet(ByteSet(C))
        /\ Bytes(B) = Cardinality(ByteSet(B)) /\ Bytes(C) = Cardinality(ByteSet(C))
        /\ Bytes(B) \in Nat /\ Bytes(C) \in Nat
        /\ Bytes(B \union C) = Cardinality(ByteSet(B \union C))
    BY BytesFinite
  <1> DEFINE x == Cardinality(ByteSet(B))
             y == Cardinality(ByteSet(C))
             z == Cardinality(ByteSet(B) \intersect ByteSet(C))
             u == Cardinality(ByteSet(B) \union ByteSet(C))
  <1>4. u = x + y - z
    BY <1>3, FS_Union
  <1>5. x \in Nat /\ y \in Nat /\ z \in Nat
    BY <1>3, FS_Intersection, FS_CardinalityType
  <1>6. B \intersect C = {} => z = 0
    BY <1>2, FS_EmptySet
  <1>7. Bytes(B) = x /\ Bytes(C) = y /\ Bytes(B \union C) = u
    BY <1>1, <1>3
  <1> HIDE DEF x, y, z, u
  <1>8. (z = 0 => u = x + y) /\ u <= x + y
    BY <1>4, <1>5
  <1> QED
    BY <1>6, <1>7, <1>8

(* One block more adds its size.                                           *)
LEMMA BytesAdd ==
  ASSUME NEW B \in SUBSET Blocks, NEW b \in Blocks \ B
  PROVE  Bytes(B \union {b}) = Bytes(B) + Size[b]
  BY BytesUnion, BytesOne

(* More blocks have more bytes.                                            *)
LEMMA BytesMonotone ==
  ASSUME NEW C \in SUBSET Blocks, NEW B \in SUBSET C
  PROVE  Bytes(B) <= Bytes(C)
  <1>1. ByteSet(B) \in SUBSET ByteSet(C)
    BY DEF ByteSet
  <1> QED
    BY <1>1, BytesFinite, FS_Subset

-----------------------------------------------------------------------------
(* What a call can be.                                                     *)
LEMMA CallCases ==
  ASSUME TypeOK, NEW t \in Threads
  PROVE  /\ call[t] = None <=> call[t].at = "idle"
         /\ call[t].at \in {"idle", "loop", "map", "mark"}
         /\ call[t] # None => call[t].block \in Blocks
         /\ call[t].at = "loop" => call[t].allocated \in 0 .. UsizeMax
  BY DEF TypeOK, Calls, None

(* What is counted is made of blocks.                                      *)
LEMMA CountedBlocks ==
  ASSUME TypeOK
  PROVE  Counted \in SUBSET Blocks /\ mapped \in SUBSET Blocks
  BY CallCases DEF TypeOK, Counted, None

(* A call that comes to be counted brings its block with it.               *)
LEMMA CountedGrows ==
  ASSUME TypeOK, NEW t \in Threads, NEW c \in Calls,
         call' = [call EXCEPT ![t] = c],
         call[t].at \in {"idle", "loop"}, c.at \in {"map", "mark"}
  PROVE  Counted' = Counted \union {c.block}
  <1>1. \A u \in Threads : call'[u] = IF u = t THEN c ELSE call[u]
    BY DEF TypeOK
  <1>2. ASSUME NEW b PROVE b \in Counted' <=> b \in Counted \union {c.block}
    BY <1>1 DEF Counted
  <1> QED
    BY <1>2

(* A call that ends takes its block with it, since nobody else has it.     *)
LEMMA CountedShrinks ==
  ASSUME TypeOK, Apart, NEW t \in Threads,
         call' = [call EXCEPT ![t] = None],
         call[t].at \in {"map", "mark"}
  PROVE  Counted' = Counted \ {call[t].block}
  <1>1. \A u \in Threads : call'[u] = IF u = t THEN None ELSE call[u]
    BY DEF TypeOK
  <1>2. \A u \in Threads \ {t} : call[u].at \in {"map", "mark"} => call[u].block # call[t].block
    BY DEF Apart, None
  <1>3. ASSUME NEW b PROVE b \in Counted' <=> b \in Counted \ {call[t].block}
    BY <1>1, <1>2 DEF Counted, None
  <1> QED
    BY <1>3

(* Other steps of a call leave what is counted alone.                      *)
LEMMA CountedStays ==
  ASSUME TypeOK, NEW t \in Threads, NEW c,
         call' = [call EXCEPT ![t] = c],
         call[t].at \in {"idle", "loop"}, c.at \in {"idle", "loop"}
  PROVE  Counted' = Counted
  <1>1. \A u \in Threads : call'[u] = IF u = t THEN c ELSE call[u]
    BY DEF TypeOK
  <1>2. ASSUME NEW b PROVE b \in Counted' <=> b \in Counted
    BY <1>1 DEF Counted
  <1> QED
    BY <1>2

(* A block is mapped, or one call has it, but not both.                    *)
LEMMA ApartCounted ==
  ASSUME TypeOK, Apart
  PROVE  /\ mapped \intersect Counted = {}
         /\ \A t \in Threads : call[t].at = "loop" => call[t].block \notin mapped \union Counted
         /\ \A t \in Threads : call[t].at \in {"map", "mark"} => call[t].block \in Counted
         /\ Counted \in SUBSET Busy
  BY CallCases DEF Apart, Counted, None, Busy

-----------------------------------------------------------------------------
(* The counter and the records of the calls keep their types.              *)
LEMMA TypeStep ==
  ASSUME TypeOK, [Next]_vars
  PROVE  TypeOK'
  <1>0. UsizeMax \in Nat /\ Limits \subseteq 0 .. UsizeMax /\ Size \in [Blocks -> 1 .. UsizeMax]
    BY LimitAssumption
  <1>1. \A x, y \in 0 .. UsizeMax : Add(x, y) \in 0 .. UsizeMax /\ Sub(x, y) \in 0 .. UsizeMax
    <2> SUFFICES ASSUME NEW x \in 0 .. UsizeMax, NEW y \in 0 .. UsizeMax
                 PROVE  Add(x, y) \in 0 .. UsizeMax /\ Sub(x, y) \in 0 .. UsizeMax
      OBVIOUS
    <2>1. x + y \in Nat /\ x + (UsizeMax + 1) - y \in Nat /\ UsizeMax + 1 \in Nat \ {0}
      BY <1>0
    <2>2. /\ (x + y) % (UsizeMax + 1) \in 0 .. (UsizeMax + 1) - 1
          /\ (x + (UsizeMax + 1) - y) % (UsizeMax + 1) \in 0 .. (UsizeMax + 1) - 1
      BY <2>1, DivMod
    <2> QED
      BY <1>0, <2>2 DEF Add, Sub
  <1>2. CASE UNCHANGED vars
    BY <1>2 DEF TypeOK, vars
  <1>3. ASSUME NEW l \in Limits, SetAllocatorLimit(l) PROVE TypeOK'
    BY <1>0, <1>3 DEF TypeOK, SetAllocatorLimit
  <1>4. ASSUME NEW t \in Threads, NEW b \in Blocks, LoadAllocated(t, b) PROVE TypeOK'
    BY <1>4 DEF TypeOK, LoadAllocated, Calls
  <1>5. ASSUME NEW t \in Threads, NEW b \in Blocks, AllocateAnyWay(t, b) PROVE TypeOK'
    <2>1. ALLOCATED' \in 0 .. UsizeMax
      BY <1>0, <1>1, <1>5 DEF TypeOK, AllocateAnyWay
    <2> QED
      BY <1>5, <2>1 DEF TypeOK, AllocateAnyWay, Calls
  <1>6. ASSUME NEW t \in Threads, NEW b \in Blocks, Unmap(t, b) PROVE TypeOK'
    BY <1>6 DEF TypeOK, Unmap, Calls
  <1>7. ASSUME NEW t \in Threads, Refuse(t) PROVE TypeOK'
    BY <1>7 DEF TypeOK, Refuse
  <1>8. ASSUME NEW t \in Threads, CompareExchange(t) PROVE TypeOK'
    <2>1. call[t].block \in Blocks /\ call[t].allocated \in 0 .. UsizeMax /\ call[t].at = "loop"
      BY <1>8, CallCases DEF CompareExchange, None
    <2>s. Size[call[t].block] \in 0 .. UsizeMax
      BY <1>0, <2>1
    <2>2. Add(call[t].allocated, Size[call[t].block]) \in 0 .. UsizeMax
      BY <1>1, <2>1, <2>s
    <2>3. ALLOCATED' \in 0 .. UsizeMax
      BY <1>8, <2>2 DEF CompareExchange, TypeOK
    <2>4. [at |-> "map", block |-> call[t].block] \in Calls
      BY <2>1 DEF Calls
    <2>5. [call[t] EXCEPT !.allocated = ALLOCATED] \in Calls
      BY <2>1 DEF TypeOK, Calls, None
    <2>6. call' \in [Threads -> Calls \union {None}]
      BY <1>8, <2>4, <2>5 DEF TypeOK, CompareExchange
    <2> QED
      BY <1>8, <2>3, <2>6 DEF TypeOK, CompareExchange
  <1>9. ASSUME NEW t \in Threads, MapOk(t) PROVE TypeOK'
    <2>1. call[t].block \in Blocks
      BY <1>9, CallCases DEF MapOk, None
    <2> QED
      BY <1>9, <2>1 DEF TypeOK, MapOk
  <1>10. ASSUME NEW t \in Threads, MapFails(t) \/ MarkDeallocated(t) PROVE TypeOK'
    <2>1. call[t].block \in Blocks
      BY <1>10, CallCases DEF MapFails, MarkDeallocated, None
    <2>s. Size[call[t].block] \in 0 .. UsizeMax
      BY <1>0, <2>1
    <2>2. ALLOCATED' \in 0 .. UsizeMax
      BY <1>1, <1>10, <2>s DEF TypeOK, MapFails, MarkDeallocated
    <2> QED
      BY <1>10, <2>2 DEF TypeOK, MapFails, MarkDeallocated
  <1> QED
    BY <1>2, <1>3, <1>4, <1>5, <1>6, <1>7, <1>8, <1>9, <1>10 DEF Next

(* The blocks of the calls stay apart from each other and from what is     *)
(* mapped: a step gives a call a block that nobody had.                    *)
LEMMA ApartStep ==
  ASSUME TypeOK, Apart, [Next]_vars
  PROVE  Apart'
  <1>1. ASSUME UNCHANGED <<mapped, call>> PROVE Apart'
    BY <1>1 DEF Apart
  <1>2. ASSUME NEW t \in Threads, NEW c \in Calls, call' = [call EXCEPT ![t] = c],
               mapped' \subseteq mapped, c.block \notin mapped',
               \A u \in Threads \ {t} : call[u] # None => call[u].block # c.block
        PROVE  Apart'
    <2>1. \A u \in Threads : call'[u] = IF u = t THEN c ELSE call[u]
      BY <1>2 DEF TypeOK
    <2> QED
      BY <1>2, <2>1 DEF Apart
  <1>3. ASSUME NEW t \in Threads, call' = [call EXCEPT ![t] = None],
               mapped' \subseteq mapped \union {call[t].block}, call[t] # None
        PROVE  Apart'
    <2>1. \A u \in Threads : call'[u] = IF u = t THEN None ELSE call[u]
      BY <1>3 DEF TypeOK
    <2> QED
      BY <1>3, <2>1 DEF Apart
  <1>4. ASSUME NEW t \in Threads, NEW b \in Blocks, LoadAllocated(t, b) PROVE Apart'
    <2> DEFINE c == [at |-> "loop", block |-> b, allocated |-> ALLOCATED]
    <2>1. c \in Calls /\ c.block = b
      BY DEF TypeOK, Calls
    <2>2. call' = [call EXCEPT ![t] = c] /\ mapped' = mapped /\ b \notin mapped \union Busy
      BY <1>4 DEF LoadAllocated, Begin
    <2> HIDE DEF c
    <2> QED
      BY <1>2, <2>1, <2>2 DEF Busy
  <1>5. ASSUME NEW t \in Threads, NEW b \in Blocks, AllocateAnyWay(t, b) PROVE Apart'
    <2> DEFINE c == [at |-> "map", block |-> b]
    <2>1. c \in Calls /\ c.block = b
      BY DEF Calls
    <2>2. call' = [call EXCEPT ![t] = c] /\ mapped' = mapped /\ b \notin mapped \union Busy
      BY <1>5 DEF AllocateAnyWay, Begin
    <2> HIDE DEF c
    <2> QED
      BY <1>2, <2>1, <2>2 DEF Busy
  <1>6. ASSUME NEW t \in Threads, NEW b \in Blocks, Unmap(t, b) PROVE Apart'
    <2> DEFINE c == [at |-> "mark", block |-> b]
    <2>1. c \in Calls /\ c.block = b
      BY DEF Calls
    <2>2. call' = [call EXCEPT ![t] = c] /\ mapped' = mapped \ {b} /\ b \in mapped
      BY <1>6 DEF Unmap
    <2>3. \A u \in Threads \ {t} : call[u] # None => call[u].block # b
      BY <2>2 DEF Apart
    <2> HIDE DEF c
    <2> QED
      BY <1>2, <2>1, <2>2, <2>3
  <1>7. ASSUME NEW t \in Threads, CompareExchange(t) PROVE Apart'
    <2>1. call[t] # None /\ mapped' = mapped /\ call[t].block \in Blocks
      BY <1>7, CallCases DEF CompareExchange, None
    <2>2. \E c \in Calls : call' = [call EXCEPT ![t] = c] /\ c.block = call[t].block
      <3>1. CASE ALLOCATED = call[t].allocated
        <4> DEFINE c == [at |-> "map", block |-> call[t].block]
        <4>1. c \in Calls /\ c.block = call[t].block
          BY <2>1 DEF Calls
        <4>2. call' = [call EXCEPT ![t] = c]
          BY <1>7, <3>1 DEF CompareExchange
        <4> QED
          BY <4>1, <4>2
      <3>2. CASE ALLOCATED # call[t].allocated
        <4> DEFINE c == [call[t] EXCEPT !.allocated = ALLOCATED]
        <4>1. call' = [call EXCEPT ![t] = c]
          BY <1>7, <3>2 DEF CompareExchange
        <4>2. call[t] \in [at : {"loop"}, block : Blocks, allocated : 0 .. UsizeMax]
          BY <1>7 DEF CompareExchange, TypeOK, Calls, None
        <4>3. c \in Calls /\ c.block = call[t].block
          BY <4>2 DEF Calls, TypeOK
        <4> QED
          BY <4>1, <4>3
      <3> QED
        BY <3>1, <3>2
    <2> QED
      BY <1>2, <2>1, <2>2 DEF Apart
  <1>8. ASSUME NEW t \in Threads, Refuse(t) \/ MapOk(t) \/ MapFails(t) \/ MarkDeallocated(t) PROVE Apart'
    BY <1>3, <1>8 DEF Refuse, MapOk, MapFails, MarkDeallocated, None
  <1> QED
    BY <1>1, <1>4, <1>5, <1>6, <1>7, <1>8 DEF Next, vars, SetAllocatorLimit

-----------------------------------------------------------------------------
(* How a step changes what is mapped or counted: by the one block that is  *)
(* added to ALLOCATED or taken from it, or not at all.                     *)
LEMMA HeldStep ==
  ASSUME TypeOK, Apart, [Next]_vars
  PROVE  \/ /\ (mapped \union Counted)' = mapped \union Counted
            /\ ALLOCATED' = ALLOCATED
            /\ LIMIT' = LIMIT \/ mapped \union Counted = {}
         \/ \E b \in Blocks \ (mapped \union Counted) :
              /\ (mapped \union Counted)' = (mapped \union Counted) \union {b}
              /\ ALLOCATED' = Add(ALLOCATED, Size[b])
              /\ LIMIT' = LIMIT
              /\ b \notin Forced => ALLOCATED' <= LIMIT
         \/ \E b \in mapped \union Counted :
              /\ (mapped \union Counted)' = (mapped \union Counted) \ {b}
              /\ ALLOCATED' = Sub(ALLOCATED, Size[b])
              /\ LIMIT' = LIMIT
  <1> DEFINE G ==
         \/ /\ (mapped \union Counted)' = mapped \union Counted
            /\ ALLOCATED' = ALLOCATED
            /\ LIMIT' = LIMIT \/ mapped \union Counted = {}
         \/ \E b \in Blocks \ (mapped \union Counted) :
              /\ (mapped \union Counted)' = (mapped \union Counted) \union {b}
              /\ ALLOCATED' = Add(ALLOCATED, Size[b])
              /\ LIMIT' = LIMIT
              /\ b \notin Forced => ALLOCATED' <= LIMIT
         \/ \E b \in mapped \union Counted :
              /\ (mapped \union Counted)' = (mapped \union Counted) \ {b}
              /\ ALLOCATED' = Sub(ALLOCATED, Size[b])
              /\ LIMIT' = LIMIT
  <1> SUFFICES G
    OBVIOUS
  <1>1. ASSUME UNCHANGED vars PROVE G
    BY <1>1 DEF Counted, vars
  <1>9. ASSUME NEW l \in Limits, SetAllocatorLimit(l) PROVE G
    BY <1>9 DEF SetAllocatorLimit, Counted, None
  <1>2. ASSUME NEW t \in Threads, NEW b \in Blocks, LoadAllocated(t, b) PROVE G
    <2>1. /\ call' = [call EXCEPT ![t] = [at |-> "loop", block |-> b, allocated |-> ALLOCATED]]
          /\ call[t].at = "idle"
          /\ UNCHANGED <<LIMIT, ALLOCATED, mapped>>
      BY <1>2 DEF LoadAllocated, Begin, None
    <2>2. Counted' = Counted
      BY <2>1, CountedStays
    <2> QED
      BY <2>1, <2>2
  <1>3. ASSUME NEW t \in Threads, NEW b \in Blocks, AllocateAnyWay(t, b) PROVE G
    <2> DEFINE c == [at |-> "map", block |-> b]
    <2>0. c \in Calls /\ c.at = "map" /\ c.block = b
      BY DEF Calls
    <2>1. /\ call' = [call EXCEPT ![t] = c]
          /\ call[t].at = "idle"
          /\ UNCHANGED <<LIMIT, mapped>>
          /\ ALLOCATED' = Add(ALLOCATED, Size[b])
          /\ b \notin mapped \union Busy
          /\ b \in Forced
      BY <1>3 DEF AllocateAnyWay, Begin, None
    <2> HIDE DEF c
    <2>2. Counted' = Counted \union {b}
      BY <2>0, <2>1, CountedGrows
    <2>3. b \in Blocks \ (mapped \union Counted)
      BY <2>1, ApartCounted
    <2>4. (mapped \union Counted)' = (mapped \union Counted) \union {b}
      BY <2>1, <2>2
    <2> QED
      BY <2>1, <2>3, <2>4
  <1>4. ASSUME NEW t \in Threads, NEW b \in Blocks, Unmap(t, b) PROVE G
    <2> DEFINE c == [at |-> "mark", block |-> b]
    <2>0. c \in Calls /\ c.at = "mark" /\ c.block = b
      BY DEF Calls
    <2>1. /\ call' = [call EXCEPT ![t] = c]
          /\ call[t].at = "idle"
          /\ UNCHANGED <<LIMIT, ALLOCATED>>
          /\ mapped' = mapped \ {b}
          /\ b \in mapped
      BY <1>4 DEF Unmap, None
    <2> HIDE DEF c
    <2>2. Counted' = Counted \union {b}
      BY <2>0, <2>1, CountedGrows
    <2>3. (mapped \union Counted)' = mapped \union Counted
      BY <2>1, <2>2
    <2> QED
      BY <2>1, <2>3
  <1>5. ASSUME NEW t \in Threads, Refuse(t) PROVE G
    <2>1. /\ call' = [call EXCEPT ![t] = None]
          /\ call[t].at = "loop"
          /\ UNCHANGED <<LIMIT, ALLOCATED, mapped>>
          /\ None.at = "idle"
      BY <1>5 DEF Refuse, None
    <2>2. Counted' = Counted
      BY <2>1, CountedStays
    <2> QED
      BY <2>1, <2>2
  <1>6. ASSUME NEW t \in Threads, CompareExchange(t) PROVE G
    <2> DEFINE b == call[t].block
    <2>0. b \in Blocks \ (mapped \union Counted) /\ call[t].at = "loop"
      BY <1>6, CallCases, ApartCounted DEF CompareExchange, None
    <2>1. CASE ALLOCATED = call[t].allocated
      <3> DEFINE c == [at |-> "map", block |-> b]
      <3>0. c \in Calls /\ c.at = "map" /\ c.block = b
        BY <2>0 DEF Calls
      <3>1. /\ call' = [call EXCEPT ![t] = c]
            /\ UNCHANGED <<LIMIT, mapped>>
            /\ ALLOCATED' = Add(ALLOCATED, Size[b])
            /\ ALLOCATED' <= LIMIT
        BY <1>6, <2>1 DEF CompareExchange
      <3> HIDE DEF c
      <3>2. Counted' = Counted \union {b}
        BY <2>0, <3>0, <3>1, CountedGrows
      <3>3. (mapped \union Counted)' = (mapped \union Counted) \union {b}
        BY <3>1, <3>2
      <3> QED
        BY <2>0, <3>1, <3>3
    <2>2. CASE ALLOCATED # call[t].allocated
      <3> DEFINE c == [call[t] EXCEPT !.allocated = ALLOCATED]
      <3>1. /\ call' = [call EXCEPT ![t] = c]
            /\ UNCHANGED <<LIMIT, ALLOCATED, mapped>>
        BY <1>6, <2>2 DEF CompareExchange
      <3>2. call[t] \in [at : {"loop"}, block : Blocks, allocated : 0 .. UsizeMax]
        BY <2>0 DEF TypeOK, Calls, None
      <3>3. c.at = "loop"
        BY <3>2
      <3> HIDE DEF c
      <3>4. Counted' = Counted
        BY <2>0, <3>1, <3>3, CountedStays
      <3> QED
        BY <3>1, <3>4
    <2> QED
      BY <2>1, <2>2
  <1>7. ASSUME NEW t \in Threads, MapOk(t) PROVE G
    <2>1. /\ call' = [call EXCEPT ![t] = None]
          /\ call[t].at = "map"
          /\ UNCHANGED <<LIMIT, ALLOCATED>>
          /\ mapped' = mapped \union {call[t].block}
      BY <1>7 DEF MapOk
    <2>2. Counted' = Counted \ {call[t].block} /\ call[t].block \in Counted
      BY <2>1, CountedShrinks, ApartCounted
    <2>3. (mapped \union Counted)' = mapped \union Counted
      BY <2>1, <2>2
    <2> QED
      BY <2>1, <2>3
  <1>8. ASSUME NEW t \in Threads, MapFails(t) \/ MarkDeallocated(t) PROVE G
    <2> DEFINE b == call[t].block
    <2>1. /\ call' = [call EXCEPT ![t] = None]
          /\ call[t].at \in {"map", "mark"}
          /\ UNCHANGED <<LIMIT, mapped>>
          /\ ALLOCATED' = Sub(ALLOCATED, Size[b])
      BY <1>8 DEF MapFails, MarkDeallocated
    <2>2. Counted' = Counted \ {b} /\ b \in Counted /\ b \notin mapped
      BY <2>1, CountedShrinks, ApartCounted
    <2>3. (mapped \union Counted)' = (mapped \union Counted) \ {b} /\ b \in mapped \union Counted
      BY <2>1, <2>2
    <2> QED
      BY <2>1, <2>3
  <1> HIDE DEF G
  <1> QED
    BY <1>1, <1>2, <1>3, <1>4, <1>5, <1>6, <1>7, <1>8, <1>9 DEF Next

(* Every step counts what it maps and uncounts what it gives back.         *)
LEMMA AccountedStep ==
  ASSUME IInv, [Next]_vars
  PROVE  Accounted'
  <1> DEFINE H == mapped \union Counted
             K == H'
             n == Bytes(H)
  <1>0. /\ TypeOK /\ Apart /\ ALLOCATED = n % (UsizeMax + 1)
        /\ H \in SUBSET Blocks
        /\ Size \in [Blocks -> 1 .. UsizeMax] /\ UsizeMax \in Nat
        /\ (Accounted' <=> ALLOCATED' = Bytes(K) % (UsizeMax + 1))
    BY CountedBlocks, LimitAssumption DEF IInv, Accounted, Bytes
  <1>1. CASE K = H /\ ALLOCATED' = ALLOCATED
    BY <1>0, <1>1
  <1>2. ASSUME NEW b \in Blocks \ H, K = H \union {b}, ALLOCATED' = Add(ALLOCATED, Size[b])
        PROVE  Accounted'
    <2> HIDE DEF H, K
    <2>1. n \in Nat
      BY <1>0, BytesFinite
    <2>2. Size[b] \in 0 .. UsizeMax
      BY <1>0
    <2>3. Bytes(K) = n + Size[b]
      BY <1>0, <1>2, BytesAdd
    <2> HIDE DEF n
    <2>4. Add(n % (UsizeMax + 1), Size[b]) = (n + Size[b]) % (UsizeMax + 1)
      BY <2>1, <2>2, AddMod
    <2> QED
      BY <1>0, <1>2, <2>3, <2>4
  <1>3. ASSUME NEW b \in H, K = H \ {b}, ALLOCATED' = Sub(ALLOCATED, Size[b])
        PROVE  Accounted'
    <2> HIDE DEF H, K
    <2>1. Bytes(K) \in Nat
      BY <1>0, <1>3, BytesFinite
    <2>2. Size[b] \in 0 .. UsizeMax /\ b \in Blocks
      BY <1>0
    <2>3. H = K \union {b} /\ b \in Blocks \ K /\ K \in SUBSET Blocks
      BY <1>0, <1>3
    <2>4. n = Bytes(K) + Size[b]
      BY <2>3, BytesAdd
    <2> HIDE DEF n
    <2>5. Sub((Bytes(K) + Size[b]) % (UsizeMax + 1), Size[b]) = Bytes(K) % (UsizeMax + 1)
      BY <2>1, <2>2, SubMod
    <2> QED
      BY <1>0, <1>3, <2>4, <2>5
  <1> QED
    BY <1>0, <1>1, <1>2, <1>3, HeldStep

(* The invariant holds in every reachable state.                           *)
THEOREM Invariance == Spec => []IInv
  <1>1. Init => IInv
    <2> SUFFICES ASSUME Init PROVE IInv
      OBVIOUS
    <2>1. TypeOK /\ Apart
      BY LimitAssumption DEF Init, TypeOK, Apart
    <2>2. mapped \union Counted = {}
      BY DEF Init, Counted, None
    <2>3. 0 % (UsizeMax + 1) = 0
      BY LimitAssumption
    <2>4. Accounted
      BY <2>2, <2>3, BytesEmpty DEF Accounted, Init
    <2> QED
      BY <2>1, <2>4 DEF IInv
  <1>2. IInv /\ [Next]_vars => IInv'
    BY TypeStep, ApartStep, AccountedStep DEF IInv
  <1> QED
    BY <1>1, <1>2, PTL DEF Spec

(* For any threads, blocks and sizes, ALLOCATED is the number of bytes     *)
(* that are mapped, about to be mapped or just unmapped, modulo the width  *)
(* of the counter: may_allocate, allocate_any_way and mark_deallocated     *)
(* never count twice and never forget, however they interleave and         *)
(* whatever mappings fail.                                                 *)
THEOREM Accounting == Spec => []Accounted
  <1>1. IInv => Accounted
    BY DEF IInv
  <1> QED
    BY <1>1, Invariance, PTL

-----------------------------------------------------------------------------
(* What may_allocate sees is exact, if nothing can wrap, so the sum that   *)
(* it has found within the limit is the true one.                          *)
LEMMA Granted ==
  ASSUME NoWrap, IInv, GrantedWithin, LIMIT # UsizeMax,
         NEW b \in Blocks \ (mapped \union Counted),
         Add(ALLOCATED, Size[b]) <= LIMIT
  PROVE  Bytes((mapped \union Counted) \union {b}) <= LIMIT
  <1> DEFINE H == mapped \union Counted
             n == Bytes(H)
             g == Bytes(H \ Forced)
             f == Bytes(Forced)
             s == Size[b]
  <1>1. /\ TypeOK /\ ALLOCATED = n % (UsizeMax + 1)
        /\ H \in SUBSET Blocks /\ Forced \in SUBSET Blocks
        /\ LIMIT \in Limits \ {UsizeMax} /\ LIMIT \in Nat /\ UsizeMax \in Nat /\ s \in 0 .. UsizeMax
    BY CountedBlocks, LimitAssumption DEF IInv, TypeOK, Accounted
  <1>2. g <= LIMIT
    BY DEF GrantedWithin
  <1>3. LIMIT + f + s <= UsizeMax
    BY <1>1 DEF NoWrap
  <1> HIDE DEF H
  <1>4. n \in Nat /\ g \in Nat /\ f \in Nat
    BY <1>1, BytesFinite
  <1>5. n <= g + f
    <2>1. H \subseteq (H \ Forced) \union Forced /\ (H \ Forced) \union Forced \in SUBSET Blocks
      BY <1>1
    <2>2. n <= Bytes((H \ Forced) \union Forced)
      BY <2>1, BytesMonotone
    <2>3. Bytes((H \ Forced) \union Forced) <= g + f
      BY <1>1, BytesUnion
    <2>4. Bytes((H \ Forced) \union Forced) \in Nat
      BY <2>1, BytesFinite
    <2> HIDE DEF n, g, f
    <2> QED
      BY <1>4, <2>2, <2>3, <2>4
  <1>6. Bytes(H \union {b}) = n + s
    BY <1>1, BytesAdd DEF H
  <1> HIDE DEF n, g, f, s
  <1>7. n + s \in 0 .. UsizeMax
    BY <1>1, <1>2, <1>3, <1>4, <1>5
  <1>8. (n + s) % (UsizeMax + 1) = n + s
    BY <1>1, <1>7
  <1>9. Add(ALLOCATED, s) = (n + s) % (UsizeMax + 1)
    BY <1>1, <1>4, AddMod
  <1>10. n + s <= LIMIT
    BY <1>8, <1>9 DEF s
  <1> QED
    BY <1>6, <1>10 DEF H

(* What the limit has granted stays within it.                             *)
LEMMA GrantedWithinStep ==
  ASSUME NoWrap, IInv, GrantedWithin, [Next]_vars
  PROVE  GrantedWithin'
  <1> DEFINE H == mapped \union Counted
             K == H'
  <1>a. /\ TypeOK /\ Apart /\ TypeOK'
        /\ H \in SUBSET Blocks
    BY CountedBlocks, TypeStep DEF IInv
  <1>b. K \in SUBSET Blocks
    BY <1>a, HeldStep
  <1>c. LIMIT \in Nat /\ LIMIT' \in Nat
    BY <1>a, LimitAssumption DEF TypeOK
  <1>0. /\ TypeOK /\ Apart
        /\ H \in SUBSET Blocks /\ K \in SUBSET Blocks
        /\ LIMIT \in Nat /\ LIMIT' \in Nat
    BY <1>a, <1>b, <1>c
  <1> SUFFICES ASSUME LIMIT' # UsizeMax PROVE Bytes(K \ Forced) <= LIMIT'
    BY DEF GrantedWithin, Bytes
  <1>1. CASE K = H /\ (LIMIT' = LIMIT \/ H = {})
    <2>1. CASE LIMIT' = LIMIT
      BY <1>1, <2>1 DEF GrantedWithin
    <2>2. CASE H = {}
      <3>1. K \ Forced = {}
        BY <1>1, <2>2
      <3> QED
        BY <1>0, <3>1, BytesEmpty
    <2> QED
      BY <1>1, <2>1, <2>2
  <1>2. ASSUME NEW b \in Blocks \ H, K = H \union {b}, ALLOCATED' = Add(ALLOCATED, Size[b]),
               LIMIT' = LIMIT, b \notin Forced => ALLOCATED' <= LIMIT
        PROVE  Bytes(K \ Forced) <= LIMIT'
    <2>1. CASE b \in Forced
      <3>1. K \ Forced = H \ Forced
        BY <1>2, <2>1
      <3> QED
        BY <1>2, <3>1 DEF GrantedWithin
    <2>2. CASE b \notin Forced
      <3>1. Bytes(K) <= LIMIT
        BY <1>2, <2>2, Granted
      <3>2. Bytes(K \ Forced) <= Bytes(K) /\ Bytes(K) \in Nat /\ Bytes(K \ Forced) \in Nat
        BY <1>0, BytesMonotone, BytesFinite
      <3> QED
        BY <1>0, <1>2, <3>1, <3>2
    <2> QED
      BY <2>1, <2>2
  <1>3. ASSUME NEW b \in H, K = H \ {b}, LIMIT' = LIMIT
        PROVE  Bytes(K \ Forced) <= LIMIT'
    <2>1. K \ Forced \in SUBSET (H \ Forced) /\ H \ Forced \in SUBSET Blocks /\ K \ Forced \in SUBSET Blocks
      BY <1>0, <1>3
    <2>2. /\ Bytes(K \ Forced) <= Bytes(H \ Forced)
          /\ Bytes(H \ Forced) \in Nat /\ Bytes(K \ Forced) \in Nat
      BY <2>1, BytesMonotone, BytesFinite
    <2>3. Bytes(H \ Forced) <= LIMIT
      BY <1>3 DEF GrantedWithin
    <2> QED
      BY <1>0, <1>3, <2>2, <2>3
  <1> QED
    BY <1>0, <1>1, <1>2, <1>3, HeldStep

(* If no request can make the count wrap, what was granted stays within    *)
(* the limit that was set.                                                 *)
THEOREM WithinInvariance ==
  ASSUME NoWrap
  PROVE  Spec => [](IInv /\ GrantedWithin)
  <1>1. Init => GrantedWithin
    <2> SUFFICES ASSUME Init PROVE GrantedWithin
      OBVIOUS
    <2>1. LIMIT = UsizeMax
      BY DEF Init
    <2> QED
      BY <2>1 DEF GrantedWithin
  <1>2. IInv /\ GrantedWithin /\ [Next]_vars => GrantedWithin'
    BY GrantedWithinStep
  <1> QED
    BY <1>1, <1>2, Invariance, PTL DEF Spec

(* If no request can make the count wrap, may_allocate grants a block only *)
(* when it fits under the limit together with all that is mapped or on its *)
(* way to be, although others change ALLOCATED between its load and its    *)
(* compare-exchange.                                                       *)
THEOREM Granting ==
  ASSUME NoWrap
  PROVE  Spec => GrantsWithinLimit
  <1> DEFINE A ==
        \A t \in Threads :
          LIMIT # UsizeMax /\ call[t].at = "loop" /\ call'[t].at = "map"
            => Bytes(mapped \union Counted \union {call[t].block}) <= LIMIT
  <1>1. ASSUME IInv, GrantedWithin, [Next]_vars PROVE [A]_vars
    <2> SUFFICES ASSUME NEW t \in Threads, LIMIT # UsizeMax,
                        call[t].at = "loop", call'[t].at = "map"
                 PROVE  Bytes(mapped \union Counted \union {call[t].block}) <= LIMIT
      OBVIOUS
    <2>1. TypeOK /\ Apart
      BY <1>1 DEF IInv
    <2>2. ASSUME NEW u \in Threads, NEW c, call' = [call EXCEPT ![u] = c]
          PROVE  u = t /\ c.at = "map"
      BY <2>1, <2>2 DEF TypeOK
    <2>3. CompareExchange(t)
      <3>1. call' # call
        OBVIOUS
      <3>2. ASSUME NEW u \in Threads, NEW b \in Blocks, LoadAllocated(u, b) \/ AllocateAnyWay(u, b) \/ Unmap(u, b)
            PROVE  FALSE
        BY <2>2, <3>2 DEF LoadAllocated, AllocateAnyWay, Unmap, Begin, None
      <3>3. ASSUME NEW u \in Threads, Refuse(u) \/ MapOk(u) \/ MapFails(u) \/ MarkDeallocated(u)
            PROVE  FALSE
        BY <2>2, <3>3 DEF Refuse, MapOk, MapFails, MarkDeallocated, None
      <3>4. ASSUME NEW u \in Threads, CompareExchange(u)
            PROVE  CompareExchange(t)
        BY <2>2, <3>4 DEF CompareExchange
      <3> QED
        BY <1>1, <3>1, <3>2, <3>3, <3>4 DEF Next, vars, SetAllocatorLimit
    <2>a. ALLOCATED = call[t].allocated
      <3> SUFFICES ASSUME ALLOCATED # call[t].allocated PROVE FALSE
        OBVIOUS
      <3>1. call' = [call EXCEPT ![t] = [call[t] EXCEPT !.allocated = ALLOCATED]]
        BY <2>3 DEF CompareExchange
      <3>2. call[t] \in [at : {"loop"}, block : Blocks, allocated : 0 .. UsizeMax]
        BY <2>1 DEF TypeOK, Calls, None
      <3>3. [call[t] EXCEPT !.allocated = ALLOCATED].at = "loop"
        BY <3>2
      <3> QED
        BY <2>2, <3>1, <3>3
    <2>4. Add(ALLOCATED, Size[call[t].block]) <= LIMIT
      BY <2>3, <2>a DEF CompareExchange
    <2>5. call[t].block \in Blocks \ (mapped \union Counted)
      BY <2>1, CallCases, ApartCounted DEF None
    <2> QED
      BY <1>1, <2>4, <2>5, Granted
  <1>2. (IInv /\ GrantedWithin) /\ [Next]_vars => [A]_vars
    BY <1>1
  <1> QED
    BY <1>2, WithinInvariance, PTL DEF Spec, GrantsWithinLimit

(* If no request can make the count wrap, then, as long as no forced block *)
(* is mapped, not more is mapped than the limit.  Where none was set the   *)
(* limit is the largest number of the counter, and this says only that     *)
(* what is mapped fits into an address space.                              *)
THEOREM Limiting ==
  ASSUME NoWrap
  PROVE  Spec => [](LIMIT # UsizeMax \/ Bytes(mapped) <= UsizeMax => WithinLimit)
  <1>1. ASSUME IInv, GrantedWithin, LIMIT # UsizeMax \/ Bytes(mapped) <= UsizeMax
        PROVE  WithinLimit
    <2>1. TypeOK /\ LIMIT \in Nat
      BY <1>1, LimitAssumption DEF IInv, TypeOK
    <2>2. CASE LIMIT = UsizeMax
      BY <1>1, <2>2 DEF WithinLimit
    <2>3. CASE LIMIT # UsizeMax
      <3> SUFFICES ASSUME Forced \intersect mapped = {} PROVE Bytes(mapped) <= LIMIT
        BY DEF WithinLimit
      <3> DEFINE H == (mapped \union Counted) \ Forced
      <3>1. mapped \in SUBSET H /\ H \in SUBSET Blocks
        BY <2>1, CountedBlocks
      <3>2. Bytes(H) <= LIMIT
        BY <1>1, <2>3 DEF GrantedWithin
      <3> HIDE DEF H
      <3>3. Bytes(mapped) <= Bytes(H) /\ Bytes(mapped) \in Nat /\ Bytes(H) \in Nat
        BY <3>1, BytesMonotone, BytesFinite
      <3> QED
        BY <2>1, <3>2, <3>3
    <2> QED
      BY <2>2, <2>3
  <1>2. IInv /\ GrantedWithin => (LIMIT # UsizeMax \/ Bytes(mapped) <= UsizeMax => WithinLimit)
    BY <1>1
  <1> QED
    BY <1>2, WithinInvariance, PTL

-----------------------------------------------------------------------------
(* A step of the operating system layer is a step of the limit or leaves   *)
(* it alone.                                                               *)
LEMMA LimitStep ==
  ASSUME [UnixNext]_allVars
  PROVE  [Next]_vars
  <1>1. ASSUME NEW t \in Threads, Mapped(t) PROVE MapOk(t) \/ UNCHANGED vars
    BY <1>1 DEF Mapped
  <1>2. ASSUME NEW t \in Threads, PlainFails(t) \/ FreeTail(t) PROVE MapFails(t) \/ MapOk(t)
    BY <1>2 DEF PlainFails, FreeTail
  <1>3. ASSUME NEW t \in Threads, NEW b \in Blocks, Free(t, b) PROVE Unmap(t, b)
    BY <1>3 DEF Free
  <1>4. ASSUME NEW t \in Threads,
               BeginMap(t) \/ HugeFails(t) \/ Commit(t) \/ FreeHead(t) \/ Register(t) \/ CreateKey(t) \/ StoreOnce(t)
                 \/ Spin(t) \/ SetSpecific(t) \/ Deregister(t) \/ Exit(t) \/ PthreadCreate(t)
        PROVE  UNCHANGED vars
    BY <1>4 DEF BeginMap, HugeFails, Commit, FreeHead, Register, CreateKey, StoreOnce, Spin, SetSpecific, Deregister,
                Exit, PthreadCreate
  <1>5. ASSUME NEW c \in Closures, Start(c) PROVE UNCHANGED vars
    BY <1>5 DEF Start
  <1>6. CASE UNCHANGED allVars
    BY <1>6 DEF allVars
  <1> QED
    BY <1>1, <1>2, <1>3, <1>4, <1>5, <1>6 DEF UnixNext, Next

(* The operating system layer implements the limit.                        *)
THEOREM Implements == UnixSpec => Spec
  <1>1. UnixInit => Init
    BY DEF UnixInit
  <1> QED
    BY <1>1, LimitStep, PTL DEF UnixSpec, Spec

(* So the invariant of the limit holds here too.                           *)
THEOREM LimitInvariance == UnixSpec => []IInv
  BY Implements, Invariance, PTL

-----------------------------------------------------------------------------
(* What the record of a mapping under way can be.                          *)
LEMMA MakingCases ==
  ASSUME UnixTypeOK, NEW t \in Threads
  PROVE  /\ sys[t] = NoCall <=> sys[t].at = "idle"
         /\ sys[t] # NoCall => /\ sys[t].block \in Blocks \union Closures
                               /\ sys[t].base \in Nat
                               /\ sys[t].at \in Trying \union {"commit", "head", "tail", "create"}
                               /\ sys[t] = [at |-> sys[t].at, block |-> sys[t].block, base |-> sys[t].base]
  <1>1. sys[t] \in Making \union {NoCall}
    BY DEF UnixTypeOK
  <1> QED
    BY <1>1 DEF Making, NoCall, Trying

(* The key: only the steps of registration matter.                         *)
LEMMA KeyStep ==
  ASSUME IInv, UnixTypeOK, KeyOnce, MakingApart, [UnixNext]_allVars
  PROVE  KeyOnce'
  <1>1. ASSUME UNCHANGED keyVars PROVE KeyOnce'
    BY <1>1 DEF KeyOnce, keyVars
  <1>2. ASSUME NEW t \in Threads, Register(t) PROVE KeyOnce'
    BY <1>2 DEF KeyOnce, Register, At, UnixTypeOK
  <1>3. ASSUME NEW t \in Threads, CreateKey(t) PROVE KeyOnce'
    BY <1>3 DEF KeyOnce, CreateKey, At, UnixTypeOK
  <1>4. ASSUME NEW t \in Threads, StoreOnce(t) PROVE KeyOnce'
    BY <1>4 DEF KeyOnce, StoreOnce, At, UnixTypeOK
  <1>5. ASSUME NEW t \in Threads, Spin(t) PROVE KeyOnce'
    BY <1>5 DEF KeyOnce, Spin, At, UnixTypeOK
  <1>6. ASSUME NEW t \in Threads, SetSpecific(t) PROVE KeyOnce'
    BY <1>6 DEF KeyOnce, SetSpecific, At, UnixTypeOK
  <1>7. ASSUME NEW t \in Threads, Deregister(t) PROVE KeyOnce'
    BY <1>7 DEF KeyOnce, Deregister, At, UnixTypeOK
  <1>8. ASSUME NEW t \in Threads, Exit(t) PROVE KeyOnce'
    BY <1>8 DEF KeyOnce, Exit, At, UnixTypeOK
  <1>9. ASSUME NEW t \in Threads, PthreadCreate(t) PROVE KeyOnce'
    <2>1. life[t] = "exited"
      BY <1>9 DEF PthreadCreate, MakingApart, NoCall, Trying
    <2>2. life' = life \/ life' = [life EXCEPT ![t] = "panicked"]
      BY <1>9 DEF PthreadCreate
    <2>3. UNCHANGED <<ONCE, keys, specific>>
      BY <1>9 DEF PthreadCreate
    <2> QED
      BY <2>1, <2>2, <2>3 DEF KeyOnce, UnixTypeOK
  <1>10. ASSUME NEW c \in Closures, Start(c) PROVE KeyOnce'
    BY <1>10 DEF KeyOnce, Start
  <1>11. ASSUME NEW t \in Threads,
                BeginMap(t) \/ Mapped(t) \/ HugeFails(t) \/ PlainFails(t) \/ Commit(t) \/ FreeHead(t) \/ FreeTail(t)
         PROVE  UNCHANGED keyVars
    BY <1>11 DEF BeginMap, Mapped, HugeFails, PlainFails, Commit, FreeHead, FreeTail, keyVars
  <1>12. ASSUME NEW t \in Threads, NEW b \in Blocks, Free(t, b) PROVE UNCHANGED keyVars
    BY <1>12 DEF Free, keyVars
  <1>13. UNCHANGED allVars => UNCHANGED keyVars
    BY DEF allVars, keyVars
  <1> QED
    BY <1>1, <1>2, <1>3, <1>4, <1>5, <1>6, <1>7, <1>8, <1>9, <1>10, <1>11, <1>12, <1>13 DEF UnixNext

-----------------------------------------------------------------------------
(* Facts about pages and alignment.                                        *)

(* What the assumptions say of the constants.                              *)
LEMMA Constants ==
  /\ PageSize \in Nat \ {0} /\ Pages \in Nat /\ ClosureSize \in Nat \ {0}
  /\ \A b \in Blocks : Size[b] \in Nat \ {0}
  /\ Regions \subseteq Blocks /\ Closures \intersect Blocks = {} /\ Nobody \notin Blocks \union Closures
  BY UnixAssumption, LimitAssumption

(* What is mapped is not empty.                                            *)
LEMMA AllocSizeType ==
  ASSUME NEW b \in Blocks \union Closures
  PROVE  AllocSize(b) \in Nat \ {0} /\ Length(b) \in Nat \ {0}
  BY Constants DEF AllocSize, Length

(* A multiple leaves no remainder.                                         *)
LEMMA MultipleIs ==
  ASSUME NEW k \in Nat, NEW m \in Nat \ {0}
  PROVE  (k * m) % m = 0 /\ k * m \in Nat
  <1>1. k * m = m * k + 0 /\ k * m \in Nat /\ 0 \in 0 .. (m - 1)
    OBVIOUS
  <1> QED
    BY <1>1, ModUnique

(* Aligned is the next multiple, less than one alignment away.             *)
LEMMA AlignedType ==
  ASSUME NEW base \in Nat, NEW align \in Nat \ {0}
  PROVE  /\ Aligned(base, align) \in Nat
         /\ base <= Aligned(base, align) /\ Aligned(base, align) <= base + align - 1
         /\ Aligned(base, align) % align = 0
  <1> DEFINE x == base + align - 1
             q == x \div align
             r == x % align
  <1>1. x \in Nat /\ q \in Nat /\ r \in 0 .. (align - 1) /\ x = align * q + r
    BY DivMod
  <1> HIDE DEF q, r
  <1>2. align * q = base + align - 1 - r /\ align * q \in Nat
    BY <1>1
  <1>3. q * align = align * q
    BY <1>1
  <1>4. (q * align) % align = 0
    BY <1>1, MultipleIs
  <1>5. Aligned(base, align) = align * q
    BY <1>3 DEF Aligned, q
  <1>6. base <= align * q /\ align * q <= base + align - 1
    BY <1>1, <1>2
  <1> QED
    BY <1>2, <1>3, <1>4, <1>5, <1>6

(* What leaves no remainder is a multiple.                                 *)
LEMMA MultipleOf ==
  ASSUME NEW x \in Nat, NEW m \in Nat \ {0}, x % m = 0
  PROVE  \E k \in Nat : x = k * m
  <1> DEFINE k == x \div m
  <1>1. k \in Nat /\ x = m * k + (x % m)
    BY DivMod
  <1> HIDE DEF k
  <1>2. x = k * m
    BY <1>1
  <1> QED
    BY <1>1, <1>2

(* A region that is aligned begins with a page.                            *)
LEMMA AlignedPages ==
  ASSUME NEW b \in Regions, NEW base \in Nat
  PROVE  Aligned(base, Size[b]) % PageSize = 0
  <1> DEFINE a == Aligned(base, Size[b])
             s == Size[b]
  <1>1. a \in Nat /\ a % s = 0 /\ s \in Nat \ {0} /\ s % PageSize = 0 /\ PageSize \in Nat \ {0}
    BY AlignedType, Constants, UnixAssumption
  <1> HIDE DEF a, s
  <1>2. PICK k \in Nat : a = k * s
    BY <1>1, MultipleOf
  <1>3. PICK j \in Nat : s = j * PageSize
    BY <1>1, MultipleOf
  <1>4. a = (k * j) * PageSize /\ k * j \in Nat
    BY <1>1, <1>2, <1>3
  <1>5. a % PageSize = 0
    BY <1>1, <1>4, MultipleIs
  <1> QED
    BY <1>5 DEF a

(* Multiples are in the order of their factors.                            *)
LEMMA Multiples ==
  ASSUME NEW p \in Nat, NEW k \in Nat, NEW m \in Nat \ {0}
  PROVE  /\ p < k => (p + 1) * m <= k * m /\ p * m < k * m
         /\ p >= k => p * m >= k * m
         /\ p * m \in Nat /\ k * m \in Nat /\ (p + 1) * m = p * m + m
  <1>1. p * m \in Nat /\ k * m \in Nat /\ (p + 1) * m = p * m + m
    OBVIOUS
  <1>2. ASSUME p < k PROVE (p + 1) * m <= k * m
    <2>1. PICK d \in Nat : k = (p + 1) + d
      <3>1. k - (p + 1) \in Nat /\ k = (p + 1) + (k - (p + 1))
        BY <1>2
      <3> QED
        BY <3>1
    <2>2. k * m = (p + 1) * m + d * m /\ d * m \in Nat
      BY <2>1
    <2> QED
      BY <1>1, <2>2
  <1>3. ASSUME p >= k PROVE p * m >= k * m
    <2>1. PICK d \in Nat : p = k + d
      <3>1. p - k \in Nat /\ p = k + (p - k)
        BY <1>3
      <3> QED
        BY <3>1
    <2>2. p * m = k * m + d * m /\ d * m \in Nat
      BY <2>1
    <2> QED
      BY <1>1, <2>2
  <1> QED
    BY <1>1, <1>2, <1>3

(* Cut where a page begins, a stretch of memory falls into pages apart.    *)
LEMMA Split ==
  ASSUME NEW from \in Nat, NEW mid \in Nat, NEW to \in Nat,
         from <= mid, mid <= to, mid % PageSize = 0
  PROVE  /\ PagesOf(from, to - from) = PagesOf(from, mid - from) \union PagesOf(mid, to - mid)
         /\ PagesOf(from, mid - from) \intersect PagesOf(mid, to - mid) = {}
  <1>1. PICK k \in Nat : mid = k * PageSize
    BY Constants, MultipleOf
  <1>2. ASSUME NEW p \in 0 .. Pages - 1
        PROVE  /\ p \in PagesOf(from, to - from) <=>
                    p \in PagesOf(from, mid - from) \/ p \in PagesOf(mid, to - mid)
               /\ ~(p \in PagesOf(from, mid - from) /\ p \in PagesOf(mid, to - mid))
    <2> DEFINE x == p * PageSize
               y == (p + 1) * PageSize
    <2>0. p \in Nat /\ PageSize \in Nat \ {0}
      BY Constants
    <2>1. /\ p < k => y <= mid /\ x < mid
          /\ p >= k => x >= mid
          /\ x \in Nat /\ y = x + PageSize
      BY <1>1, <2>0, Multiples
    <2>2. /\ p \in PagesOf(from, to - from) <=> x < from + (to - from) /\ y > from
          /\ p \in PagesOf(from, mid - from) <=> x < from + (mid - from) /\ y > from
          /\ p \in PagesOf(mid, to - mid) <=> x < mid + (to - mid) /\ y > mid
      BY DEF PagesOf
    <2> HIDE DEF x, y
    <2> QED
      BY <1>1, <2>0, <2>1, <2>2
  <1>3. /\ PagesOf(from, to - from) \subseteq 0 .. Pages - 1
        /\ PagesOf(from, mid - from) \subseteq 0 .. Pages - 1
        /\ PagesOf(mid, to - mid) \subseteq 0 .. Pages - 1
    BY DEF PagesOf
  <1> QED
    BY <1>2, <1>3

(* A stretch that fits into memory has a page.                             *)
LEMMA SomePage ==
  ASSUME NEW from \in Nat, NEW size \in Nat \ {0}, Fits(from, size)
  PROVE  PagesOf(from, size) # {}
  <1> DEFINE p == from \div PageSize
             r == from % PageSize
  <1>1. p \in Nat /\ r \in 0 .. (PageSize - 1) /\ from = PageSize * p + r
    BY Constants, DivMod
  <1> HIDE DEF p, r
  <1>2. p * PageSize <= from /\ (p + 1) * PageSize > from /\ p * PageSize \in Nat
    BY <1>1, Constants
  <1>3. from + size <= Pages * PageSize
    BY DEF Fits
  <1>4. p < Pages
    <2> SUFFICES ASSUME p >= Pages PROVE FALSE
      BY <1>1, Constants
    <2>1. p * PageSize >= Pages * PageSize /\ Pages * PageSize \in Nat
      BY <1>1, Constants, Multiples
    <2> QED
      BY <1>2, <1>3, <2>1
  <1>5. p \in 0 .. Pages - 1 /\ p * PageSize < from + size
    BY <1>1, <1>2, <1>4, Constants
  <1> QED
    BY <1>2, <1>5 DEF PagesOf

-----------------------------------------------------------------------------
(* Pages given away are still pages.                                       *)
LEMMA OwnedType ==
  ASSUME UnixTypeOK, NEW ps, NEW o \in Blocks \union Closures \union {Nobody}
  PROVE  Owned(ps, o) \in [0 .. Pages - 1 -> Blocks \union Closures \union {Nobody}]
  BY DEF Owned, UnixTypeOK

(* A mapping begins with one of the attempts of custom_mmap.               *)
LEMMA LoadType ==
  ASSUME UnixTypeOK, NEW t \in Threads, NEW b \in Blocks \union Closures, LoadShouldTryOption(t, b)
  PROVE  \E s \in Making :
           sys' = [sys EXCEPT ![t] = s] /\ s.at \in Trying /\ s.block = b
  <1> DEFINE a == CASE MayBe("1GB", b) -> "1GB" [] MayBe("2MB", b) -> "2MB" [] OTHER -> "plain"
  <1>1. a \in Trying
    BY DEF Trying
  <1>2. sys' = [sys EXCEPT ![t] = [at |-> a, block |-> b, base |-> 0]]
    BY DEF LoadShouldTryOption
  <1> HIDE DEF a
  <1>3. [at |-> a, block |-> b, base |-> 0] \in Making
    BY <1>1 DEF Making
  <1> QED
    BY <1>1, <1>2, <1>3

(* The record of a mapping that goes on.                                   *)
LEMMA GoesOn ==
  ASSUME UnixTypeOK, NEW t \in Threads, sys[t] # NoCall,
         NEW at \in Trying \union {"commit", "head", "tail", "create"},
         sys' = [sys EXCEPT ![t].at = at]
  PROVE  \E s \in Making :
           sys' = [sys EXCEPT ![t] = s] /\ s = [at |-> at, block |-> sys[t].block, base |-> sys[t].base]
  <1>1. sys[t] \in [at : Trying \union {"commit", "head", "tail", "create"}, block : Blocks \union Closures, base : Nat]
    BY DEF UnixTypeOK, Making
  <1>2. [sys[t] EXCEPT !.at = at] = [at |-> at, block |-> sys[t].block, base |-> sys[t].base]
    BY <1>1
  <1>3. sys' = [sys EXCEPT ![t] = [sys[t] EXCEPT !.at = at]]
    BY DEF UnixTypeOK
  <1>4. [at |-> at, block |-> sys[t].block, base |-> sys[t].base] \in Making
    BY <1>1 DEF Making
  <1> QED
    BY <1>2, <1>3, <1>4

(* Every step keeps the types.                                             *)
LEMMA UnixTypeStep ==
  ASSUME IInv, UnixTypeOK, MakingApart, [UnixNext]_allVars
  PROVE  UnixTypeOK'
  <1>0. TypeOK
    BY DEF IInv
  <1>1. ASSUME UNCHANGED <<osVars, keyVars>> PROVE UnixTypeOK'
    BY <1>1 DEF UnixTypeOK, osVars, keyVars
  <1>2. ASSUME NEW t \in Threads, NEW b \in Blocks, Free(t, b) PROVE UnixTypeOK'
    BY <1>2, OwnedType DEF Free, UnixTypeOK, keyVars
  <1>3. ASSUME NEW t \in Threads, BeginMap(t) PROVE UnixTypeOK'
    <2>1. call[t].block \in Blocks
      BY <1>0, <1>3, CallCases DEF BeginMap, None
    <2>2. LoadShouldTryOption(t, call[t].block) /\ UNCHANGED keyVars
      BY <1>3 DEF BeginMap
    <2>a. PICK s \in Making : sys' = [sys EXCEPT ![t] = s]
      BY <2>1, <2>2, LoadType
    <2>3. sys' \in [Threads -> Making \union {NoCall}] /\ UNCHANGED <<pages, addr, SHOULD_TRY_OPTION, uncommitted, strayed>>
      BY <2>2, <2>a DEF UnixTypeOK, LoadShouldTryOption
    <2> QED
      BY <2>2, <2>3 DEF UnixTypeOK, keyVars
  <1>4. ASSUME NEW t \in Threads, Mapped(t) PROVE UnixTypeOK'
    <2> DEFINE b == sys[t].block
    <2>1. sys[t] # NoCall /\ b \in Blocks \union Closures
      BY <1>4, MakingCases DEF Mapped, NoCall
    <2>2. PICK p \in DOMAIN pages :
            /\ pages' = Owned(PagesOf(p * PageSize, AllocSize(b)), b)
            /\ addr' = IF b \in Regions THEN addr ELSE [addr EXCEPT ![b] = p * PageSize]
            /\ \/ sys' = [sys EXCEPT ![t] = NoCall]
               \/ sys' = [sys EXCEPT ![t] = [at |-> IF b \in Regions THEN "commit" ELSE "create",
                                             block |-> b, base |-> p * PageSize]]
      BY <1>4 DEF Mapped
    <2>3. p * PageSize \in Nat
      BY <2>2, Constants DEF UnixTypeOK
    <2>4. [at |-> IF b \in Regions THEN "commit" ELSE "create", block |-> b, base |-> p * PageSize] \in Making
      BY <2>1, <2>3 DEF Making
    <2>5. sys' \in [Threads -> Making \union {NoCall}]
      BY <2>2, <2>4 DEF UnixTypeOK
    <2>6. addr' \in [Blocks \union Closures -> Nat]
      BY <2>1, <2>2, <2>3 DEF UnixTypeOK
    <2>7. pages' \in [0 .. Pages - 1 -> Blocks \union Closures \union {Nobody}]
      BY <2>1, <2>2, OwnedType
    <2> QED
      BY <1>4, <2>5, <2>6, <2>7 DEF UnixTypeOK, Mapped, keyVars
  <1>5. ASSUME NEW t \in Threads, HugeFails(t) PROVE UnixTypeOK'
    <2>1. sys[t] # NoCall
      BY <1>5 DEF HugeFails, NoCall
    <2>2. PICK at \in Trying : sys' = [sys EXCEPT ![t].at = at]
      BY <1>5 DEF HugeFails, Trying
    <2>a. PICK s \in Making : sys' = [sys EXCEPT ![t] = s]
      BY <2>1, <2>2, GoesOn
    <2>3. sys' \in [Threads -> Making \union {NoCall}]
      BY <2>a DEF UnixTypeOK
    <2> QED
      BY <1>5, <2>3 DEF UnixTypeOK, HugeFails, keyVars
  <1>6. ASSUME NEW t \in Threads, PlainFails(t) PROVE UnixTypeOK'
    BY <1>6 DEF UnixTypeOK, PlainFails, keyVars
  <1>c. ASSUME NEW t \in Threads, Commit(t) PROVE UnixTypeOK'
    <2>1. sys[t] # NoCall /\ sys' = [sys EXCEPT ![t].at = "head"] /\ sys[t].block \in Regions
      BY <1>c DEF Commit, NoCall, MakingApart, Trying
    <2>a. PICK s \in Making : sys' = [sys EXCEPT ![t] = s]
      BY <2>1, GoesOn
    <2>2. sys' \in [Threads -> Making \union {NoCall}]
      BY <2>a DEF UnixTypeOK
    <2>3. pages' \in [0 .. Pages - 1 -> Blocks \union Closures \union {Nobody}]
      BY <1>c, OwnedType DEF UnixTypeOK, Commit
    <2>4. uncommitted' \subseteq Regions
      BY <1>c, <2>1 DEF UnixTypeOK, Commit
    <2> QED
      BY <1>c, <2>2, <2>3, <2>4 DEF UnixTypeOK, Commit, keyVars
  <1>7. ASSUME NEW t \in Threads, FreeHead(t) PROVE UnixTypeOK'
    <2>1. sys[t] # NoCall /\ sys' = [sys EXCEPT ![t].at = "tail"]
      BY <1>7 DEF FreeHead, NoCall
    <2>a. PICK s \in Making : sys' = [sys EXCEPT ![t] = s]
      BY <2>1, GoesOn
    <2>2. sys' \in [Threads -> Making \union {NoCall}]
      BY <2>a DEF UnixTypeOK
    <2>3. pages' \in [0 .. Pages - 1 -> Blocks \union Closures \union {Nobody}]
      BY <1>7, OwnedType DEF UnixTypeOK, FreeHead
    <2> QED
      BY <1>7, <2>2, <2>3 DEF UnixTypeOK, FreeHead, keyVars
  <1>8. ASSUME NEW t \in Threads, FreeTail(t) PROVE UnixTypeOK'
    <2>1. sys[t].block \in Regions /\ sys[t].base \in Nat
      BY <1>8, MakingCases DEF FreeTail, NoCall, MakingApart, Trying
    <2>2. Aligned(sys[t].base, Size[sys[t].block]) \in Nat
      BY <2>1, AlignedType, Constants
    <2>3. addr' \in [Blocks \union Closures -> Nat]
      BY <1>8, <2>1, <2>2, Constants DEF UnixTypeOK, FreeTail
    <2>4. pages' \in [0 .. Pages - 1 -> Blocks \union Closures \union {Nobody}]
      BY <1>8, OwnedType DEF UnixTypeOK, FreeTail
    <2> QED
      BY <1>8, <2>3, <2>4 DEF UnixTypeOK, FreeTail, keyVars
  <1>9. ASSUME NEW t \in Threads, Register(t) \/ CreateKey(t) \/ StoreOnce(t) \/ Spin(t) \/ SetSpecific(t) \/ Deregister(t)
        PROVE  UnixTypeOK'
    <2>1. life' \in [Threads -> {"new", "create", "store", "spin", "set", "registered", "exited", "panicked"}]
      BY <1>9 DEF UnixTypeOK, Register, CreateKey, StoreOnce, Spin, SetSpecific, Deregister
    <2>2. keys' \in Nat /\ ONCE' \in {"FIRST_CALL", "INITIALIZING", "INITIALIZED"}
      BY <1>9 DEF UnixTypeOK, Register, CreateKey, StoreOnce, Spin, SetSpecific, Deregister
    <2>a. \/ specific' = specific
          \/ specific' = [specific EXCEPT ![t] = TRUE]
          \/ specific' = [specific EXCEPT ![t] = FALSE]
      BY <1>9 DEF Register, CreateKey, StoreOnce, Spin, SetSpecific, Deregister
    <2>b. specific' \in [Threads -> BOOLEAN]
      BY <2>a DEF UnixTypeOK
    <2>3. UNCHANGED <<osVars, running>>
      BY <1>9 DEF Register, CreateKey, StoreOnce, Spin, SetSpecific, Deregister
    <2> QED
      BY <2>1, <2>2, <2>3, <2>b DEF UnixTypeOK, osVars
  <1>10. ASSUME NEW t \in Threads, Exit(t) PROVE UnixTypeOK'
    <2>1. sys' \in [Threads -> Making \union {NoCall}] /\ UNCHANGED <<pages, addr, SHOULD_TRY_OPTION, uncommitted, strayed>>
      BY <1>10, LoadType DEF Exit, UnixTypeOK, osVars, LoadShouldTryOption
    <2> QED
      BY <1>10, <2>1 DEF Exit, UnixTypeOK
  <1>11. ASSUME NEW t \in Threads, PthreadCreate(t) PROVE UnixTypeOK'
    <2>1. sys[t].block \in Closures
      BY <1>11 DEF PthreadCreate, NoCall, MakingApart, Trying
    <2>2. pages' \in [0 .. Pages - 1 -> Blocks \union Closures \union {Nobody}]
      BY <1>11, OwnedType DEF UnixTypeOK, PthreadCreate
    <2> QED
      BY <1>11, <2>1, <2>2 DEF PthreadCreate, UnixTypeOK
  <1>12. ASSUME NEW c \in Closures, Start(c) PROVE UnixTypeOK'
    <2>1. pages' \in [0 .. Pages - 1 -> Blocks \union Closures \union {Nobody}]
      BY <1>12, OwnedType DEF Start
    <2> QED
      BY <1>12, <2>1 DEF Start, UnixTypeOK
  <1>13. UNCHANGED allVars => UNCHANGED <<osVars, keyVars>>
    BY DEF allVars
  <1> QED
    BY <1>1, <1>2, <1>3, <1>4, <1>5, <1>6, <1>7, <1>8, <1>9, <1>10, <1>11, <1>12, <1>13, <1>c DEF UnixNext

-----------------------------------------------------------------------------
(* A mapping under way stays that of its thread's call, or of a closure.   *)
LEMMA MakingStep ==
  ASSUME IInv, UnixTypeOK, MakingApart, [UnixNext]_allVars
  PROVE  MakingApart'
  <1>0. TypeOK /\ Apart
    BY DEF IInv
  <1>a. \A u \in Threads : call[u].at = "map" => call[u].block \in Blocks /\ call[u] # None
    BY <1>0, CallCases DEF None
  (* The mappings stay, and so do the calls that they serve.               *)
  <1>1. ASSUME sys' = sys, running' \subseteq running,
               \A u \in Threads : sys[u] # NoCall => call'[u] = call[u] /\ life'[u] = life[u]
        PROVE  MakingApart'
    BY <1>1 DEF MakingApart
  (* A mapping ends.                                                       *)
  <1>2. ASSUME NEW t \in Threads, sys' = [sys EXCEPT ![t] = NoCall],
               \A u \in Threads \ {t} : call'[u] = call[u] /\ life'[u] = life[u],
               running' \subseteq running \union {sys[t].block}, sys[t] # NoCall
        PROVE  MakingApart'
    <2>1. \A u \in Threads : sys'[u] = IF u = t THEN NoCall ELSE sys[u]
      BY <1>2 DEF UnixTypeOK
    <2> QED
      BY <1>2, <2>1 DEF MakingApart
  (* A mapping begins, or goes on.                                         *)
  <1>3. ASSUME NEW t \in Threads,
               \A u \in Threads \ {t} : sys'[u] = sys[u] /\ life'[u] = life[u],
               UNCHANGED <<call, running>>,
               \A u \in Threads \ {t} : sys[u] # NoCall => sys[u].block # sys'[t].block,
               \/ sys'[t].block \in Closures \ running /\ life'[t] = "exited" /\ sys'[t].at \in Trying \union {"create"}
               \/ call[t].at = "map" /\ sys'[t].block = call[t].block /\ sys'[t].at \in Trying
               \/ /\ call[t].at = "map" /\ sys'[t].block = call[t].block /\ sys'[t].at \in {"commit", "head", "tail"}
                  /\ sys'[t].block \in Regions /\ sys'[t].base % PageSize = 0
                  /\ Fits(sys'[t].base, AllocSize(sys'[t].block))
        PROVE  MakingApart'
    BY <1>3 DEF MakingApart
  <1>4. CASE UNCHANGED allVars
    BY <1>1, <1>4 DEF allVars, vars, osVars, keyVars
  <1>5. ASSUME NEW l \in Limits, SetAllocatorLimit(l), UNCHANGED <<osVars, keyVars>> PROVE MakingApart'
    BY <1>1, <1>5 DEF SetAllocatorLimit, osVars, keyVars
  <1>6. ASSUME NEW t \in Threads, NEW b \in Blocks, MayBegin(t), LoadAllocated(t, b) \/ AllocateAnyWay(t, b),
               UNCHANGED <<osVars, keyVars>>
        PROVE  MakingApart'
    <2>1. \A u \in Threads \ {t} : call'[u] = call[u]
      BY <1>0, <1>6 DEF LoadAllocated, AllocateAnyWay, TypeOK
    <2> QED
      BY <1>1, <1>6, <2>1 DEF MayBegin, osVars, keyVars
  <1>7. ASSUME NEW t \in Threads, Refuse(t) \/ CompareExchange(t) \/ MarkDeallocated(t), UNCHANGED <<osVars, keyVars>>
        PROVE  MakingApart'
    <2>1. \A u \in Threads \ {t} : call'[u] = call[u]
      BY <1>0, <1>7 DEF Refuse, CompareExchange, MarkDeallocated, TypeOK
    <2>2. call[t].at # "map"
      BY <1>7 DEF Refuse, CompareExchange, MarkDeallocated
    <2>3. UNCHANGED <<sys, life, running>>
      BY <1>7 DEF osVars, keyVars
    <2> QED
      BY <2>1, <2>2, <2>3 DEF MakingApart
  <1>8. ASSUME NEW t \in Threads, NEW b \in Blocks, MayBegin(t), Free(t, b) PROVE MakingApart'
    <2>1. \A u \in Threads \ {t} : call'[u] = call[u]
      BY <1>0, <1>8 DEF Free, Unmap, TypeOK
    <2> QED
      BY <1>1, <1>8, <2>1 DEF MayBegin, Free, keyVars
  <1>9. ASSUME NEW t \in Threads, BeginMap(t) PROVE MakingApart'
    <2>1. /\ LoadShouldTryOption(t, call[t].block) /\ UNCHANGED <<call, running, life>>
          /\ call[t].at = "map" /\ call[t].block \in Blocks
      BY <1>9, <1>a DEF BeginMap, vars, keyVars
    <2>2. PICK s \in Making : sys' = [sys EXCEPT ![t] = s] /\ s.at \in Trying /\ s.block = call[t].block
      BY <2>1, LoadType
    <2>3. \A u \in Threads \ {t} : sys[u] # NoCall => sys[u].block # call[t].block
      BY <1>0, <1>a, <2>1, Constants DEF MakingApart, Apart
    <2>4. sys'[t] = s /\ \A u \in Threads \ {t} : sys'[u] = sys[u]
      BY <2>2 DEF UnixTypeOK
    <2> QED
      BY <1>3, <2>1, <2>2, <2>3, <2>4
  <1>10. ASSUME NEW t \in Threads, Mapped(t) PROVE MakingApart'
    <2> DEFINE b == sys[t].block
    <2>1. sys[t] # NoCall /\ sys[t].at \in Trying /\ UNCHANGED keyVars
      BY <1>10 DEF Mapped, NoCall, Trying
    <2>2. \A u \in Threads \ {t} : sys[u] # NoCall => sys[u].block # b
      BY <2>1 DEF MakingApart
    <2>3. CASE b \in Blocks \ Regions
      <3>1. MapOk(t) /\ sys' = [sys EXCEPT ![t] = NoCall]
        BY <1>10, <2>3 DEF Mapped
      <3>2. \A u \in Threads \ {t} : call'[u] = call[u]
        BY <1>0, <3>1 DEF MapOk, TypeOK
      <3> QED
        BY <1>2, <2>1, <3>1, <3>2 DEF keyVars
    <2>4. CASE b \notin Blocks \ Regions
      <3>1. PICK p \in DOMAIN pages :
              /\ Fits(p * PageSize, AllocSize(b))
              /\ sys' = [sys EXCEPT ![t] = [at |-> IF b \in Regions THEN "commit" ELSE "create",
                                            block |-> b, base |-> p * PageSize]]
              /\ UNCHANGED vars
        BY <1>10, <2>4 DEF Mapped
      <3>2. (p * PageSize) % PageSize = 0
        BY Constants, MultipleIs DEF UnixTypeOK
      <3> DEFINE s == [at |-> IF b \in Regions THEN "commit" ELSE "create", block |-> b, base |-> p * PageSize]
      <3>3. s.at = (IF b \in Regions THEN "commit" ELSE "create") /\ s.block = b /\ s.base = p * PageSize
        OBVIOUS
      <3>4. /\ sys'[t] = s /\ \A u \in Threads \ {t} : sys'[u] = sys[u]
            /\ UNCHANGED <<call, running, life>>
        BY <2>1, <3>1 DEF vars, keyVars, UnixTypeOK
      <3> HIDE DEF s
      <3>5. CASE b \in Regions
        <4>1. call[t].at = "map" /\ b = call[t].block
          BY <2>1, <3>5, Constants DEF MakingApart
        <4> QED
          BY <1>3, <2>2, <3>1, <3>2, <3>3, <3>4, <3>5, <4>1
      <3>6. CASE b \notin Regions
        <4>1. b \in Closures \ running /\ life[t] = "exited"
          BY <1>a, <2>1, <2>4, <3>6 DEF MakingApart
        <4> QED
          BY <1>3, <2>2, <3>3, <3>4, <3>6, <4>1
      <3> QED
        BY <3>5, <3>6
    <2> QED
      BY <2>3, <2>4
  <1>11. ASSUME NEW t \in Threads, HugeFails(t) PROVE MakingApart'
    <2>1. sys[t] # NoCall /\ sys[t].at \in Trying /\ UNCHANGED <<call, running, life>>
      BY <1>11 DEF HugeFails, NoCall, Trying, keyVars, vars
    <2>2. PICK at \in Trying : sys' = [sys EXCEPT ![t].at = at]
      BY <1>11 DEF HugeFails, Trying
    <2>3. PICK s \in Making :
            sys' = [sys EXCEPT ![t] = s] /\ s = [at |-> at, block |-> sys[t].block, base |-> sys[t].base]
      BY <2>1, <2>2, GoesOn
    <2>4. \A u \in Threads \ {t} : sys[u] # NoCall => sys[u].block # s.block
      BY <2>1, <2>3 DEF MakingApart
    <2>5. \/ s.block \in Closures \ running /\ life'[t] = "exited" /\ s.at \in Trying \union {"create"}
          \/ call[t].at = "map" /\ s.block = call[t].block /\ s.at \in Trying
      BY <2>1, <2>2, <2>3 DEF MakingApart, Trying
    <2>6. sys'[t] = s /\ \A u \in Threads \ {t} : sys'[u] = sys[u]
      BY <2>3 DEF UnixTypeOK
    <2> QED
      BY <1>3, <2>1, <2>4, <2>5, <2>6
  <1>12. ASSUME NEW t \in Threads, Commit(t) \/ FreeHead(t) PROVE MakingApart'
    <2>1. /\ sys[t] # NoCall /\ sys[t].at \in {"commit", "head"} /\ UNCHANGED <<call, running, life>>
      BY <1>12 DEF Commit, FreeHead, NoCall, keyVars, vars
    <2>2. PICK at \in {"head", "tail"} : sys' = [sys EXCEPT ![t].at = at]
      BY <1>12 DEF Commit, FreeHead
    <2>3. PICK s \in Making :
            sys' = [sys EXCEPT ![t] = s] /\ s = [at |-> at, block |-> sys[t].block, base |-> sys[t].base]
      BY <2>1, <2>2, GoesOn
    <2>4. \A u \in Threads \ {t} : sys[u] # NoCall => sys[u].block # s.block
      BY <2>1, <2>3 DEF MakingApart
    <2>5. /\ call[t].at = "map" /\ s.block = call[t].block /\ s.at \in {"commit", "head", "tail"}
          /\ s.block \in Regions /\ s.base % PageSize = 0
          /\ Fits(s.base, AllocSize(s.block))
      BY <2>1, <2>2, <2>3 DEF MakingApart, Trying
    <2>6. sys'[t] = s /\ \A u \in Threads \ {t} : sys'[u] = sys[u]
      BY <2>3 DEF UnixTypeOK
    <2> QED
      BY <1>3, <2>1, <2>4, <2>5, <2>6
  <1>13. ASSUME NEW t \in Threads, PlainFails(t) \/ FreeTail(t) PROVE MakingApart'
    <2>1. \A u \in Threads \ {t} : call'[u] = call[u]
      BY <1>0, <1>13 DEF PlainFails, FreeTail, MapOk, MapFails, TypeOK
    <2>2. sys[t] # NoCall /\ sys' = [sys EXCEPT ![t] = NoCall] /\ UNCHANGED <<running, life>>
      BY <1>13 DEF PlainFails, FreeTail, NoCall, keyVars
    <2> QED
      BY <1>2, <2>1, <2>2
  <1>14. ASSUME NEW t \in Threads,
                Register(t) \/ CreateKey(t) \/ StoreOnce(t) \/ Spin(t) \/ SetSpecific(t) \/ Deregister(t)
         PROVE  MakingApart'
    <2>1. \A u \in Threads \ {t} : life'[u] = life[u]
      BY <1>14 DEF UnixTypeOK, Register, CreateKey, StoreOnce, Spin, SetSpecific, Deregister
    <2>2. sys[t] = NoCall /\ UNCHANGED <<call, sys, running>>
      BY <1>14 DEF Register, CreateKey, StoreOnce, Spin, SetSpecific, Deregister, At, vars, osVars
    <2> QED
      BY <1>1, <2>1, <2>2
  <1>15. ASSUME NEW t \in Threads, Exit(t) PROVE MakingApart'
    <2>1. /\ sys[t] = NoCall /\ UNCHANGED <<call, running>> /\ life'[t] = "exited"
          /\ \A u \in Threads \ {t} : life'[u] = life[u]
      BY <1>15 DEF Exit, At, vars, UnixTypeOK
    <2>2. CASE UNCHANGED osVars
      BY <1>1, <2>1, <2>2 DEF osVars
    <2>3. ASSUME NEW c \in Closures \ (running \union InTheMaking), LoadShouldTryOption(t, c) PROVE MakingApart'
      <3>1. PICK s \in Making : sys' = [sys EXCEPT ![t] = s] /\ s.at \in Trying /\ s.block = c
        BY <2>3, LoadType
      <3>2. \A u \in Threads \ {t} : sys[u] # NoCall => sys[u].block # c
        BY <2>3 DEF InTheMaking
      <3>3. sys'[t] = s /\ \A u \in Threads \ {t} : sys'[u] = sys[u]
        BY <3>1 DEF UnixTypeOK
      <3> QED
        BY <1>3, <2>1, <2>3, <3>1, <3>2, <3>3
    <2> QED
      BY <1>15, <2>2, <2>3 DEF Exit
  <1>16. ASSUME NEW t \in Threads, PthreadCreate(t) PROVE MakingApart'
    <2>1. sys[t] # NoCall /\ sys' = [sys EXCEPT ![t] = NoCall] /\ call' = call
      BY <1>16 DEF PthreadCreate, NoCall, vars
    <2>2. \A u \in Threads \ {t} : life'[u] = life[u]
      BY <1>16 DEF PthreadCreate, UnixTypeOK
    <2>3. running' \subseteq running \union {sys[t].block}
      BY <1>16 DEF PthreadCreate
    <2> QED
      BY <1>2, <2>1, <2>2, <2>3
  <1>17. ASSUME NEW c \in Closures, Start(c) PROVE MakingApart'
    BY <1>1, <1>17 DEF Start, vars
  <1> QED
    BY <1>4, <1>5, <1>6, <1>7, <1>8, <1>9, <1>10, <1>11, <1>12, <1>13, <1>14, <1>15, <1>16, <1>17 DEF UnixNext

-----------------------------------------------------------------------------
(* A region is known by its commit's failure only as long as it is being   *)
(* trimmed, and then until it is unmapped.                                 *)
LEMMA FailedStep ==
  ASSUME IInv, UnixTypeOK, MakingApart, FailedCommits, [UnixNext]_allVars
  PROVE  FailedCommits'
  <1>0. TypeOK /\ DOMAIN sys = Threads
    BY DEF IInv, UnixTypeOK
  (* Neither what is mapped nor what is trimmed gets less.                 *)
  <1>1. ASSUME uncommitted' = uncommitted, mapped \subseteq mapped',
               \A u \in Threads : sys[u].at \in {"head", "tail"} => sys'[u] = sys[u]
        PROVE  FailedCommits'
    BY <1>1 DEF FailedCommits
  <1>2. ASSUME NEW t \in Threads, NEW b \in Blocks, Free(t, b) PROVE FailedCommits'
    <2>1. uncommitted' = uncommitted \ {b} /\ mapped' = mapped \ {b} /\ sys' = sys
      BY <1>2 DEF Free, Unmap
    <2> QED
      BY <2>1 DEF FailedCommits
  <1>3. ASSUME NEW t \in Threads, NEW s, sys' = [sys EXCEPT ![t] = s], sys[t].at \notin {"head", "tail"},
               uncommitted' = uncommitted, mapped \subseteq mapped'
        PROVE  FailedCommits'
    <2>1. \A u \in Threads : u # t => sys'[u] = sys[u]
      BY <1>0, <1>3
    <2> QED
      BY <1>1, <1>3, <2>1
  <1>4. ASSUME NEW t \in Threads, NEW b, LoadShouldTryOption(t, b), sys[t] = NoCall, mapped' = mapped
        PROVE  FailedCommits'
    <2>1. sys[t].at = "idle" /\ uncommitted' = uncommitted
      BY <1>4 DEF LoadShouldTryOption, NoCall
    <2> QED
      BY <1>3, <1>4, <2>1 DEF LoadShouldTryOption
  <1>5. ASSUME NEW t \in Threads, BeginMap(t) PROVE FailedCommits'
    BY <1>4, <1>5 DEF BeginMap, vars
  <1>6. ASSUME NEW t \in Threads, Exit(t) PROVE FailedCommits'
    <2>1. sys[t] = NoCall /\ mapped' = mapped
      BY <1>6 DEF Exit, At, vars
    <2> QED
      BY <1>1, <1>4, <1>6, <2>1 DEF Exit, osVars
  <1>7. ASSUME NEW t \in Threads, Mapped(t) PROVE FailedCommits'
    <2>1. mapped \subseteq mapped' /\ uncommitted' = uncommitted /\ sys[t].at \notin {"head", "tail"}
      BY <1>7 DEF Mapped, MapOk, vars
    <2>2. \E s : sys' = [sys EXCEPT ![t] = s]
      BY <1>7 DEF Mapped
    <2> QED
      BY <1>3, <2>1, <2>2
  <1>8. ASSUME NEW t \in Threads, HugeFails(t) PROVE FailedCommits'
    <2>1. mapped' = mapped /\ uncommitted' = uncommitted /\ sys[t].at \notin {"head", "tail"}
      BY <1>8 DEF HugeFails, vars
    <2>2. \A u \in Threads : u # t => sys'[u] = sys[u]
      BY <1>0, <1>8 DEF HugeFails
    <2> QED
      BY <1>1, <2>1, <2>2
  <1>9. ASSUME NEW t \in Threads, PlainFails(t) \/ PthreadCreate(t) PROVE FailedCommits'
    <2>1. mapped' = mapped /\ uncommitted' = uncommitted /\ sys[t].at \notin {"head", "tail"}
      BY <1>9 DEF PlainFails, PthreadCreate, MapFails, vars
    <2>2. sys' = [sys EXCEPT ![t] = NoCall]
      BY <1>9 DEF PlainFails, PthreadCreate
    <2> QED
      BY <1>3, <2>1, <2>2
  <1>10. ASSUME NEW t \in Threads, Commit(t) \/ FreeHead(t) PROVE FailedCommits'
    <2>1. /\ sys[t] # NoCall /\ mapped' = mapped
          /\ uncommitted' = uncommitted \/ uncommitted' = uncommitted \union {sys[t].block}
      BY <1>10 DEF Commit, FreeHead, NoCall, vars
    <2>2. PICK at \in {"head", "tail"} : sys' = [sys EXCEPT ![t].at = at]
      BY <1>10 DEF Commit, FreeHead
    <2>3. PICK s \in Making :
            sys' = [sys EXCEPT ![t] = s] /\ s = [at |-> at, block |-> sys[t].block, base |-> sys[t].base]
      BY <2>1, <2>2, GoesOn
    <2>4. /\ sys'[t] = s /\ s.at \in {"head", "tail"} /\ s.block = sys[t].block
          /\ \A u \in Threads : u # t => sys'[u] = sys[u]
      BY <1>0, <2>2, <2>3
    <2>5. ASSUME NEW b \in uncommitted'
          PROVE  b \in mapped' \/ \E u \in Threads : sys'[u].at \in {"head", "tail"} /\ sys'[u].block = b
      BY <2>1, <2>4, <2>5 DEF FailedCommits
    <2> QED
      BY <2>5 DEF FailedCommits
  <1>11. ASSUME NEW t \in Threads, FreeTail(t) PROVE FailedCommits'
    <2>1. /\ sys[t] # NoCall /\ sys[t].at = "tail" /\ uncommitted' = uncommitted
          /\ sys' = [sys EXCEPT ![t] = NoCall]
      BY <1>11 DEF FreeTail, NoCall
    <2>2. mapped' = mapped \union {sys[t].block}
      BY <1>11, <2>1 DEF FreeTail, MapOk, MakingApart, Trying
    <2>3. \A u \in Threads : u # t => sys'[u] = sys[u]
      BY <1>0, <2>1
    <2>5. ASSUME NEW b \in uncommitted'
          PROVE  b \in mapped' \/ \E u \in Threads : sys'[u].at \in {"head", "tail"} /\ sys'[u].block = b
      BY <2>1, <2>2, <2>3, <2>5 DEF FailedCommits
    <2> QED
      BY <2>5 DEF FailedCommits
  <1>12. ASSUME NEW c \in Closures, Start(c) PROVE FailedCommits'
    BY <1>1, <1>12 DEF Start, vars
  (* All other steps leave the memory alone.                               *)
  <1>13. ASSUME UNCHANGED <<osVars, mapped>> PROVE FailedCommits'
    BY <1>1, <1>13 DEF osVars
  <1>14. ASSUME NEW t \in Threads,
                Register(t) \/ CreateKey(t) \/ StoreOnce(t) \/ Spin(t) \/ SetSpecific(t) \/ Deregister(t)
         PROVE  UNCHANGED <<osVars, mapped>>
    BY <1>14 DEF Register, CreateKey, StoreOnce, Spin, SetSpecific, Deregister, vars
  <1>15. ASSUME NEW t \in Threads, Refuse(t) \/ CompareExchange(t) \/ MarkDeallocated(t) PROVE mapped' = mapped
    BY <1>15 DEF Refuse, CompareExchange, MarkDeallocated
  <1>16. ASSUME NEW t \in Threads, NEW b \in Blocks, LoadAllocated(t, b) \/ AllocateAnyWay(t, b) PROVE mapped' = mapped
    BY <1>16 DEF LoadAllocated, AllocateAnyWay
  <1>17. ASSUME NEW l \in Limits, SetAllocatorLimit(l) PROVE mapped' = mapped
    BY <1>17 DEF SetAllocatorLimit
  <1>18. UNCHANGED allVars => UNCHANGED <<osVars, mapped>>
    BY DEF allVars, vars
  <1> QED
    BY <1>2, <1>5, <1>6, <1>7, <1>8, <1>9, <1>10, <1>11, <1>12, <1>13, <1>14, <1>15, <1>16, <1>17, <1>18
    DEF UnixNext

(* Once munmap has strayed, it has.                                        *)
LEMMA StrayedStays ==
  ASSUME [UnixNext]_allVars, strayed
  PROVE  strayed'
  <1>1. ASSUME NEW t \in Threads, NEW b \in Blocks, Free(t, b) PROVE strayed'
    BY <1>1 DEF Free
  <1>2. ASSUME NEW t \in Threads,
               \/ BeginMap(t) \/ Mapped(t) \/ HugeFails(t) \/ PlainFails(t) \/ Commit(t) \/ FreeHead(t)
               \/ FreeTail(t) \/ Register(t) \/ CreateKey(t) \/ StoreOnce(t) \/ Spin(t) \/ SetSpecific(t)
               \/ Deregister(t) \/ Exit(t) \/ PthreadCreate(t)
        PROVE  strayed' = strayed
    BY <1>2 DEF BeginMap, Mapped, HugeFails, PlainFails, Commit, FreeHead, FreeTail, Register, CreateKey, StoreOnce,
                Spin, SetSpecific, Deregister, Exit, PthreadCreate, LoadShouldTryOption, osVars
  <1>3. ASSUME NEW c \in Closures, Start(c) PROVE strayed' = strayed
    BY <1>3 DEF Start
  <1>4. UNCHANGED osVars => strayed' = strayed
    BY DEF osVars
  <1>5. UNCHANGED allVars => UNCHANGED osVars
    BY DEF allVars
  <1> QED
    BY <1>1, <1>2, <1>3, <1>4, <1>5 DEF UnixNext

-----------------------------------------------------------------------------
(* The pages of x in a table of pages.                                     *)
Holding(table, x) == {p \in DOMAIN table : table[p] = x}

(* Free pages that are given to b are the gain of b and nobody's loss.     *)
LEMMA Gives ==
  ASSUME UnixTypeOK, NEW ps \in SUBSET (0 .. Pages - 1), NEW b \in Blocks \union Closures,
         \A q \in ps : pages[q] = Nobody, pages' = Owned(ps, b)
  PROVE  /\ DOMAIN pages' = DOMAIN pages
         /\ Holding(pages', b) = Holding(pages, b) \union ps
         /\ \A x \in Blocks \union Closures : x # b => Holding(pages', x) = Holding(pages, x)
  <1>1. /\ DOMAIN pages = 0 .. Pages - 1 /\ DOMAIN pages' = 0 .. Pages - 1
        /\ \A p \in 0 .. Pages - 1 : pages'[p] = IF p \in ps THEN b ELSE pages[p]
    BY DEF Owned, UnixTypeOK
  <1> QED
    BY <1>1, Constants DEF Holding

(* Pages of b that are freed are the loss of b, and of nobody else.        *)
LEMMA Frees ==
  ASSUME UnixTypeOK, NEW b \in Blocks \union Closures,
         NEW ps \in SUBSET Holding(pages, b), pages' = Owned(ps, Nobody)
  PROVE  /\ DOMAIN pages' = DOMAIN pages
         /\ Holding(pages', b) = Holding(pages, b) \ ps
         /\ \A x \in Blocks \union Closures : x # b => Holding(pages', x) = Holding(pages, x)
  <1>1. /\ DOMAIN pages = 0 .. Pages - 1 /\ DOMAIN pages' = 0 .. Pages - 1
        /\ \A p \in 0 .. Pages - 1 : pages'[p] = IF p \in ps THEN Nobody ELSE pages[p]
    BY DEF Owned, UnixTypeOK
  <1> QED
    BY <1>1, Constants DEF Holding

(* Unmapping a range where b or nobody has the pages is a loss of b only.  *)
LEMMA FreesRange ==
  ASSUME UnixTypeOK, NEW b \in Blocks \union Closures, NEW ps,
         \A p \in ps : pages[p] \in {b, Nobody}, pages' = Owned(ps, Nobody)
  PROVE  /\ DOMAIN pages' = DOMAIN pages
         /\ Holding(pages', b) = Holding(pages, b) \ ps
         /\ \A x \in Blocks \union Closures : x # b => Holding(pages', x) = Holding(pages, x)
  <1>1. /\ DOMAIN pages = 0 .. Pages - 1 /\ DOMAIN pages' = 0 .. Pages - 1
        /\ \A p \in 0 .. Pages - 1 : pages'[p] = IF p \in ps THEN Nobody ELSE pages[p]
    BY DEF Owned, UnixTypeOK
  <1> QED
    BY <1>1, Constants DEF Holding

(* What a mapping may have lost when the commits of U have failed.         *)
Lost(U, s) == IF s.block \in U THEN PagesOf(Aligned(s.base, Size[s.block]), Size[s.block]) ELSE {}

(* A step that concerns one block b leaves the rest alone ...              *)
OthersKept(b) ==
  /\ DOMAIN pages' = DOMAIN pages
  /\ mapped' \subseteq Blocks
  /\ \A x \in Blocks \union Closures : x # b => Holding(pages', x) = Holding(pages, x)
  /\ \A x \in Blocks \union Closures : x # b => addr'[x] = addr[x]
  /\ \A x \in Blocks \union Closures : x # b => (x \in mapped' <=> x \in mapped)
  /\ \A x \in Blocks \union Closures : x # b => (x \in running' <=> x \in running)
  /\ \A x \in Blocks \union Closures : x # b => (x \in uncommitted' <=> x \in uncommitted)
  /\ \A u \in Threads :
       sys'[u] # sys[u] => /\ sys[u] = NoCall \/ sys[u].block = b
                           /\ sys'[u] = NoCall \/ sys'[u].block = b

(* ... and has to see to b.                                                *)
BlockExact(b) ==
  /\ b \in mapped' /\ b \notin uncommitted' => Holding(pages', b) # {}
  /\ b \in mapped' /\ b \in Regions => addr'[b] % Size[b] = 0
  /\ b \in mapped' \union running' =>
       /\ Holding(pages', b) \subseteq PagesOf(addr'[b], Length(b))
       /\ b \notin uncommitted' => Holding(pages', b) = PagesOf(addr'[b], Length(b))
  /\ \A u \in Threads : sys'[u] # NoCall /\ sys'[u].block = b =>
       /\ Holding(pages', b) \subseteq MadeOf(sys'[u])
       /\ MadeOf(sys'[u]) \ Holding(pages', b) \subseteq Lost(uncommitted', sys'[u])
       /\ sys'[u].at = "create" => addr'[b] = sys'[u].base
  /\ Holding(pages', b) # {} =>
       \/ b \in mapped' \union running'
       \/ \E u \in Threads : sys'[u] # NoCall /\ sys'[u].block = b

(* A step that does both keeps the pages exact.                            *)
LEMMA OneBlock ==
  ASSUME TypeOK, UnixTypeOK, UnixTypeOK', PagesExact, NEW b \in Blocks \union Closures,
         OthersKept(b), BlockExact(b)
  PROVE  PagesExact'
  <1> USE DEF OthersKept, BlockExact
  <1>1. /\ \A t \in Threads : sys[t] # NoCall =>
             /\ Holding(pages, sys[t].block) \subseteq MadeOf(sys[t])
             /\ MadeOf(sys[t]) \ Holding(pages, sys[t].block) \subseteq Lost(uncommitted, sys[t])
             /\ sys[t].at = "create" => addr[sys[t].block] = sys[t].base
             /\ sys[t].block \in Blocks \union Closures
        /\ \A x \in mapped \union running :
             /\ Holding(pages, x) \subseteq PagesOf(addr[x], Length(x))
             /\ x \notin uncommitted => Holding(pages, x) = PagesOf(addr[x], Length(x))
        /\ \A x \in mapped \ uncommitted : Holding(pages, x) # {}
        /\ \A x \in mapped \intersect Regions : addr[x] % Size[x] = 0
        /\ \A p \in DOMAIN pages :
             pages[p] \in {Nobody} \union mapped \union running
               \/ \E u \in Threads : sys[u] # NoCall /\ sys[u].block = pages[p]
        /\ mapped \subseteq Blocks /\ running \subseteq Closures /\ running' \subseteq Closures
    BY MakingCases DEF PagesExact, Holding, Has, LostOf, Lost, InTheMaking, TypeOK, UnixTypeOK
  <1>2. ASSUME NEW t \in Threads, sys'[t] # NoCall
        PROVE  /\ Holding(pages', sys'[t].block) \subseteq MadeOf(sys'[t])
               /\ MadeOf(sys'[t]) \ Holding(pages', sys'[t].block) \subseteq Lost(uncommitted', sys'[t])
               /\ sys'[t].at = "create" => addr'[sys'[t].block] = sys'[t].base
    <2>1. CASE sys'[t].block = b
      BY <1>2, <2>1
    <2>2. CASE sys'[t].block # b
      <3>1. sys'[t] = sys[t] /\ sys[t].block \in (Blocks \union Closures) \ {b}
        BY <1>1, <1>2, <2>2
      <3>2. Lost(uncommitted', sys'[t]) = Lost(uncommitted, sys[t])
        BY <3>1 DEF Lost
      <3> QED
        BY <1>1, <1>2, <3>1, <3>2
    <2> QED
      BY <2>1, <2>2
  <1>3. ASSUME NEW x \in mapped' \union running'
        PROVE  /\ Holding(pages', x) \subseteq PagesOf(addr'[x], Length(x))
               /\ x \notin uncommitted' => Holding(pages', x) = PagesOf(addr'[x], Length(x))
    BY <1>1, <1>3
  <1>4. ASSUME NEW x \in mapped' \ uncommitted' PROVE Holding(pages', x) # {}
    BY <1>1, <1>4
  <1>5. ASSUME NEW x \in mapped' \intersect Regions PROVE addr'[x] % Size[x] = 0
    BY <1>1, <1>5
  <1>6. ASSUME NEW p \in DOMAIN pages'
        PROVE  pages'[p] \in {Nobody} \union mapped' \union running' \union InTheMaking'
    <2>1. pages'[p] \in Blocks \union Closures \union {Nobody}
      BY <1>6 DEF UnixTypeOK
    <2>2. CASE pages'[p] = b
      <3>1. Holding(pages', b) # {}
        BY <1>6, <2>2 DEF Holding
      <3> QED
        BY <2>2, <3>1 DEF InTheMaking
    <2>3. CASE pages'[p] \in (Blocks \union Closures) \ {b}
      <3>1. p \in Holding(pages', pages'[p])
        BY <1>6 DEF Holding
      <3>2. p \in Holding(pages, pages'[p])
        BY <2>3, <3>1
      <3>3. pages[p] = pages'[p] /\ p \in DOMAIN pages
        BY <3>2 DEF Holding
      <3> QED
        BY <1>1, <2>3, <3>3, Constants DEF InTheMaking
    <2> QED
      BY <2>1, <2>2, <2>3
  <1> QED
    BY <1>2, <1>3, <1>4, <1>5, <1>6 DEF PagesExact, Holding, Has, MadeOf, LostOf, Lost

(* The pages of a mapping, stage by stage.                                 *)
LEMMA MadeCases ==
  ASSUME NEW s
  PROVE  /\ s.at \in Trying => MadeOf(s) = {}
         /\ s.at \in {"commit", "head"} => MadeOf(s) = PagesOf(s.base, AllocSize(s.block))
         /\ s.at = "tail" =>
              MadeOf(s) = PagesOf(Aligned(s.base, Size[s.block]),
                                  (s.base + AllocSize(s.block)) - Aligned(s.base, Size[s.block]))
         /\ s.at = "create" => MadeOf(s) = PagesOf(s.base, ClosureSize)
  BY DEF MadeOf, Trying

(* What FreeHead frees, what it leaves, and what FreeTail frees of that.   *)
HeadPages(b, base) == PagesOf(base, Aligned(base, Size[b]) - base)
RestPages(b, base) == PagesOf(Aligned(base, Size[b]), (base + AllocSize(b)) - Aligned(base, Size[b]))
TailPages(b, base) ==
  PagesOf(Aligned(base, Size[b]) + Size[b], (base + AllocSize(b)) - (Aligned(base, Size[b]) + Size[b]))

(* Of the memory that was mapped for a region, FreeHead and FreeTail free  *)
(* what is the region's no more, and leave the region.                     *)
LEMMA Trimming ==
  ASSUME NEW b \in Regions, NEW base \in Nat, Fits(base, AllocSize(b))
  PROVE  /\ Aligned(base, Size[b]) \in Nat /\ base <= Aligned(base, Size[b])
         /\ Aligned(base, Size[b]) + Size[b] <= base + AllocSize(b)
         /\ Aligned(base, Size[b]) % Size[b] = 0
         /\ HeadPages(b, base) \subseteq PagesOf(base, AllocSize(b))
         /\ PagesOf(base, AllocSize(b)) \ HeadPages(b, base) = RestPages(b, base)
         /\ TailPages(b, base) \subseteq RestPages(b, base)
         /\ RestPages(b, base) \ TailPages(b, base) = PagesOf(Aligned(base, Size[b]), Size[b])
         /\ PagesOf(Aligned(base, Size[b]), Size[b]) # {}
  <1> DEFINE a == Aligned(base, Size[b])
             s == Size[b]
             e == a + s
             o == base + AllocSize(b)
  <1>1. /\ s \in Nat \ {0} /\ b \in Blocks /\ AllocSize(b) = (s - 1) + s
        /\ PageSize \in Nat \ {0} /\ s % PageSize = 0 /\ Pages \in Nat
    BY Constants, UnixAssumption DEF AllocSize
  <1>2. a \in Nat /\ base <= a /\ a <= base + s - 1 /\ a % s = 0
    BY <1>1, AlignedType
  <1>3. a % PageSize = 0
    BY AlignedPages
  <1>4. o <= Pages * PageSize /\ AllocSize(b) = o - base
    BY <1>1 DEF Fits
  <1>o. o = base + ((s - 1) + s)
    BY <1>1
  <1> HIDE DEF a, s, o
  <1>5. e \in Nat /\ o \in Nat /\ a <= e /\ e <= o /\ a <= o /\ base <= o /\ e - a = s
    BY <1>1, <1>2, <1>o
  <1>6. e % PageSize = 0
    <2>1. PICK k \in Nat : a = k * PageSize
      BY <1>1, <1>2, <1>3, MultipleOf
    <2>2. PICK j \in Nat : s = j * PageSize
      BY <1>1, MultipleOf
    <2>3. e = (k + j) * PageSize /\ k + j \in Nat
      BY <1>1, <2>1, <2>2
    <2> QED
      BY <1>1, <2>3, MultipleIs
  <1> HIDE DEF e
  <1>7. /\ PagesOf(base, o - base) = PagesOf(base, a - base) \union PagesOf(a, o - a)
        /\ PagesOf(base, a - base) \intersect PagesOf(a, o - a) = {}
    BY <1>2, <1>3, <1>5, Split
  <1>8. /\ PagesOf(a, o - a) = PagesOf(a, e - a) \union PagesOf(e, o - e)
        /\ PagesOf(a, e - a) \intersect PagesOf(e, o - e) = {}
    BY <1>2, <1>5, <1>6, Split
  <1>9. Fits(a, s)
    <2>1. a + s <= o
      BY <1>5 DEF e
    <2>2. Pages * PageSize \in Nat
      BY <1>1
    <2>3. a + s <= Pages * PageSize
      BY <1>1, <1>2, <1>4, <1>5, <2>1, <2>2
    <2> QED
      BY <2>3 DEF Fits
  <1>10. PagesOf(a, s) # {}
    BY <1>1, <1>2, <1>9, SomePage
  <1>11. /\ PagesOf(base, a - base) \subseteq PagesOf(base, AllocSize(b))
         /\ PagesOf(base, AllocSize(b)) \ PagesOf(base, a - base) = PagesOf(a, o - a)
         /\ PagesOf(e, o - e) \subseteq PagesOf(a, o - a)
         /\ PagesOf(a, o - a) \ PagesOf(e, o - e) = PagesOf(a, s)
    BY <1>4, <1>5, <1>7, <1>8
  <1>12. HeadPages(b, base) = PagesOf(base, a - base)
    BY DEF a, HeadPages
  <1>13. RestPages(b, base) = PagesOf(a, o - a)
    BY DEF a, o, RestPages
  <1>14. TailPages(b, base) = PagesOf(e, o - e)
    BY DEF a, s, e, o, TailPages
  <1>15. a + s <= base + AllocSize(b)
    BY <1>5 DEF e, o
  <1> QED
    BY <1>2, <1>10, <1>11, <1>12, <1>13, <1>14, <1>15 DEF a, s

(* The same where there is nothing to free before the region, or after it, *)
(* and alloc_aligned_from_os does not call munmap.                         *)
LEMMA Trimmed ==
  ASSUME NEW b \in Regions, NEW base \in Nat, Fits(base, AllocSize(b))
  PROVE  /\ Aligned(base, Size[b]) \in Nat /\ Aligned(base, Size[b]) % Size[b] = 0
         /\ HeadPages(b, base) \subseteq PagesOf(base, AllocSize(b))
         /\ PagesOf(base, AllocSize(b)) \ HeadPages(b, base) = RestPages(b, base)
         /\ ~(Aligned(base, Size[b]) > base) => RestPages(b, base) = PagesOf(base, AllocSize(b))
         /\ TailPages(b, base) \subseteq RestPages(b, base)
         /\ RestPages(b, base) \ TailPages(b, base) = PagesOf(Aligned(base, Size[b]), Size[b])
         /\ ~(Aligned(base, Size[b]) + Size[b] < base + AllocSize(b)) =>
              RestPages(b, base) = PagesOf(Aligned(base, Size[b]), Size[b])
         /\ PagesOf(Aligned(base, Size[b]), Size[b]) # {}
  <1> DEFINE a == Aligned(base, Size[b])
             n == AllocSize(b)
             s == Size[b]
  <1>1. a \in Nat /\ base <= a /\ a + s <= base + n /\ n \in Nat /\ s \in Nat
    BY Trimming, AllocSizeType, Constants
  <1>2. ASSUME ~(a > base) PROVE RestPages(b, base) = PagesOf(base, n)
    <2> HIDE DEF a, n
    <2>1. a = base /\ (base + n) - a = n
      BY <1>1, <1>2
    <2> QED
      BY <2>1 DEF RestPages, a, n
  <1>3. ASSUME ~(a + s < base + n) PROVE RestPages(b, base) = PagesOf(a, s)
    <2> HIDE DEF a, n, s
    <2>1. (base + n) - a = s
      BY <1>1, <1>3
    <2> QED
      BY <2>1 DEF RestPages, a, n, s
  <1>4. a % s = 0 /\ PagesOf(a, s) # {}
    BY Trimming
  <1>5. /\ HeadPages(b, base) \subseteq PagesOf(base, n)
        /\ PagesOf(base, n) \ HeadPages(b, base) = RestPages(b, base)
    BY Trimming
  <1>6. /\ TailPages(b, base) \subseteq RestPages(b, base)
        /\ RestPages(b, base) \ TailPages(b, base) = PagesOf(a, s)
    BY Trimming
  <1> QED
    BY <1>1, <1>2, <1>3, <1>4, <1>5, <1>6

(* Whoever neither is mapped, nor runs, nor is being mapped has no page.   *)
LEMMA NoPages ==
  ASSUME PagesExact, NEW b \in Blocks \union Closures, b \notin mapped \union running,
         \A u \in Threads : sys[u] # NoCall => sys[u].block # b
  PROVE  Holding(pages, b) = {}
  BY Constants DEF PagesExact, Holding, InTheMaking

(* The pages stay exact: nothing is freed but what the block has, nothing  *)
(* is taken but what is free.                                              *)
LEMMA PagesStep ==
  ASSUME UnixIInv, UnixTypeOK', ~strayed, ~strayed', [UnixNext]_allVars
  PROVE  PagesExact'
  <1>0. TypeOK /\ Apart /\ UnixTypeOK /\ MakingApart /\ FailedCommits /\ PagesExact
    BY DEF UnixIInv, IInv
  <1>a. \A u \in Threads : call[u].at = "map" => call[u].block \in Blocks \ mapped
    BY <1>0, CallCases DEF None, Apart
  <1>b. \A u \in Threads : sys[u] # NoCall =>
          /\ Holding(pages, sys[u].block) \subseteq MadeOf(sys[u])
          /\ MadeOf(sys[u]) \ Holding(pages, sys[u].block) \subseteq Lost(uncommitted, sys[u])
          /\ sys[u].at = "create" => addr[sys[u].block] = sys[u].base
          /\ sys[u].block \in Blocks \union Closures
          /\ sys[u].block \notin mapped \union running
    BY <1>0, <1>a, MakingCases, Constants
    DEF PagesExact, Has, Holding, LostOf, Lost, MakingApart, TypeOK, UnixTypeOK
  <1>c. /\ \A x \in mapped \union running :
             /\ Holding(pages, x) \subseteq PagesOf(addr[x], Length(x))
             /\ x \notin uncommitted => Holding(pages, x) = PagesOf(addr[x], Length(x))
        /\ mapped \subseteq Blocks /\ running \subseteq Closures /\ uncommitted \subseteq Regions
    BY <1>0 DEF PagesExact, Has, Holding, TypeOK, UnixTypeOK
  <1>d. \A t, u \in Threads : t # u /\ sys[t] # NoCall /\ sys[u] # NoCall => sys[u].block # sys[t].block
    BY <1>0 DEF MakingApart
  <1>e. DOMAIN addr = Blocks \union Closures /\ DOMAIN pages = 0 .. Pages - 1 /\ DOMAIN sys = Threads
    BY <1>0 DEF UnixTypeOK
  (* What no commit has failed for has all its pages.                      *)
  <1>f. \A u \in Threads : sys[u] # NoCall =>
          /\ sys[u].block \notin uncommitted => Holding(pages, sys[u].block) = MadeOf(sys[u])
          /\ sys[u].at \in {"commit", "create"} => sys[u].block \notin uncommitted
    <2> SUFFICES ASSUME NEW u \in Threads, sys[u] # NoCall
                 PROVE  /\ sys[u].block \notin uncommitted => Holding(pages, sys[u].block) = MadeOf(sys[u])
                        /\ sys[u].at \in {"commit", "create"} => sys[u].block \notin uncommitted
      OBVIOUS
    <2>1. sys[u].block \notin uncommitted => Lost(uncommitted, sys[u]) = {}
      BY DEF Lost
    <2>2. ASSUME sys[u].block \in uncommitted PROVE sys[u].at \in {"head", "tail"}
      <3>1. PICK t \in Threads : sys[t].at \in {"head", "tail"} /\ sys[t].block = sys[u].block
        BY <1>0, <1>b, <2>2 DEF FailedCommits
      <3>2. sys[t] # NoCall
        BY <3>1 DEF NoCall
      <3> QED
        BY <1>d, <3>1, <3>2
    <2> QED
      BY <1>b, <2>1, <2>2
  <1>1. ASSUME UNCHANGED <<osVars, mapped, running>> PROVE PagesExact'
    <2>1. UNCHANGED <<pages, addr, sys, uncommitted>>
      BY <1>1 DEF osVars
    <2>2. /\ \A x : Has(x)' = Has(x)
          /\ InTheMaking' = InTheMaking
      BY <2>1 DEF Has, InTheMaking
    <2>3. \A u \in Threads : LostOf(sys[u])' = LostOf(sys[u]) /\ MadeOf(sys[u])' = MadeOf(sys[u])
      BY <2>1 DEF LostOf, MadeOf
    <2> QED
      BY <1>0, <1>1, <2>1, <2>2, <2>3 DEF PagesExact
  <1>2. ASSUME NEW t \in Threads, NEW b \in Blocks, MayBegin(t), Free(t, b) PROVE PagesExact'
    <2>1. /\ pages' = Owned(PagesOf(addr[b], Size[b]), Nobody)
          /\ addr' = [addr EXCEPT ![b] = 0]
          /\ UNCHANGED <<sys, running>> /\ mapped' = mapped \ {b} /\ b \in mapped
          /\ uncommitted' = uncommitted \ {b}
      BY <1>2 DEF Free, Unmap, keyVars
    <2>a. Length(b) = Size[b]
      BY Constants DEF Length
    <2>2. Holding(pages, b) \subseteq PagesOf(addr[b], Size[b])
      BY <1>c, <2>1, <2>a
    <2>b. \A p \in PagesOf(addr[b], Size[b]) : pages[p] \in {b, Nobody}
      <3>1. CASE b \in uncommitted
        BY <1>2, <3>1 DEF Free
      <3>2. CASE b \notin uncommitted
        <4>1. Holding(pages, b) = PagesOf(addr[b], Size[b])
          BY <1>c, <2>1, <2>a, <3>2
        <4> QED
          BY <4>1 DEF Holding
      <3> QED
        BY <3>1, <3>2
    <2>3. /\ DOMAIN pages' = DOMAIN pages
          /\ Holding(pages', b) = {}
          /\ \A x \in Blocks \union Closures : x # b => Holding(pages', x) = Holding(pages, x)
      BY <1>0, <2>1, <2>2, <2>b, FreesRange
    <2>4. /\ \A x \in Blocks \union Closures : x # b => addr'[x] = addr[x]
          /\ \A u \in Threads : sys[u] # NoCall => sys[u].block # b
          /\ b \notin mapped' \union running' /\ mapped' \subseteq Blocks
      BY <1>b, <1>c, <1>e, <2>1, Constants
    <2>k. OthersKept(b)
      BY <1>0, <2>1, <2>3, <2>4 DEF OthersKept
    <2>x. BlockExact(b)
      BY <1>0, <2>1, <2>3, <2>4 DEF BlockExact
    <2> QED
      BY <1>0, <2>2, <2>4, <2>k, <2>x, OneBlock
  (* A mapping begins.                                                     *)
  <1>3. ASSUME NEW t \in Threads, NEW b \in Blocks \union Closures, sys[t] = NoCall, LoadShouldTryOption(t, b),
               b \notin mapped \union running, \A u \in Threads : sys[u] # NoCall => sys[u].block # b,
               UNCHANGED <<mapped, running>>
        PROVE  PagesExact'
    <2>1. PICK s \in Making : sys' = [sys EXCEPT ![t] = s] /\ s.at \in Trying /\ s.block = b
      BY <1>0, <1>3, LoadType
    <2>2. sys'[t] = s /\ (\A u \in Threads \ {t} : sys'[u] = sys[u]) /\ UNCHANGED <<pages, addr, uncommitted>>
      BY <1>3, <1>e, <2>1 DEF LoadShouldTryOption
    <2>3. Holding(pages, b) = {} /\ MadeOf(s) = {} /\ s.at # "create"
      BY <1>0, <1>3, <2>1, NoPages, MadeCases DEF Trying
    <2>k. OthersKept(b)
      BY <1>0, <1>3, <1>c, <2>1, <2>2, <2>3 DEF OthersKept
    <2>x. BlockExact(b)
      BY <1>0, <1>3, <1>c, <2>1, <2>2, <2>3 DEF BlockExact
    <2> QED
      BY <1>0, <2>2, <2>k, <2>x, OneBlock
  <1>4. ASSUME NEW t \in Threads, BeginMap(t) PROVE PagesExact'
    <2>1. PICK b \in Blocks \ mapped : b = call[t].block
      BY <1>4, <1>a DEF BeginMap
    <2>2. /\ LoadShouldTryOption(t, b) /\ sys[t] = NoCall /\ UNCHANGED <<mapped, running>> /\ call[t].at = "map"
      BY <1>4, <2>1 DEF BeginMap, vars, keyVars
    <2>3. \A u \in Threads : sys[u] # NoCall => sys[u].block # b
      BY <1>0, <2>1, <2>2, Constants DEF MakingApart, Apart, None
    <2>4. b \notin running
      BY <1>c, <2>1, Constants
    <2> QED
      BY <1>3, <2>1, <2>2, <2>3, <2>4
  <1>5. ASSUME NEW t \in Threads, Exit(t) PROVE PagesExact'
    <2>1. sys[t] = NoCall /\ UNCHANGED <<mapped, running>>
      BY <1>5 DEF Exit, At, vars
    <2>2. ASSUME NEW c \in Closures \ (running \union InTheMaking), LoadShouldTryOption(t, c) PROVE PagesExact'
      <3>1. c \notin mapped /\ \A u \in Threads : sys[u] # NoCall => sys[u].block # c
        BY <1>c, Constants DEF InTheMaking
      <3> QED
        BY <1>3, <2>1, <2>2, <3>1
    <2> QED
      BY <1>1, <1>5, <2>1, <2>2 DEF Exit
  (* A mapping is made, or goes on.                                        *)
  <1>6. ASSUME NEW t \in Threads, Mapped(t) PROVE PagesExact'
    <2>1. sys[t] # NoCall /\ sys[t].at \in Trying /\ UNCHANGED <<uncommitted, keyVars>>
      BY <1>6 DEF Mapped, NoCall, Trying
    <2>2. PICK b \in (Blocks \union Closures) \ (mapped \union running) : b = sys[t].block
      BY <1>b, <2>1
    <2>3. PICK p \in DOMAIN pages :
            /\ Fits(p * PageSize, AllocSize(b))
            /\ \A q \in PagesOf(p * PageSize, AllocSize(b)) : pages[q] = Nobody
            /\ pages' = Owned(PagesOf(p * PageSize, AllocSize(b)), b)
            /\ addr' = IF b \in Regions THEN addr ELSE [addr EXCEPT ![b] = p * PageSize]
            /\ IF b \in Blocks \ Regions THEN MapOk(t) /\ sys' = [sys EXCEPT ![t] = NoCall]
               ELSE /\ sys' = [sys EXCEPT ![t] = [at |-> IF b \in Regions THEN "commit" ELSE "create",
                                                  block |-> b, base |-> p * PageSize]]
                    /\ UNCHANGED vars
      BY <1>6, <2>2 DEF Mapped
    <2> DEFINE base == p * PageSize
    <2>4. base \in Nat
      BY <1>e, Constants
    <2>a. /\ Fits(base, AllocSize(b))
          /\ \A q \in PagesOf(base, AllocSize(b)) : pages[q] = Nobody
          /\ pages' = Owned(PagesOf(base, AllocSize(b)), b)
          /\ addr' = IF b \in Regions THEN addr ELSE [addr EXCEPT ![b] = base]
          /\ IF b \in Blocks \ Regions THEN MapOk(t) /\ sys' = [sys EXCEPT ![t] = NoCall]
             ELSE /\ sys' = [sys EXCEPT ![t] = [at |-> IF b \in Regions THEN "commit" ELSE "create",
                                                block |-> b, base |-> base]]
                  /\ UNCHANGED vars
      BY <2>3
    <2> HIDE DEF base
    <2>5. Holding(pages, b) = {}
      BY <1>b, <2>1, <2>2, MadeCases
    <2> DEFINE ps == PagesOf(base, AllocSize(b))
    <2>6. /\ ps \in SUBSET (0 .. Pages - 1)
          /\ \A q \in ps : pages[q] = Nobody
          /\ pages' = Owned(ps, b)
      BY <2>a DEF PagesOf
    <2> HIDE DEF ps
    <2>b. /\ DOMAIN pages' = DOMAIN pages
          /\ Holding(pages', b) = ps
          /\ \A x \in Blocks \union Closures : x # b => Holding(pages', x) = Holding(pages, x)
      BY <1>0, <2>2, <2>5, <2>6, Gives
    <2>7. /\ DOMAIN pages' = DOMAIN pages
          /\ Holding(pages', b) = PagesOf(base, AllocSize(b))
          /\ \A x \in Blocks \union Closures : x # b => Holding(pages', x) = Holding(pages, x)
      BY <2>b DEF ps
    <2>8. Holding(pages', b) # {}
      BY <2>4, <2>a, <2>7, SomePage, AllocSizeType
    <2>9. \A x \in Blocks \union Closures : x # b => addr'[x] = addr[x]
      BY <1>e, <2>a
    <2>10. \A u \in Threads \ {t} : sys'[u] = sys[u] /\ (sys[u] # NoCall => sys[u].block # b)
      BY <1>d, <1>e, <2>1, <2>2, <2>a
    <2>11. UNCHANGED <<running, uncommitted>>
      BY <2>1 DEF keyVars
    <2>12. CASE b \in Blocks \ Regions
      <3>1. sys'[t] = NoCall /\ addr'[b] = base
        BY <1>e, <2>4, <2>a, <2>12
      <3>2. mapped' = mapped \union {b}
        BY <1>0, <2>1, <2>2, <2>a, <2>12, Constants DEF MapOk, MakingApart
      <3>3. Length(b) = AllocSize(b)
        BY <2>12 DEF AllocSize
      <3>4. Holding(pages', b) = PagesOf(addr'[b], Length(b)) /\ mapped' \subseteq Blocks
        BY <1>c, <2>7, <2>12, <3>1, <3>2, <3>3
      <3>k. OthersKept(b)
        BY <1>0, <2>2, <2>7, <2>8, <2>9, <2>10, <2>11, <2>12, <3>1, <3>2, <3>4 DEF OthersKept
      <3>x. BlockExact(b)
        BY <1>0, <2>2, <2>7, <2>8, <2>9, <2>10, <2>11, <2>12, <3>1, <3>2, <3>4 DEF BlockExact
      <3> QED
        BY <1>0, <2>2, <3>k, <3>x, OneBlock
    <2>13. CASE b \notin Blocks \ Regions
      <3>1. /\ sys'[t] = [at |-> IF b \in Regions THEN "commit" ELSE "create", block |-> b, base |-> base]
            /\ mapped' = mapped
        BY <1>e, <2>4, <2>a, <2>13 DEF vars
      <3>2. sys'[t].at = (IF b \in Regions THEN "commit" ELSE "create") /\ sys'[t].block = b /\ sys'[t].base = base
        BY <3>1
      <3>3. CASE b \in Regions
        <4>1. MadeOf(sys'[t]) = PagesOf(base, AllocSize(b)) /\ sys'[t].at # "create"
          BY <3>2, <3>3, MadeCases
        <4>k. OthersKept(b)
          BY <1>0, <1>c, <2>2, <2>7, <2>9, <2>10, <2>11, <3>1, <3>2, <4>1 DEF OthersKept
        <4>x. BlockExact(b)
          BY <1>0, <1>c, <2>2, <2>7, <2>9, <2>10, <2>11, <3>1, <3>2, <4>1 DEF BlockExact, NoCall
        <4> QED
          BY <1>0, <2>2, <4>k, <4>x, OneBlock
      <3>4. CASE b \notin Regions
        <4>0. b \in Closures
          BY <2>13, <3>4
        <4>1. AllocSize(b) = ClosureSize
          BY <3>4, <4>0 DEF AllocSize, Length
        <4>2. MadeOf(sys'[t]) = PagesOf(base, AllocSize(b)) /\ addr'[b] = sys'[t].base
          BY <1>e, <2>4, <2>a, <3>2, <3>4, <4>1, MadeCases
        <4>k. OthersKept(b)
          BY <1>0, <1>c, <2>2, <2>7, <2>9, <2>10, <2>11, <3>1, <3>2, <4>2 DEF OthersKept
        <4>x. BlockExact(b)
          BY <1>0, <1>c, <2>2, <2>7, <2>9, <2>10, <2>11, <3>1, <3>2, <4>2 DEF BlockExact, NoCall
        <4> QED
          BY <1>0, <2>2, <4>k, <4>x, OneBlock
      <3> QED
        BY <3>3, <3>4
    <2> QED
      BY <2>12, <2>13
  <1>7. ASSUME NEW t \in Threads, HugeFails(t) PROVE PagesExact'
    <2>1. /\ sys[t] # NoCall /\ sys[t].at \in Trying /\ UNCHANGED <<pages, addr, mapped, running, uncommitted>>
      BY <1>7 DEF HugeFails, NoCall, Trying, keyVars, vars
    <2>2. PICK b \in (Blocks \union Closures) \ (mapped \union running) : b = sys[t].block
      BY <1>b, <2>1
    <2>3. PICK at \in Trying : sys' = [sys EXCEPT ![t].at = at]
      BY <1>7 DEF HugeFails, Trying
    <2>4. PICK s \in Making :
            sys' = [sys EXCEPT ![t] = s] /\ s = [at |-> at, block |-> sys[t].block, base |-> sys[t].base]
      BY <1>0, <2>1, <2>3, GoesOn
    <2>5. s.at \in Trying /\ s.block = b /\ s.at # "create"
      BY <2>2, <2>3, <2>4 DEF Trying
    <2>6. /\ sys'[t] = s
          /\ \A u \in Threads \ {t} : sys'[u] = sys[u] /\ (sys[u] # NoCall => sys[u].block # b)
      BY <1>d, <1>e, <2>1, <2>2, <2>4
    <2>7. Holding(pages, b) = {} /\ MadeOf(s) = {}
      BY <1>b, <2>1, <2>2, <2>5, MadeCases
    <2>k. OthersKept(b)
      BY <1>0, <1>c, <2>1, <2>2, <2>5, <2>6, <2>7 DEF OthersKept
    <2>x. BlockExact(b)
      BY <1>0, <1>c, <2>1, <2>2, <2>5, <2>6, <2>7 DEF BlockExact
    <2> QED
      BY <1>0, <2>2, <2>4, <2>k, <2>x, OneBlock
  <1>8. ASSUME NEW t \in Threads, PlainFails(t) PROVE PagesExact'
    <2>1. /\ sys[t] # NoCall /\ sys[t].at \in Trying /\ UNCHANGED <<pages, addr, mapped, running, uncommitted>>
          /\ sys' = [sys EXCEPT ![t] = NoCall]
      BY <1>8 DEF PlainFails, MapFails, NoCall, Trying, keyVars
    <2>2. PICK b \in (Blocks \union Closures) \ (mapped \union running) : b = sys[t].block
      BY <1>b, <2>1
    <2>3. /\ sys'[t] = NoCall
          /\ \A u \in Threads \ {t} : sys'[u] = sys[u] /\ (sys[u] # NoCall => sys[u].block # b)
      BY <1>d, <1>e, <2>1, <2>2
    <2>4. Holding(pages, b) = {}
      BY <1>b, <2>1, <2>2, MadeCases
    <2>k. OthersKept(b)
      BY <1>0, <1>c, <2>1, <2>2, <2>3, <2>4 DEF OthersKept
    <2>x. BlockExact(b)
      BY <1>0, <1>c, <2>1, <2>2, <2>3, <2>4 DEF BlockExact
    <2> QED
      BY <1>0, <2>2, <2>4, <2>k, <2>x, OneBlock
  <1>g. ASSUME NEW t \in Threads, Commit(t) PROVE PagesExact'
    <2> DEFINE base == sys[t].base
    <2>1. /\ sys[t] # NoCall /\ sys[t].at = "commit" /\ UNCHANGED <<addr, mapped, running>>
          /\ sys' = [sys EXCEPT ![t].at = "head"]
      BY <1>g DEF Commit, NoCall, keyVars, vars
    <2>2. PICK b \in Regions \ (mapped \union running) : b = sys[t].block
      BY <1>0, <1>b, <2>1 DEF MakingApart, Trying
    <2>4. b \in Blocks \union Closures
      BY <2>2, Constants
    <2>5. PICK s \in Making :
            sys' = [sys EXCEPT ![t] = s] /\ s = [at |-> "head", block |-> sys[t].block, base |-> sys[t].base]
      BY <1>0, <2>1, GoesOn
    <2>6. s.at = "head" /\ s.block = b /\ s.base = base
      BY <2>2, <2>5
    <2>7. /\ sys'[t] = s
          /\ \A u \in Threads \ {t} : sys'[u] = sys[u] /\ (sys[u] # NoCall => sys[u].block # b)
      BY <1>d, <1>e, <2>1, <2>2, <2>5
    <2>8. Holding(pages, b) = PagesOf(base, AllocSize(b)) /\ MadeOf(s) = PagesOf(base, AllocSize(b))
      BY <1>b, <1>f, <2>1, <2>2, <2>6, MadeCases
    <2> DEFINE part == PagesOf(Aligned(base, Size[b]), Size[b])
    <2>9. CASE UNCHANGED <<pages, uncommitted>>
      <3>k. OthersKept(b)
        BY <1>0, <1>c, <2>1, <2>2, <2>6, <2>7, <2>9 DEF OthersKept
      <3>x. BlockExact(b)
        BY <2>1, <2>2, <2>6, <2>7, <2>8, <2>9 DEF BlockExact, NoCall
      <3> QED
        BY <1>0, <2>4, <3>k, <3>x, OneBlock
    <2>10. ASSUME NEW gone \in SUBSET part, pages' = Owned(gone, Nobody), uncommitted' = uncommitted \union {b}
           PROVE  PagesExact'
      <3>1. base \in Nat /\ Fits(base, AllocSize(b))
        BY <1>0, <2>1, <2>2, MakingCases DEF MakingApart, Trying
      <3>2. part \subseteq PagesOf(base, AllocSize(b))
        BY <2>2, <3>1, Trimmed
      <3>3. Lost(uncommitted', s) = part
        BY <2>6, <2>10 DEF Lost
      <3> HIDE DEF part, base
      <3>4. gone \in SUBSET Holding(pages, b)
        BY <2>8, <2>10, <3>2
      <3>5. /\ DOMAIN pages' = DOMAIN pages
            /\ Holding(pages', b) = Holding(pages, b) \ gone
            /\ \A x \in Blocks \union Closures : x # b => Holding(pages', x) = Holding(pages, x)
        BY <1>0, <2>4, <2>10, <3>4, Frees
      <3>6. Holding(pages', b) \subseteq MadeOf(s) /\ MadeOf(s) \ Holding(pages', b) \subseteq Lost(uncommitted', s)
        BY <2>8, <2>10, <3>3, <3>5
      <3>k. OthersKept(b)
        BY <1>0, <1>c, <2>1, <2>2, <2>6, <2>7, <2>10, <3>5 DEF OthersKept
      <3>x. BlockExact(b)
        BY <2>1, <2>2, <2>6, <2>7, <3>6 DEF BlockExact, NoCall
      <3> QED
        BY <1>0, <2>4, <3>k, <3>x, OneBlock
    <2> QED
      BY <1>g, <2>2, <2>9, <2>10 DEF Commit
  <1>9. ASSUME NEW t \in Threads, FreeHead(t) PROVE PagesExact'
    <2> DEFINE base == sys[t].base
    <2>1. /\ sys[t] # NoCall /\ sys[t].at = "head" /\ UNCHANGED <<addr, mapped, running, uncommitted>>
          /\ sys' = [sys EXCEPT ![t].at = "tail"]
      BY <1>9 DEF FreeHead, NoCall, keyVars, vars
    <2>2. PICK b \in Regions \ (mapped \union running) : b = sys[t].block
      BY <1>0, <1>b, <2>1 DEF MakingApart, Trying
    <2>3. base \in Nat
      BY <1>0, <2>1, MakingCases
    <2>4. Fits(base, AllocSize(b)) /\ b \in Blocks \union Closures
      BY <1>0, <2>1, <2>2, Constants DEF MakingApart, Trying
    <2>5. PICK s \in Making :
            sys' = [sys EXCEPT ![t] = s] /\ s = [at |-> "tail", block |-> sys[t].block, base |-> sys[t].base]
      BY <1>0, <2>1, GoesOn
    <2>6. s.at = "tail" /\ s.block = b /\ s.base = base
      BY <2>2, <2>5
    <2>7. /\ sys'[t] = s
          /\ \A u \in Threads \ {t} : sys'[u] = sys[u] /\ (sys[u] # NoCall => sys[u].block # b)
      BY <1>d, <1>e, <2>1, <2>2, <2>5
    <2>8. pages' = IF Aligned(base, Size[b]) > base THEN Owned(HeadPages(b, base), Nobody) ELSE pages
      BY <1>9, <2>2 DEF FreeHead, HeadPages
    <2> DEFINE all == PagesOf(base, AllocSize(b))
               lost == Lost(uncommitted, sys[t])
    <2>9. Holding(pages, b) \subseteq all /\ all \ Holding(pages, b) \subseteq lost
      BY <1>b, <2>1, <2>2, MadeCases
    <2>10. MadeOf(s) = RestPages(b, base) /\ Lost(uncommitted', s) = lost
      BY <2>1, <2>2, <2>6, MadeCases DEF RestPages, Lost
    <2>a. lost \subseteq PagesOf(Aligned(base, Size[b]), Size[b])
      BY <2>2 DEF Lost
    <2> HIDE DEF base, lost
    <2>b. /\ HeadPages(b, base) \subseteq all
          /\ all \ HeadPages(b, base) = RestPages(b, base)
          /\ ~(Aligned(base, Size[b]) > base) => RestPages(b, base) = all
          /\ PagesOf(Aligned(base, Size[b]), Size[b]) \subseteq RestPages(b, base)
      BY <2>2, <2>3, <2>4, Trimmed
    <2> HIDE DEF all
    <2>11. /\ HeadPages(b, base) \subseteq Holding(pages, b)
           /\ Holding(pages, b) \ HeadPages(b, base) \subseteq RestPages(b, base)
           /\ RestPages(b, base) \ (Holding(pages, b) \ HeadPages(b, base)) \subseteq lost
           /\ ~(Aligned(base, Size[b]) > base) =>
                Holding(pages, b) \subseteq RestPages(b, base) /\ RestPages(b, base) \ Holding(pages, b) \subseteq lost
      BY <2>9, <2>a, <2>b
    <2>12. /\ DOMAIN pages' = DOMAIN pages
           /\ Holding(pages', b) \subseteq RestPages(b, base)
           /\ RestPages(b, base) \ Holding(pages', b) \subseteq lost
           /\ \A x \in Blocks \union Closures : x # b => Holding(pages', x) = Holding(pages, x)
      <3>1. CASE Aligned(base, Size[b]) > base
        <4>1. pages' = Owned(HeadPages(b, base), Nobody)
          BY <2>8, <3>1
        <4> QED
          BY <1>0, <2>4, <2>11, <4>1, Frees
      <3>2. CASE ~(Aligned(base, Size[b]) > base)
        BY <2>8, <2>11, <3>2
      <3> QED
        BY <3>1, <3>2
    <2>k. OthersKept(b)
      BY <1>0, <1>c, <2>1, <2>2, <2>6, <2>7, <2>12 DEF OthersKept
    <2>x. BlockExact(b)
      BY <2>1, <2>2, <2>6, <2>7, <2>10, <2>12 DEF BlockExact, NoCall
    <2> QED
      BY <1>0, <2>4, <2>k, <2>x, OneBlock
  <1>10. ASSUME NEW t \in Threads, FreeTail(t) PROVE PagesExact'
    <2> DEFINE base == sys[t].base
    <2>1. /\ sys[t] # NoCall /\ sys[t].at = "tail" /\ UNCHANGED <<running, uncommitted>>
          /\ sys' = [sys EXCEPT ![t] = NoCall] /\ MapOk(t)
      BY <1>10 DEF FreeTail, NoCall, keyVars
    <2>2. PICK b \in Regions \ (mapped \union running) : b = sys[t].block
      BY <1>0, <1>b, <2>1 DEF MakingApart, Trying
    <2>3. base \in Nat
      BY <1>0, <2>1, MakingCases
    <2>4. Fits(base, AllocSize(b)) /\ b \in Blocks \union Closures /\ b \in Blocks \ Closures
      BY <1>0, <2>1, <2>2, Constants DEF MakingApart, Trying
    <2>5. mapped' = mapped \union {b}
      BY <1>0, <2>1, <2>2, Constants DEF MapOk, MakingApart
    <2>7. /\ sys'[t] = NoCall
          /\ \A u \in Threads \ {t} : sys'[u] = sys[u] /\ (sys[u] # NoCall => sys[u].block # b)
      BY <1>d, <1>e, <2>1, <2>2
    <2>a. pages' = IF Aligned(base, Size[b]) + Size[b] < base + AllocSize(b)
                   THEN Owned(TailPages(b, base), Nobody) ELSE pages
      BY <1>10, <2>2 DEF FreeTail, TailPages
    <2>b. addr' = [addr EXCEPT ![b] = Aligned(base, Size[b])]
      BY <1>10, <2>2 DEF FreeTail
    <2>8. /\ pages' = IF Aligned(base, Size[b]) + Size[b] < base + AllocSize(b)
                      THEN Owned(TailPages(b, base), Nobody) ELSE pages
          /\ addr' = [addr EXCEPT ![b] = Aligned(base, Size[b])]
      BY <2>a, <2>b
    <2>9. /\ Holding(pages, b) \subseteq RestPages(b, base)
          /\ b \notin uncommitted => Holding(pages, b) = RestPages(b, base)
          /\ RestPages(b, base) \ Holding(pages, b) \subseteq PagesOf(Aligned(base, Size[b]), Size[b])
      BY <1>b, <1>f, <2>1, <2>2, MadeCases DEF RestPages, Lost
    <2> HIDE DEF base
    <2> DEFINE aligned == Aligned(base, Size[b])
    <2>c. /\ TailPages(b, base) \subseteq RestPages(b, base)
          /\ RestPages(b, base) \ TailPages(b, base) = PagesOf(aligned, Size[b])
          /\ ~(aligned + Size[b] < base + AllocSize(b)) => RestPages(b, base) = PagesOf(aligned, Size[b])
          /\ PagesOf(aligned, Size[b]) # {} /\ aligned % Size[b] = 0
      BY <2>2, <2>3, <2>4, Trimmed
    <2>10. /\ TailPages(b, base) \subseteq Holding(pages, b)
           /\ Holding(pages, b) \ TailPages(b, base) \subseteq PagesOf(aligned, Size[b])
           /\ b \notin uncommitted => Holding(pages, b) \ TailPages(b, base) = PagesOf(aligned, Size[b])
           /\ ~(aligned + Size[b] < base + AllocSize(b)) =>
                /\ Holding(pages, b) \subseteq PagesOf(aligned, Size[b])
                /\ b \notin uncommitted => Holding(pages, b) = PagesOf(aligned, Size[b])
           /\ PagesOf(aligned, Size[b]) # {} /\ aligned % Size[b] = 0
      BY <2>9, <2>c
    <2>12. /\ DOMAIN pages' = DOMAIN pages
           /\ Holding(pages', b) \subseteq PagesOf(aligned, Size[b])
           /\ b \notin uncommitted => Holding(pages', b) = PagesOf(aligned, Size[b])
           /\ \A x \in Blocks \union Closures : x # b => Holding(pages', x) = Holding(pages, x)
      <3>1. CASE aligned + Size[b] < base + AllocSize(b)
        <4>1. pages' = Owned(TailPages(b, base), Nobody)
          BY <2>8, <3>1
        <4> QED
          BY <1>0, <2>4, <2>10, <4>1, Frees
      <3>2. CASE ~(aligned + Size[b] < base + AllocSize(b))
        BY <2>8, <2>10, <3>2
      <3> QED
        BY <3>1, <3>2
    <2>13. /\ addr'[b] = aligned /\ Length(b) = Size[b] /\ mapped' \subseteq Blocks
           /\ \A x \in Blocks \union Closures : x # b => addr'[x] = addr[x]
      BY <1>c, <1>e, <2>4, <2>5, <2>8 DEF Length
    <2> HIDE DEF aligned
    <2>k. OthersKept(b)
      BY <2>1, <2>2, <2>4, <2>5, <2>7, <2>12, <2>13 DEF OthersKept
    <2>x. BlockExact(b)
      BY <2>1, <2>2, <2>4, <2>5, <2>7, <2>10, <2>12, <2>13 DEF BlockExact
    <2> QED
      BY <1>0, <2>4, <2>k, <2>x, OneBlock
  (* Closures.                                                             *)
  <1>11. ASSUME NEW t \in Threads, PthreadCreate(t) PROVE PagesExact'
    <2>1. /\ sys[t] # NoCall /\ sys[t].at = "create" /\ UNCHANGED <<mapped, uncommitted>>
          /\ sys' = [sys EXCEPT ![t] = NoCall]
      BY <1>11 DEF PthreadCreate, NoCall, vars
    <2>2. PICK c \in Closures \ running : c = sys[t].block
      BY <1>0, <2>1 DEF MakingApart, Trying
    <2>3. /\ sys'[t] = NoCall
          /\ \A u \in Threads \ {t} : sys'[u] = sys[u] /\ (sys[u] # NoCall => sys[u].block # c)
      BY <1>d, <1>e, <2>1, <2>2
    <2>4. Holding(pages, c) = PagesOf(addr[c], ClosureSize) /\ Length(c) = ClosureSize /\ c \notin mapped
      BY <1>b, <1>f, <2>1, <2>2, MadeCases DEF Length
    <2>5. CASE running' = running \union {c} /\ UNCHANGED <<pages, addr>>
      <3>k. OthersKept(c)
        BY <1>0, <1>c, <2>1, <2>2, <2>3, <2>4, <2>5 DEF OthersKept
      <3>x. BlockExact(c)
        BY <1>0, <1>c, <2>1, <2>2, <2>3, <2>4, <2>5 DEF BlockExact
      <3> QED
        BY <1>0, <2>2, <3>k, <3>x, OneBlock
    <2>6. CASE /\ pages' = Owned(PagesOf(addr[c], ClosureSize), Nobody)
               /\ addr' = [addr EXCEPT ![c] = 0]
               /\ running' = running
      <3>1. /\ DOMAIN pages' = DOMAIN pages
            /\ Holding(pages', c) = {}
            /\ \A x \in Blocks \union Closures : x # c => Holding(pages', x) = Holding(pages, x)
        BY <1>0, <2>2, <2>4, <2>6, Frees
      <3>2. \A x \in Blocks \union Closures : x # c => addr'[x] = addr[x]
        BY <1>e, <2>6
      <3>k. OthersKept(c)
        BY <1>0, <1>c, <2>1, <2>2, <2>3, <2>4, <2>6, <3>1, <3>2 DEF OthersKept
      <3>x. BlockExact(c)
        BY <1>0, <1>c, <2>1, <2>2, <2>3, <2>4, <2>6, <3>1, <3>2 DEF BlockExact
      <3> QED
        BY <1>0, <2>2, <3>k, <3>x, OneBlock
    <2> QED
      BY <1>11, <2>2, <2>5, <2>6 DEF PthreadCreate
  <1>12. ASSUME NEW c \in Closures, Start(c) PROVE PagesExact'
    <2>1. /\ c \in running /\ running' = running \ {c} /\ UNCHANGED <<mapped, sys, uncommitted>>
          /\ pages' = Owned(PagesOf(addr[c], ClosureSize), Nobody)
          /\ addr' = [addr EXCEPT ![c] = 0]
      BY <1>12 DEF Start, vars
    <2>2. Holding(pages, c) = PagesOf(addr[c], ClosureSize) /\ c \notin mapped
      BY <1>c, <2>1, Constants DEF Length
    <2>3. /\ DOMAIN pages' = DOMAIN pages
          /\ Holding(pages', c) = {}
          /\ \A x \in Blocks \union Closures : x # c => Holding(pages', x) = Holding(pages, x)
      BY <1>0, <2>1, <2>2, Frees
    <2>4. /\ \A x \in Blocks \union Closures : x # c => addr'[x] = addr[x]
          /\ \A u \in Threads : sys[u] # NoCall => sys[u].block # c
      BY <1>b, <1>e, <2>1
    <2>k. OthersKept(c)
      BY <1>0, <1>c, <2>1, <2>2, <2>3, <2>4 DEF OthersKept
    <2>x. BlockExact(c)
      BY <1>0, <1>c, <2>1, <2>2, <2>3, <2>4 DEF BlockExact
    <2> QED
      BY <1>0, <2>k, <2>x, OneBlock
  (* All other steps leave the memory alone.                               *)
  <1>13. ASSUME NEW t \in Threads,
                Register(t) \/ CreateKey(t) \/ StoreOnce(t) \/ Spin(t) \/ SetSpecific(t) \/ Deregister(t)
         PROVE  UNCHANGED <<osVars, mapped, running>>
    BY <1>13 DEF Register, CreateKey, StoreOnce, Spin, SetSpecific, Deregister, vars
  <1>14. ASSUME NEW t \in Threads, Refuse(t) \/ CompareExchange(t) \/ MarkDeallocated(t) PROVE mapped' = mapped
    BY <1>14 DEF Refuse, CompareExchange, MarkDeallocated
  <1>15. ASSUME NEW t \in Threads, NEW b \in Blocks, LoadAllocated(t, b) \/ AllocateAnyWay(t, b) PROVE mapped' = mapped
    BY <1>15 DEF LoadAllocated, AllocateAnyWay
  <1>16. ASSUME NEW l \in Limits, SetAllocatorLimit(l) PROVE mapped' = mapped
    BY <1>16 DEF SetAllocatorLimit
  <1>17. UNCHANGED keyVars => running' = running
    BY DEF keyVars
  <1>18. UNCHANGED allVars => UNCHANGED <<osVars, mapped, running>>
    BY DEF allVars, vars, keyVars
  <1> QED
    BY <1>1, <1>2, <1>4, <1>5, <1>6, <1>7, <1>8, <1>9, <1>10, <1>11, <1>12, <1>13, <1>14, <1>15, <1>16, <1>17, <1>18, <1>g
    DEF UnixNext

-----------------------------------------------------------------------------
(* UnixIInv holds in every reachable state, whichever commits fail: as     *)
(* long as munmap has not strayed into what a failed commit left free,     *)
(* every mapping has the pages that its stage says, except that a region   *)
(* whose commit failed may lack pages of its own.                          *)
THEOREM UnixInvariance == UnixSpec => []UnixIInv
  <1> DEFINE J == UnixTypeOK /\ KeyOnce /\ MakingApart /\ FailedCommits /\ (~strayed => PagesExact)
  <1>1. UnixInit => J
    <2> SUFFICES ASSUME UnixInit PROVE J
      OBVIOUS
    <2>1. UnixTypeOK
      BY DEF UnixInit, UnixTypeOK
    <2>2. KeyOnce
      BY DEF UnixInit, KeyOnce
    <2>3. MakingApart /\ FailedCommits
      BY DEF UnixInit, MakingApart, FailedCommits
    <2>4. PagesExact
      BY DEF UnixInit, Init, PagesExact
    <2> QED
      BY <2>1, <2>2, <2>3, <2>4
  <1>2. UnixIInv /\ [UnixNext]_allVars => J'
    <2> SUFFICES ASSUME UnixIInv, [UnixNext]_allVars PROVE J'
      OBVIOUS
    <2>0. IInv /\ UnixTypeOK /\ KeyOnce /\ MakingApart /\ FailedCommits
      BY DEF UnixIInv
    <2>1. UnixTypeOK'
      BY <2>0, UnixTypeStep
    <2>2. KeyOnce' /\ MakingApart' /\ FailedCommits'
      BY <2>0, KeyStep, MakingStep, FailedStep
    <2>3. ASSUME ~strayed' PROVE PagesExact'
      BY <2>1, <2>3, PagesStep, StrayedStays
    <2> QED
      BY <2>1, <2>2, <2>3
  <1>3. UnixIInv <=> IInv /\ J
    BY DEF UnixIInv
  <1> HIDE DEF J
  <1> QED
    BY <1>1, <1>2, <1>3, LimitInvariance, PTL DEF UnixSpec

(* For any number of threads, the key is created at most once, exists      *)
(* before any thread uses it, and no thread that registers finds a value   *)
(* there: the assertion in register_thread_local_allocator_destructor      *)
(* holds.                                                                  *)
THEOREM Key == UnixSpec => []KeyReady
  <1>1. UnixIInv => KeyReady
    BY DEF UnixIInv, KeyOnce, UnixTypeOK, KeyReady
  <1> QED
    BY <1>1, UnixInvariance, PTL

(* For any number of threads and blocks, page size and sizes (those of     *)
(* regions being whole pages), every mapped block has exactly its own      *)
(* pages, regions are aligned to their size, and no page is leaked or      *)
(* taken from others by the trimming of a region, by munmap, or by a       *)
(* closure of spawn_thread.  A region whose commit failed unnoticed may    *)
(* lack pages; nobody else does, until such a region is unmapped after     *)
(* others have mapped what it lacks.                                       *)
THEOREM Mappings == UnixSpec => []MappingsExact
  <1>1. UnixIInv => MappingsExact
    <2> SUFFICES ASSUME UnixIInv, ~strayed PROVE MappingsExact
      BY DEF MappingsExact
    <2>1. PagesExact /\ mapped \subseteq Blocks
      BY DEF UnixIInv, IInv, TypeOK
    <2>2. \A b \in mapped : Length(b) = Size[b]
      BY <2>1, Constants DEF Length
    <2> QED
      BY <2>1, <2>2 DEF PagesExact, MappingsExact
  <1> QED
    BY <1>1, UnixInvariance, PTL

(* The count is exact and the limit is kept in the operating system layer  *)
(* too.                                                                    *)
THEOREM LimitHolds ==
  ASSUME NoWrap
  PROVE  UnixSpec => []Accounted /\ GrantsWithinLimit
  BY Implements, Accounting, Granting, PTL
=============================================================================
