------------------------ MODULE SizeAccountingProofs -------------------------
(***************************************************************************)
(* The accounting errs on the safe side for every chunk and object size,   *)
(* and is exact when the objects fill their chunks.                        *)
(***************************************************************************)
EXTENDS SizeAccounting, TLAPS

(* What division by a positive number means.                               *)
LEMMA DivMod ==
  ASSUME NEW x \in Nat, NEW s \in Nat \ {0}
  PROVE  /\ x \div s \in Nat
         /\ x % s \in 0 .. (s - 1)
         /\ x = s * (x \div s) + (x % s)
  OBVIOUS

LEMMA DivLower ==
  ASSUME NEW x \in Nat, NEW s \in Nat \ {0}, NEW q \in Nat, s * q <= x
  PROVE  q <= x \div s
  <1> DEFINE d == x \div s
  <1>1. d \in Nat /\ x < s * d + s
    BY DivMod
  <1>2. SUFFICES ASSUME d + 1 <= q PROVE FALSE
    BY <1>1
  <1>3. s * (d + 1) <= s * q
    BY <1>1, <1>2
  <1>4. s * (d + 1) = s * d + s
    BY <1>1
  <1> QED
    BY <1>1, <1>3, <1>4

(* A floor of a multiple is not below the multiple of the floor ...        *)
LEMMA DivMulNotBelow ==
  ASSUME NEW x \in Nat, NEW s \in Nat \ {0}, NEW n \in Nat
  PROVE  n * (x \div s) <= (x * n) \div s
  <1>1. PICK q \in Nat : q = x \div s
    BY DivMod
  <1>2. s * q <= x
    BY <1>1, DivMod
  <1>3. (s * q) * n <= x * n
    BY <1>2
  <1>4. s * (n * q) <= x * n /\ n * q \in Nat /\ x * n \in Nat
    BY <1>3
  <1>5. n * q <= (x * n) \div s
    BY <1>4, DivLower
  <1> QED
    BY <1>1, <1>5

(* ... and equal to it when nothing is left over.                          *)
LEMMA DivMulExact ==
  ASSUME NEW x \in Nat, NEW s \in Nat \ {0}, NEW n \in Nat, x % s = 0
  PROVE  n * (x \div s) = (x * n) \div s
  <1>1. PICK q \in Nat : q = x \div s
    BY DivMod
  <1>2. x = s * q
    BY <1>1, DivMod
  <1>3. PICK k \in Nat : k = n * q
    OBVIOUS
  <1>4. x * n = s * k
    BY <1>2, <1>3
  <1>5. PICK d \in Nat : d = (s * k) \div s
    BY DivMod
  <1>6. s * d <= s * k /\ s * k < s * d + s
    BY <1>5, DivMod
  <1>7. k <= d
    BY <1>5, DivLower
  <1>8. ~(k + 1 <= d)
    <2> SUFFICES ASSUME k + 1 <= d PROVE FALSE
      OBVIOUS
    <2>1. s * (k + 1) <= s * d
      OBVIOUS
    <2>2. s * (k + 1) = s * k + s
      OBVIOUS
    <2> QED
      BY <1>6, <2>1, <2>2
  <1> QED
    BY <1>1, <1>3, <1>4, <1>5, <1>7, <1>8

(* memory_allocated / size_of_elem counts at least the objects carved.     *)
LEMMA CountNotBelow ==
  ASSUME TypeOK, NEW c \in Classes
  PROVE  /\ chunks[c] * PerChunk(c) <= ObjectsAllocated(c)
         /\ ObjectsAllocated(c) \in Nat
         /\ PerChunk(c) \in Nat
  <1>1. ElemSize[c] \in Nat \ {0} /\ ChunkSize[c] \in Nat /\ chunks[c] \in Nat
    BY SizesAssumption DEF TypeOK
  <1>2. ChunkSize[c] * chunks[c] \in Nat
    BY <1>1
  <1> QED
    BY <1>1, <1>2, DivMulNotBelow, DivMod DEF ObjectsAllocated, PerChunk

(* It counts exactly those when nothing is left over at a chunk's end.     *)
LEMMA CountExact ==
  ASSUME TypeOK, NEW c \in Classes, ChunkSize[c] % ElemSize[c] = 0
  PROVE  chunks[c] * PerChunk(c) = ObjectsAllocated(c)
  <1>1. ElemSize[c] \in Nat \ {0} /\ ChunkSize[c] \in Nat /\ chunks[c] \in Nat
    BY SizesAssumption DEF TypeOK
  <1> QED
    BY <1>1, DivMulExact DEF ObjectsAllocated, PerChunk

LEMMA PerChunkNat ==
  ASSUME NEW c \in Classes
  PROVE  PerChunk(c) \in Nat
  <1>1. ElemSize[c] \in Nat \ {0} /\ ChunkSize[c] \in Nat
    BY SizesAssumption
  <1> QED
    BY <1>1, DivMod DEF PerChunk

(* Taking an object from a vector keeps the sum but for that object.       *)
LEMMA TakeObjectStep ==
  ASSUME TypeOK, ObjectsConserved, NEW c \in Classes, TakeObject(c)
  PROVE  /\ len' \in [Classes -> Nat] /\ chunks' \in [Classes -> Nat]
         /\ len'[c] + held[c] + self[c] + missing[c] + 1 = chunks'[c] * PerChunk(c)
         /\ \A d \in Classes \ {c} : len'[d] = len[d] /\ chunks'[d] = chunks[d]
  <1>1. len[c] \in Nat /\ held[c] \in Nat /\ self[c] \in Nat /\ missing[c] \in Nat /\ chunks[c] \in Nat
    BY DEF TypeOK
  <1>2. len[c] + held[c] + self[c] + missing[c] = chunks[c] * PerChunk(c)
    BY DEF ObjectsConserved
  <1>3. CASE len[c] > 0 /\ len' = [len EXCEPT ![c] = @ - 1] /\ UNCHANGED chunks
    BY <1>1, <1>2, <1>3 DEF TypeOK
  <1>4. CASE /\ len[c] = 0 /\ PerChunk(c) > 0
             /\ chunks' = [chunks EXCEPT ![c] = @ + 1]
             /\ len' = [len EXCEPT ![c] = PerChunk(c) - 1]
    <2>1. PICK q \in Nat : q = PerChunk(c)
      BY PerChunkNat
    <2>2. PICK n \in Nat : n = chunks[c]
      BY <1>1
    <2>3. (n + 1) * q = n * q + q
      OBVIOUS
    <2>4. chunks'[c] = n + 1 /\ len'[c] = q - 1 /\ q - 1 \in Nat
      BY <1>4, <2>1, <2>2 DEF TypeOK
    <2>5. len'[c] + held[c] + self[c] + missing[c] + 1 = chunks'[c] * PerChunk(c)
      BY <1>1, <1>2, <1>4, <2>1, <2>2, <2>3, <2>4
    <2> QED
      BY <1>4, <2>1, <2>4, <2>5 DEF TypeOK
  <1> QED
    BY <1>3, <1>4 DEF TakeObject

LEMMA NextIInv == IInv /\ [Next]_vars => IInv'
  <1> SUFFICES ASSUME IInv, [Next]_vars PROVE IInv'
    OBVIOUS
  <1> USE DEF IInv
  <1>1. ASSUME NEW c \in Classes, Alloc(c) PROVE IInv'
    <2>1. TypeOK'
      BY <1>1, TakeObjectStep DEF Alloc, TypeOK
    <2>2. ASSUME NEW d \in Classes
          PROVE  len'[d] + held'[d] + self'[d] + missing'[d] = chunks'[d] * PerChunk(d)
      <3>1. CASE d = c
        <4>1. /\ len'[c] + held[c] + self[c] + missing[c] + 1 = chunks'[c] * PerChunk(c)
              /\ held'[c] = held[c] + 1 /\ self'[c] = self[c] /\ missing'[c] = missing[c]
              /\ len'[c] \in Nat /\ held[c] \in Nat /\ self[c] \in Nat /\ missing[c] \in Nat
          BY <1>1, <2>1, TakeObjectStep DEF Alloc, TypeOK
        <4> QED
          BY <3>1, <4>1
      <3>2. CASE d # c
        BY <1>1, <3>2, TakeObjectStep DEF Alloc, TypeOK, ObjectsConserved
      <3> QED
        BY <3>1, <3>2
    <2> QED
      BY <1>1, <2>1, <2>2 DEF Alloc, ObjectsConserved, NeverFreedEarly
  <1>2. ASSUME NEW c \in Classes, SelfAlloc(c) PROVE IInv'
    <2>1. TypeOK'
      BY <1>2, TakeObjectStep DEF SelfAlloc, TypeOK
    <2>2. ASSUME NEW d \in Classes
          PROVE  len'[d] + held'[d] + self'[d] + missing'[d] = chunks'[d] * PerChunk(d)
      <3>1. CASE d = c
        <4>1. /\ len'[c] + held[c] + self[c] + missing[c] + 1 = chunks'[c] * PerChunk(c)
              /\ self'[c] = self[c] + 1 /\ held'[c] = held[c] /\ missing'[c] = missing[c]
              /\ len'[c] \in Nat /\ held[c] \in Nat /\ self[c] \in Nat /\ missing[c] \in Nat
          BY <1>2, <2>1, TakeObjectStep DEF SelfAlloc, TypeOK
        <4> QED
          BY <3>1, <4>1
      <3>2. CASE d # c
        BY <1>2, <3>2, TakeObjectStep DEF SelfAlloc, TypeOK, ObjectsConserved
      <3> QED
        BY <3>1, <3>2
    <2> QED
      BY <1>2, <2>1, <2>2 DEF SelfAlloc, ObjectsConserved, NeverFreedEarly
  <1>3. ASSUME NEW c \in Classes, Dealloc(c) PROVE IInv'
    <2>1. TypeOK'
      BY <1>3 DEF Dealloc, TypeOK
    <2>2. \A d \in Classes : len'[d] + held'[d] + self'[d] = len[d] + held[d] + self[d]
      BY <1>3 DEF Dealloc, TypeOK
    <2> QED
      BY <1>3, <2>1, <2>2 DEF Dealloc, ObjectsConserved, NeverFreedEarly, PerChunk
  <1>4. ASSUME NEW c \in Classes, SelfDealloc(c) PROVE IInv'
    <2>1. TypeOK'
      BY <1>4 DEF SelfDealloc, TypeOK
    <2>2. \A d \in Classes : len'[d] + held'[d] + self'[d] = len[d] + held[d] + self[d]
      BY <1>4 DEF SelfDealloc, TypeOK
    <2> QED
      BY <1>4, <2>1, <2>2 DEF SelfDealloc, ObjectsConserved, NeverFreedEarly, PerChunk
  <1>5. CASE AllocExtraLarge \/ DeallocExtraLarge
    BY <1>5 DEF AllocExtraLarge, DeallocExtraLarge, TypeOK, ObjectsConserved, NeverFreedEarly, PerChunk
  <1>6. CASE TryFreeAllMemory
    <2>1. TypeOK' /\ ObjectsConserved'
      BY <1>6 DEF TryFreeAllMemory, TypeOK, ObjectsConserved, PerChunk
    <2>2. ASSUME NEW c \in Classes PROVE held[c] = 0
      <3>1. /\ len[c] + held[c] + self[c] + missing[c] = chunks[c] * PerChunk(c)
            /\ ObjectsAllocated(c) = len[c] + self[c]
            /\ len[c] \in Nat /\ held[c] \in Nat /\ self[c] \in Nat /\ missing[c] \in Nat
        BY <1>6 DEF TryFreeAllMemory, MayBeFreed, TypeOK, ObjectsConserved
      <3>2. chunks[c] * PerChunk(c) <= ObjectsAllocated(c)
        BY CountNotBelow
      <3> QED
        BY <3>1, <3>2
    <2> QED
      BY <1>6, <2>1, <2>2 DEF TryFreeAllMemory, NeverFreedEarly
  <1>7. ASSUME NEW c \in Classes, ReserveFails(c) PROVE IInv'
    <2>1. PICK q \in Nat : q = PerChunk(c)
      BY PerChunkNat
    <2>2. TypeOK'
      BY <1>7, <2>1 DEF ReserveFails, TypeOK
    <2>3. ASSUME NEW d \in Classes
          PROVE  len'[d] + held'[d] + self'[d] + missing'[d] = chunks'[d] * PerChunk(d)
      <3>1. CASE d = c
        <4>1. PICK n \in Nat : n = chunks[c]
          BY DEF TypeOK
        <4>2. (n + 1) * q = n * q + q
          OBVIOUS
        <4>3. /\ len[c] + held[c] + self[c] + missing[c] = n * q
              /\ len[c] \in Nat /\ held[c] \in Nat /\ self[c] \in Nat /\ missing[c] \in Nat
          BY <2>1, <4>1 DEF ObjectsConserved, TypeOK
        <4>4. /\ chunks'[c] = n + 1 /\ missing'[c] = missing[c] + q
              /\ len' = len /\ held' = held /\ self' = self
          BY <1>7, <2>1, <4>1 DEF ReserveFails, TypeOK
        <4> QED
          BY <2>1, <3>1, <4>2, <4>3, <4>4
      <3>2. CASE d # c
        BY <1>7, <3>2 DEF ReserveFails, TypeOK, ObjectsConserved
      <3> QED
        BY <3>1, <3>2
    <2> QED
      BY <1>7, <2>2, <2>3 DEF ReserveFails, ObjectsConserved, NeverFreedEarly
  <1>8. CASE UNCHANGED vars
    BY <1>8 DEF vars, TypeOK, ObjectsConserved, NeverFreedEarly, PerChunk
  <1> QED
    BY <1>1, <1>2, <1>3, <1>4, <1>5, <1>6, <1>7, <1>8 DEF Next

(* The inductive invariant holds in every reachable state.                 *)
THEOREM Invariance == Spec => []IInv
  <1>1. Init => IInv
    <2> SUFFICES ASSUME Init PROVE IInv
      OBVIOUS
    <2>1. TypeOK /\ NeverFreedEarly
      BY DEF Init, TypeOK, NeverFreedEarly
    <2>2. ASSUME NEW c \in Classes PROVE len[c] + held[c] + self[c] + missing[c] = chunks[c] * PerChunk(c)
      BY PerChunkNat DEF Init
    <2> QED
      BY <2>1, <2>2 DEF IInv, ObjectsConserved
  <1> QED
    BY <1>1, NextIInv, PTL DEF Spec

(* The free, the held, the own and the missing objects of a size are all   *)
(* that its chunks were carved into, through every failure of a vector.    *)
THEOREM Conservation == Spec => []ObjectsConserved
  <1>1. IInv => ObjectsConserved
    BY DEF IInv
  <1> QED
    BY <1>1, Invariance, PTL

(* For every chunk and object size, regions are unmapped only when nothing *)
(* is held: rounding in InfoForSizeIter can only make objects_used larger. *)
THEOREM FreedOnlyWhenHome == Spec => []NeverFreedEarly
  <1>1. IInv => NeverFreedEarly
    BY DEF IInv
  <1> QED
    BY <1>1, Invariance, PTL

(* objects_allocated - object_vec.len() never underflows.                  *)
THEOREM NoUnderflow == Spec => []UsedNotBelowInUse
  <1>1. IInv => UsedNotBelowInUse
    <2> SUFFICES ASSUME IInv, NEW c \in Classes
                 PROVE  len[c] + held[c] + self[c] <= ObjectsAllocated(c)
      BY DEF UsedNotBelowInUse
    <2>1. /\ chunks[c] * PerChunk(c) <= ObjectsAllocated(c)
          /\ ObjectsAllocated(c) \in Nat
      BY CountNotBelow DEF IInv
    <2>2. /\ len[c] + held[c] + self[c] + missing[c] = chunks[c] * PerChunk(c)
          /\ len[c] \in Nat /\ held[c] \in Nat /\ self[c] \in Nat /\ missing[c] \in Nat
      BY DEF IInv, TypeOK, ObjectsConserved
    <2> QED
      BY <2>1, <2>2
  <1> QED
    BY <1>1, Invariance, PTL

(* When the size of the objects divides the size of their chunks, the test *)
(* of try_free_all_memory passes if and only if nothing is held and every  *)
(* chunk was carved.                                                       *)
THEOREM ExactWhenDividing == Spec => []TestIsExact
  <1>1. IInv => TestIsExact
    <2> SUFFICES ASSUME IInv, NEW c \in Classes, ChunkSize[c] % ElemSize[c] = 0
                 PROVE  MayBeFreed(c) <=> held[c] + missing[c] = 0
      BY DEF TestIsExact
    <2>1. /\ len[c] + held[c] + self[c] + missing[c] = chunks[c] * PerChunk(c)
          /\ len[c] \in Nat /\ held[c] \in Nat /\ self[c] \in Nat /\ missing[c] \in Nat
      BY DEF IInv, TypeOK, ObjectsConserved
    <2>2. chunks[c] * PerChunk(c) = ObjectsAllocated(c)
      BY CountExact DEF IInv
    <2> QED
      BY <2>1, <2>2 DEF MayBeFreed
  <1> QED
    BY <1>1, Invariance, PTL
=============================================================================
