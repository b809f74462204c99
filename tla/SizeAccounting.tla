--------------------------- MODULE SizeAccounting ----------------------------
(***************************************************************************)
(* How an allocator decides that all its memory has come back:             *)
(* try_free_all_memory and the InfoForSize it computes for each size from  *)
(* the number of chunks and the length of the vector of free objects.      *)
(*                                                                         *)
(* A size of the common table and one of the large table differ only in    *)
(* the size of their chunks, so classes are just names here.  Objects that *)
(* are travelling between threads count as held.                           *)
(***************************************************************************)
EXTENDS Naturals

CONSTANTS Classes,
          ChunkSize,   \* ChunkSize[c]: COMMON_CHUNK_SIZE or LARGE_CHUNK_SIZE
          ElemSize,    \* ElemSize[c]: the size of an object
          MaxChunks,   \* bound on the chunks of a class
          MaxSelf,     \* bound on the objects the allocator keeps for itself
          MaxSizes,    \* bound on the extra-large objects counted
          MayFail      \* the limit may be reached when a vector has to grow

ASSUME SizesAssumption ==
  /\ ChunkSize \in [Classes -> Nat \ {0}]
  /\ ElemSize \in [Classes -> Nat \ {0}]
  /\ MaxChunks \in Nat /\ MaxSelf \in Nat /\ MaxSizes \in Nat
  /\ MayFail \in BOOLEAN

VARIABLES
  chunks,  \* chunks[c]: the length of the chunk table's vector
  len,     \* len[c]: the length of the object table's vector
  held,    \* held[c]: objects the program has not given back
  self,    \* self[c]: objects used by the allocator's own structures
  missing, \* missing[c]: objects of chunks that are in the table and not carved
  sizes,   \* extra-large objects in allocated_large_sizes
  freed    \* the regions have been unmapped

vars == <<chunks, len, held, self, missing, sizes, freed>>

PerChunk(c) == ChunkSize[c] \div ElemSize[c]

TypeOK ==
  /\ chunks \in [Classes -> Nat]
  /\ len \in [Classes -> Nat]
  /\ held \in [Classes -> Nat]
  /\ self \in [Classes -> Nat]
  /\ missing \in [Classes -> Nat]
  /\ sizes \in Nat
  /\ freed \in BOOLEAN

Init ==
  /\ chunks = [c \in Classes |-> 0]
  /\ len = [c \in Classes |-> 0]
  /\ held = [c \in Classes |-> 0]
  /\ self = [c \in Classes |-> 0]
  /\ missing = [c \in Classes |-> 0]
  /\ sizes = 0
  /\ freed = FALSE

(* Mistaken: the object handed out is also pushed to the vector.           *)
TakeObjectTwice(c) ==
  \/ /\ len[c] > 0
     /\ len' = [len EXCEPT ![c] = @ - 1]
     /\ UNCHANGED chunks
  \/ /\ len[c] = 0 /\ chunks[c] < MaxChunks /\ PerChunk(c) > 0
     /\ chunks' = [chunks EXCEPT ![c] = @ + 1]
     /\ len' = [len EXCEPT ![c] = PerChunk(c)]

(* An object leaves the vector; an empty one is refilled from a new chunk. *)
TakeObject(c) ==
  \/ /\ len[c] > 0
     /\ len' = [len EXCEPT ![c] = @ - 1]
     /\ UNCHANGED chunks
  \/ /\ len[c] = 0 /\ chunks[c] < MaxChunks /\ PerChunk(c) > 0
     /\ chunks' = [chunks EXCEPT ![c] = @ + 1]
     /\ len' = [len EXCEPT ![c] = PerChunk(c) - 1]

Alloc(c) ==
  /\ ~freed
  /\ TakeObject(c)
  /\ held' = [held EXCEPT ![c] = @ + 1]
  /\ UNCHANGED <<self, missing, sizes, freed>>

(* The chunk has been pushed to the table when vec.reserve fails: None is  *)
(* returned, and the chunk stays.                                          *)
ReserveFails(c) ==
  /\ ~freed
  /\ MayFail
  /\ len[c] = 0 /\ chunks[c] < MaxChunks
  /\ chunks' = [chunks EXCEPT ![c] = @ + 1]
  /\ missing' = [missing EXCEPT ![c] = @ + PerChunk(c)]
  /\ UNCHANGED <<len, held, self, sizes, freed>>

Dealloc(c) ==
  /\ ~freed
  /\ held[c] > 0
  /\ held' = [held EXCEPT ![c] = @ - 1]
  /\ len' = [len EXCEPT ![c] = @ + 1]
  /\ UNCHANGED <<chunks, self, missing, sizes, freed>>

SelfAlloc(c) ==
  /\ ~freed
  /\ self[c] < MaxSelf
  /\ TakeObject(c)
  /\ self' = [self EXCEPT ![c] = @ + 1]
  /\ UNCHANGED <<held, missing, sizes, freed>>

SelfDealloc(c) ==
  /\ ~freed
  /\ self[c] > 0
  /\ self' = [self EXCEPT ![c] = @ - 1]
  /\ len' = [len EXCEPT ![c] = @ + 1]
  /\ UNCHANGED <<chunks, held, missing, sizes, freed>>

AllocExtraLarge ==
  /\ ~freed
  /\ sizes < MaxSizes
  /\ sizes' = sizes + 1
  /\ UNCHANGED <<chunks, len, held, self, missing, freed>>

DeallocExtraLarge ==
  /\ ~freed
  /\ sizes > 0
  /\ sizes' = sizes - 1
  /\ UNCHANGED <<chunks, len, held, self, missing, freed>>

(* InfoForSizeIter::next.                                                  *)
ObjectsAllocated(c) == (ChunkSize[c] * chunks[c]) \div ElemSize[c]
(* Mistaken: the allocator's own objects count as used.                    *)
MayBeFreedIfAllInVector(c) == ObjectsAllocated(c) = len[c]
MayBeFreed(c) == ObjectsAllocated(c) = len[c] + self[c]

(* Mistaken: the iteration ends with the first size that may be freed.     *)
TryFreeAfterOneSize ==
  /\ ~freed
  /\ \E c \in Classes : MayBeFreed(c)
  /\ sizes = 0
  /\ freed' = TRUE
  /\ UNCHANGED <<chunks, len, held, self, missing, sizes>>

(* Ok, and the regions are unmapped.  (With an extra-large object in the   *)
(* map, which is iterated last, Ok is returned and nothing is done.)       *)
TryFreeAllMemory ==
  /\ ~freed
  /\ \A c \in Classes : MayBeFreed(c)
  /\ sizes = 0
  /\ freed' = TRUE
  /\ UNCHANGED <<chunks, len, held, self, missing, sizes>>

Next ==
  \/ \E c \in Classes : \/ Alloc(c) \/ Dealloc(c) \/ ReserveFails(c)
                        \/ SelfAlloc(c) \/ SelfDealloc(c)
  \/ AllocExtraLarge \/ DeallocExtraLarge \/ TryFreeAllMemory

Spec == Init /\ [][Next]_vars

-----------------------------------------------------------------------------
(* Every object of every carved chunk is free, held, or the allocator's    *)
(* own.                                                                    *)
ObjectsConserved ==
  \A c \in Classes :
    len[c] + held[c] + self[c] + missing[c] = chunks[c] * PerChunk(c)

(* The regions are never unmapped while the program, or a node on its way, *)
(* still has an object in them: objects_used = allocated_for_self_objects  *)
(* for every size does imply that nothing is held.                         *)
NeverFreedEarly == freed => \A c \in Classes : held[c] = 0

(* objects_allocated - object_vec.len() is a subtraction of usize, and     *)
(* objects_used the sum of what is held and what the allocator uses: it    *)
(* never wraps below what is in use.                                       *)
UsedNotBelowInUse ==
  \A c \in Classes : len[c] + held[c] + self[c] <= ObjectsAllocated(c)

(* When the program has given everything back, try_free_all_memory         *)
(* recognises it, and the regions are unmapped.                            *)
FreeableWhenHome ==
  (\A c \in Classes : held[c] = 0) => \A c \in Classes : MayBeFreed(c)

(* For a size that divides its chunk the test is exact, neither early nor  *)
(* late: it passes when nothing is held and every chunk has been carved,   *)
(* whatever the allocator itself uses.                                     *)
TestIsExact ==
  \A c \in Classes : ChunkSize[c] % ElemSize[c] = 0 =>
    (MayBeFreed(c) <=> held[c] + missing[c] = 0)

(* The inductive invariant: NeverFreedEarly needs to know where the        *)
(* objects are.                                                            *)
IInv == TypeOK /\ ObjectsConserved /\ NeverFreedEarly
=============================================================================
