---------------------------- MODULE ChunkManager -----------------------------
(***************************************************************************)
(* ChunkManager and the regions it cuts into chunks, with the slow paths   *)
(* of allocation that take a chunk, carve it and write its metadata.       *)
(*                                                                         *)
(* A region is a row of common chunks, its units.  Unit 0 is the metadata, *)
(* the rest of the first large chunk is common chunks, and then come large *)
(* chunks.  While a call holds a chunk a vector may have to grow, and the  *)
(* self-allocation for it takes chunks too: the calls form a stack.        *)
(***************************************************************************)
EXTENDS Naturals, FiniteSets, SequencesExt

CONSTANTS Regions,               \* regions that may be mapped
          COMMON_CHUNK_SIZE,
          COMMON_CHUNKS_IN_LARGE_CHUNK,
          LARGE_CHUNKS_IN_REGION,
          CommonSizes,           \* sizes of objects asked for
          LargeSizes,
          MaxDepth,              \* bound on nested calls
          Zero                   \* metadata never written

LARGE_CHUNK_SIZE == COMMON_CHUNK_SIZE * COMMON_CHUNKS_IN_LARGE_CHUNK
REST_COMMON_CHUNKS_IN_REGION == COMMON_CHUNKS_IN_LARGE_CHUNK - 1
MAX_COMMON_CHUNKS_IN_REGION ==
  LARGE_CHUNKS_IN_REGION * COMMON_CHUNKS_IN_LARGE_CHUNK + REST_COMMON_CHUNKS_IN_REGION

ASSUME RegionAssumption ==
  /\ COMMON_CHUNK_SIZE \in Nat \ {0}
  /\ COMMON_CHUNKS_IN_LARGE_CHUNK \in Nat \ {0}
  /\ LARGE_CHUNKS_IN_REGION \in Nat \ {0}
  /\ CommonSizes \subseteq 1 .. COMMON_CHUNK_SIZE
  /\ LargeSizes \subseteq 1 .. LARGE_CHUNK_SIZE
  /\ MaxDepth \in Nat
  /\ Zero \notin CommonSizes \union LargeSizes

VARIABLES
  occupied,             \* number_of_common_chunks_occupied of the regions that are mapped
  free_common_chunks,   \* stacks of chunks
  free_large_chunks,
  calls,                \* the stack of calls that hold a chunk
  carved,               \* chunks whose objects circulate, in the chunk tables
  metadata              \* metadata[r][u]: the size whose vector objects in u go to

vars == <<occupied, free_common_chunks, free_large_chunks, calls, carved, metadata>>

Common(r, u) == [region |-> r, unit |-> u, width |-> 1]
Large(r, u) == [region |-> r, unit |-> u, width |-> COMMON_CHUNKS_IN_LARGE_CHUNK]
Units(c) == {<<c.region, u>> : u \in c.unit .. c.unit + c.width - 1}
Sizes == CommonSizes \union LargeSizes

(* parse_region                                                            *)
CommonChunks(r) == [i \in 1 .. REST_COMMON_CHUNKS_IN_REGION |-> Common(r, i)]
LargeChunks(r) ==
  [i \in 1 .. LARGE_CHUNKS_IN_REGION |-> Large(r, i * COMMON_CHUNKS_IN_LARGE_CHUNK)]

SplitLargeChunkToCommon(c) == [i \in 1 .. c.width |-> Common(c.region, c.unit + i - 1)]

(* The units whose metadata the write for a chunk at unit u reaches (the   *)
(* last ones may lie beyond the last chunk, in the metadata's own unit).   *)
MetadataUnits == 0 .. (LARGE_CHUNKS_IN_REGION + 2) * COMMON_CHUNKS_IN_LARGE_CHUNK

Init ==
  /\ occupied = <<>>
  /\ free_common_chunks = <<>>
  /\ free_large_chunks = <<>>
  /\ calls = <<>>
  /\ carved = {}
  /\ metadata = [r \in Regions |-> [u \in MetadataUnits |-> Zero]]

Call(c, at, size, slow) == [chunk |-> c, at |-> at, size |-> size, slow |-> slow]
Top == Last(calls)
Return == Front(calls)

(* init_metadata_for_common_chunk, init_metadata_for_large_chunk: as many  *)
(* entries as the chunk has units, from the unit of the pointer given.     *)
InitMetadata(meta, c, unit, size) ==
  [meta EXCEPT ![c.region] =
     [u \in MetadataUnits |-> IF u \in unit .. unit + c.width - 1 THEN size ELSE @[u]]]

-----------------------------------------------------------------------------
(* try_get_common_chunk, try_get_large_chunk: the way of self-allocations, *)
(* and the first attempt of every other allocation.                        *)
GetCommonChunk(size) ==
  /\ Len(calls) < MaxDepth
  /\ free_common_chunks # <<>>
  /\ free_common_chunks' = Front(free_common_chunks)
  /\ calls' = Append(calls, Call(Last(free_common_chunks), "carve", size, FALSE))
  /\ UNCHANGED <<occupied, free_large_chunks, carved, metadata>>

GetLargeChunk(size) ==
  /\ Len(calls) < MaxDepth
  /\ free_large_chunks # <<>>
  /\ free_large_chunks' = Front(free_large_chunks)
  /\ calls' = Append(calls, Call(Last(free_large_chunks), "carve", size, FALSE))
  /\ UNCHANGED <<occupied, free_common_chunks, carved, metadata>>

(* get_common_chunk_slow has a large chunk to split.                       *)
GetCommonChunkSlow(size) ==
  /\ calls = <<>>
  /\ free_common_chunks = <<>> /\ free_large_chunks # <<>>
  /\ free_large_chunks' = Front(free_large_chunks)
  /\ calls' = <<Call(Last(free_large_chunks), "split", size, TRUE)>>
  /\ UNCHANGED <<occupied, free_common_chunks, carved, metadata>>

(* handle_state: the region is recorded, the chunks the State used for the *)
(* allocator's own vectors (the last n common ones, and perhaps the last   *)
(* large one) go to the tables, and the others to the stacks.              *)
HandleState(r, larges, n, size, own) ==
  LET commons == CommonChunks(r)
      used == {commons[i] : i \in Len(commons) - n + 1 .. Len(commons)}
      last == {Last(larges) : s \in own}
      meta == [metadata EXCEPT ![r] =
                 [u \in MetadataUnits |->
                    IF \E c \in used : u = c.unit THEN size
                    ELSE IF \E c \in last : <<r, u>> \in Units(c)
                         THEN CHOOSE s \in own : TRUE ELSE Zero]]
  IN /\ occupied' = [q \in DOMAIN occupied \union {r} |->
                       IF q = r THEN MAX_COMMON_CHUNKS_IN_REGION ELSE occupied[q]]
     /\ carved' = carved \union {[chunk |-> c, size |-> size] : c \in used}
                         \union {[chunk |-> c, size |-> s] : c \in last, s \in own}
     /\ free_common_chunks' =
          free_common_chunks \o SubSeq(commons, 1, Len(commons) - n)
     /\ free_large_chunks' =
          free_large_chunks \o (IF own = {} THEN larges ELSE Front(larges))
     /\ metadata' = meta

StateOf(r, larges) ==
  /\ r \notin DOMAIN occupied
  /\ \E n \in 0 .. REST_COMMON_CHUNKS_IN_REGION, size \in CommonSizes :
       \E own \in {{}} \union {{s} : s \in LargeSizes} :
         /\ own # {} => larges # <<>>
         /\ HandleState(r, larges, n, size, own)

(* alloc_large_chunk, called for a large size or to be split.              *)
AllocLargeChunk(r, at, size) ==
  /\ calls = <<>>
  /\ free_large_chunks = <<>>
  /\ \/ at = "split" /\ size \in CommonSizes /\ free_common_chunks = <<>>
     \/ at = "carve" /\ size \in LargeSizes
  /\ StateOf(r, Front(LargeChunks(r)))
  /\ calls' = <<Call(Last(LargeChunks(r)), at, size, TRUE)>>

(* slow_self_alloc_ without a State: a region for the allocator's vectors. *)
SlowSelfAlloc(r) ==
  /\ free_common_chunks = <<>> \/ free_large_chunks = <<>>
  /\ StateOf(r, LargeChunks(r))
  /\ UNCHANGED calls

(* get_common_chunk_slow: meanwhile common chunks have come in.            *)
PutBackLarge ==
  /\ calls # <<>> /\ Top.at = "split"
  /\ free_common_chunks # <<>>
  /\ free_common_chunks' = Front(free_common_chunks)
  /\ free_large_chunks' = Append(free_large_chunks, Top.chunk)
  /\ calls' = Append(Return, Call(Last(free_common_chunks), "carve", Top.size, TRUE))
  /\ UNCHANGED <<occupied, carved, metadata>>

BeginSplit ==
  /\ calls # <<>> /\ Top.at = "split"
  /\ free_common_chunks = <<>>
  /\ calls' = Append(Return, [Top EXCEPT !.at = "extend"])
  /\ UNCHANGED <<occupied, free_common_chunks, free_large_chunks, carved, metadata>>

(* Mistaken: the chunk that is returned stays in the slice.                *)
SplitLargeKeepsLast ==
  LET common_chunks == SplitLargeChunkToCommon(Top.chunk) IN
  /\ calls # <<>> /\ Top.at = "extend"
  /\ free_common_chunks' = free_common_chunks \o common_chunks
  /\ calls' = Append(Return, Call(Last(common_chunks), "carve", Top.size, TRUE))
  /\ UNCHANGED <<occupied, free_large_chunks, carved, metadata>>

(* extend_from_slice has room; the last chunk is the one returned.         *)
SplitLarge ==
  LET common_chunks == SplitLargeChunkToCommon(Top.chunk) IN
  /\ calls # <<>> /\ Top.at = "extend"
  /\ free_common_chunks' = free_common_chunks \o Front(common_chunks)
  /\ calls' = Append(Return, Call(Last(common_chunks), "carve", Top.size, TRUE))
  /\ UNCHANGED <<occupied, free_large_chunks, carved, metadata>>

(* A vector cannot grow: None is returned, and the chunk is in no list.    *)
LoseChunk ==
  /\ calls # <<>> /\ Top.at \in {"extend", "carve"}
  /\ calls' = Return
  /\ UNCHANGED <<occupied, free_common_chunks, free_large_chunks, carved, metadata>>

(* Mistaken: curr has passed the last object too.                          *)
PastLastObjectUnit(c, size) ==
  c.unit + (((c.width * COMMON_CHUNK_SIZE) \div size) * size) \div COMMON_CHUNK_SIZE

(* curr, after the loop that pushed all objects but the last one.          *)
LastObjectUnit(c, size) ==
  c.unit + ((((c.width * COMMON_CHUNK_SIZE) \div size) - 1) * size) \div COMMON_CHUNK_SIZE

(* The end of alloc_common_slow and alloc_large_slow.                      *)
Carve ==
  /\ calls # <<>> /\ Top.at = "carve"
  /\ carved' = carved \union {[chunk |-> Top.chunk, size |-> Top.size]}
  /\ metadata' = InitMetadata(metadata, Top.chunk,
                              LastObjectUnit(Top.chunk, Top.size), Top.size)
  /\ calls' = Return
  /\ UNCHANGED <<occupied, free_common_chunks, free_large_chunks>>

(* Mistaken: free_large for either kind of chunk.                          *)
FreeChunkAsLarge ==
  LET r == Top.chunk.region
      left == occupied[r] - COMMON_CHUNKS_IN_LARGE_CHUNK IN
  /\ calls # <<>> /\ Top.at = "carve" /\ Top.slow
  /\ occupied' = IF left = 0 THEN [q \in DOMAIN occupied \ {r} |-> occupied[q]]
                 ELSE [occupied EXCEPT ![r] = left]
  /\ calls' = Return
  /\ UNCHANGED <<free_common_chunks, free_large_chunks, carved, metadata>>

(* "Maybe we updated the allocator": free_common, free_large.              *)
FreeChunk ==
  LET r == Top.chunk.region
      left == occupied[r] - Top.chunk.width IN
  /\ calls # <<>> /\ Top.at = "carve" /\ Top.slow
  /\ occupied' = IF left = 0 THEN [q \in DOMAIN occupied \ {r} |-> occupied[q]]
                 ELSE [occupied EXCEPT ![r] = left]
  /\ calls' = Return
  /\ UNCHANGED <<free_common_chunks, free_large_chunks, carved, metadata>>

FreeAllMemory ==
  /\ calls = <<>>
  /\ occupied # <<>>
  /\ occupied' = <<>>
  /\ free_common_chunks' = <<>>
  /\ free_large_chunks' = <<>>
  /\ carved' = {}
  /\ metadata' = [r \in Regions |-> [u \in MetadataUnits |-> Zero]]
  /\ UNCHANGED calls

Next ==
  \/ \E size \in CommonSizes : GetCommonChunk(size) \/ GetCommonChunkSlow(size)
  \/ \E size \in LargeSizes : GetLargeChunk(size)
  \/ \E r \in Regions : \/ \E at \in {"split", "carve"}, size \in Sizes :
                             AllocLargeChunk(r, at, size)
                        \/ SlowSelfAlloc(r)
  \/ PutBackLarge \/ BeginSplit \/ SplitLarge \/ LoseChunk \/ Carve \/ FreeChunk
  \/ FreeAllMemory

Spec == Init /\ [][Next]_vars

-----------------------------------------------------------------------------
(* All the chunks there are, once for every place a chunk is in.           *)
Places ==
  {[place |-> <<"common", i>>, chunk |-> free_common_chunks[i]] :
     i \in DOMAIN free_common_chunks}
  \union {[place |-> <<"large", i>>, chunk |-> free_large_chunks[i]] :
            i \in DOMAIN free_large_chunks}
  \union {[place |-> <<"call", i>>, chunk |-> calls[i].chunk] : i \in DOMAIN calls}
  \union {[place |-> <<"carved", k.size>>, chunk |-> k.chunk] : k \in carved}

(* No byte belongs to two chunks, and none to a chunk and to the metadata  *)
(* of its region or to a region that is not mapped: whatever is put back,  *)
(* split or taken by a nested self-allocation while a call holds a chunk,  *)
(* memory is carved once.                                                  *)
ChunksDisjoint ==
  \A p \in Places :
    /\ p.chunk.region \in DOMAIN occupied
    /\ Units(p.chunk) \subseteq {p.chunk.region} \X (1 .. MAX_COMMON_CHUNKS_IN_REGION)
    /\ \A q \in Places \ {p} : Units(p.chunk) \intersect Units(q.chunk) = {}

(* A region is counted as occupied for at least the chunks that are in     *)
(* use, so that giving one up never unmaps what others use.                *)
CountCoversUse ==
  \A r \in DOMAIN occupied :
    Cardinality(UNION {Units(p.chunk) : p \in {q \in Places : q.chunk.region = r}})
      <= occupied[r]

(* The metadata a deallocation finds for an object, whichever unit of its  *)
(* chunk it lies in, names the size the chunk was carved for.              *)
MetadataInPlace ==
  \A k \in carved : \A u \in Units(k.chunk) : metadata[u[1]][u[2]] = k.size

-----------------------------------------------------------------------------
(* An inductive invariant: the counts have to cover what is in use for the *)
(* region of a chunk that is given up not to be unmapped under others, and *)
(* chunks have to be disjoint for the counts to cover what is left.        *)
Chunk == [region : Regions, unit : Nat, width : Nat \ {0}]
Held == [chunk : Chunk, at : {"carve", "split", "extend"}, size : Sizes, slow : BOOLEAN]

TypeOK ==
  /\ occupied \in [DOMAIN occupied -> Nat] /\ DOMAIN occupied \subseteq Regions
  /\ free_common_chunks \in Seq(Chunk)
  /\ free_large_chunks \in Seq(Chunk)
  /\ calls \in Seq(Held)
  /\ carved \subseteq [chunk : Chunk, size : Sizes]

IInv == TypeOK /\ ChunksDisjoint /\ CountCoversUse
=============================================================================
