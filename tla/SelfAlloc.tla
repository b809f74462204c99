------------------------------ MODULE SelfAlloc ------------------------------
(***************************************************************************)
(* How a thread-local allocator allocates its own memory from itself.      *)
(*                                                                         *)
(* All tables are vectors whose buffers are objects of the allocator.  To  *)
(* push an object may need a larger buffer, which is an object to take and *)
(* one to give back, which may need pushes to the same or other vectors.   *)
(* When no vector and no chunk is left, objects come from a State: a new   *)
(* region that is used directly and handed to the tables afterwards, by    *)
(* handle_state, which grows the tables out of the very State it empties.  *)
(*                                                                         *)
(* The calls are a stack of frames.  Pointers are numbers; a unit of       *)
(* memory is the size of a pointer, and 0 is null.                         *)
(***************************************************************************)
EXTENDS UsedObjects, FiniteSets, FiniteSetsExt, SequencesExt

CONSTANTS COMMON_CHUNK_SIZE, COMMON_CHUNKS_IN_LARGE_CHUNK, LARGE_CHUNKS_IN_REGION,
          COMMON_SIZE_MAX,
          Sizes,               \* the sizes that have a vector
          SIZE_OF_STATE, SIZE_OF_NLPM, SIZE_OF_REGION_VIEW,
          SizeOfTable,         \* SizeOfTable[k], k a class of sizes
          MAX_STATES,          \* what to_dealloc has room for
          Limits,              \* limits, in regions
          UserSizes, MaxUser, MaxOps

Classes == {"common", "large"}

LARGE_CHUNK_SIZE == COMMON_CHUNK_SIZE * COMMON_CHUNKS_IN_LARGE_CHUNK
REGION_SIZE == LARGE_CHUNK_SIZE * (LARGE_CHUNKS_IN_REGION + 1)

Define(size) == IF size <= COMMON_SIZE_MAX THEN "common" ELSE "large"
ChunkSize(size) == IF Define(size) = "common" THEN COMMON_CHUNK_SIZE ELSE LARGE_CHUNK_SIZE

(* Every size fits into its chunk, and that of a State into one that has a *)
(* vector.                                                                 *)
ASSUME SelfAllocAssumption ==
  /\ COMMON_CHUNK_SIZE \in Nat \ {0}
  /\ COMMON_CHUNKS_IN_LARGE_CHUNK \in Nat \ {0, 1}
  /\ LARGE_CHUNKS_IN_REGION \in Nat \ {0, 1}
  /\ Sizes \subseteq Nat \ {0}
  /\ {SIZE_OF_NLPM} \union UserSizes \subseteq Sizes
  /\ SizeOfTable \in [Classes -> Sizes]
  /\ {COMMON_SIZE_MAX, MAX_STATES, MaxUser, MaxOps} \union Limits \subseteq Nat
  /\ {SIZE_OF_STATE, SIZE_OF_REGION_VIEW} \subseteq Nat \ {0}
  /\ \A size \in Sizes \union {SIZE_OF_STATE} : size <= ChunkSize(size)
  /\ \E size \in Sizes : SIZE_OF_STATE <= size

VARIABLES
  vecs,       \* the vectors: [ptr, cap, items]
  nlpm,       \* non_local_ptr_manager, a box
  table,      \* common_chunk_table and large_chunk_table, boxes
  chains,     \* the States that are being used: a stack of chains
  frames,     \* the stack of calls
  ret,        \* what the last call returned
  limit,      \* of the process, here of this allocator alone
  mapped,     \* the number of regions
  dropped,    \* chunks that are in no list any more
  user,       \* objects the program has
  panicked,
  ops         \* calls made by the program

vars == <<vecs, nlpm, table, chains, frames, ret, mapped, dropped, user, panicked, ops, limit>>

PerChunk(size) == ChunkSize(size) \div size
(* Beyond the largest size it is the size itself.                          *)
RecommendedSize(size) ==
  IF size = 0 \/ \A s \in Sizes : s < size THEN size
  ELSE CHOOSE s \in Sizes : s >= size /\ \A t \in Sizes : t >= size => s <= t
NextPowerOfTwo(n) ==
  LET double[p \in Nat] == IF p >= n THEN p ELSE double[2 * p] IN double[1]

(* The vectors: object_table, CommonChunkTable and LargeChunkTable by      *)
(* size, and the three of the chunk manager.                               *)
Objects(size) == <<"objects", size>>
Chunks(size) == <<"chunks", size>>
Regions == <<"regions", 0>>
FreeChunks(class) == <<class, 0>>
Vectors == {Objects(s) : s \in Sizes} \union {Chunks(s) : s \in Sizes}
             \union {Regions} \union {FreeChunks(c) : c \in Classes}
SizeOfElem(v) == IF v = Regions THEN SIZE_OF_REGION_VIEW ELSE 1

Null == [ptr |-> 0, cap |-> 0, items |-> <<>>]
BytesAllocated(v) == RecommendedSize(vecs[v].cap * SizeOfElem(v))
Size(v) == Len(vecs[v].items)

Pop(v) == [vecs EXCEPT ![v].items = Front(@)]

Nothing == [ptr |-> 0, grew |-> FALSE, err |-> FALSE]

Init ==
  /\ limit \in Limits
  /\ vecs = [v \in Vectors |-> Null]
  /\ nlpm = 0
  /\ table = [c \in Classes |-> 0]
  /\ chains = <<>>
  /\ frames = <<>>
  /\ ret = Nothing
  /\ mapped = 0
  /\ dropped = {}
  /\ user = {}
  /\ panicked = FALSE
  /\ ops = 0

-----------------------------------------------------------------------------
(* The State                                                               *)

Stride(from, step, n) == [i \in 1 .. n |-> from + (i - 1) * step]

(* State::from_region, parse_region                                        *)
FromRegion(region) ==
  [region |-> region, at |-> 0, used |-> [c \in Classes |-> <<>>],
   free |-> [common |-> Stride(region + COMMON_CHUNK_SIZE, COMMON_CHUNK_SIZE,
                               COMMON_CHUNKS_IN_LARGE_CHUNK - 1),
             large |-> Stride(region + LARGE_CHUNK_SIZE, LARGE_CHUNK_SIZE,
                              LARGE_CHUNKS_IN_REGION)]]

RegionAt(n) == n * REGION_SIZE
(* Mistaken: the last region of the limit is refused.                      *)
MayMapOneLess(m, counted) == counted => m + 1 < limit
MayMap(m, counted) == counted => m < limit

(* What State's functions work on: the chain from the first state on, and  *)
(* what changes besides.                                                   *)
Work(chain) == [chain |-> chain, mapped |-> mapped, dropped |-> dropped, owner |-> 0, ptr |-> 0]

PopChunk(w, i, class) ==
  [w EXCEPT !.owner = i, !.ptr = Last(w.chain[i].free[class]),
            !.chain[i].free[class] = Front(@)]

(* The end of alloc_size_slow: the chunk is recorded, its last object is   *)
(* the one that was asked for.                                             *)
UseChunk(w, size) ==
  IF w.owner = 0 THEN w
  ELSE [w EXCEPT !.chain[w.owner].used[Define(size)] =
                   Append(@, [size |-> size, ptr |-> w.ptr, slots |-> PerChunk(size) - 1]),
                 !.ptr = w.ptr + size * (PerChunk(size) - 1)]

(* Mistaken: the search does not go on to the next state.                  *)
HitsInFirst(chain, size) ==
  {h \in {1} \X DOMAIN chain[1].used[Define(size)] :
     LET used_chunk == chain[1].used[Define(size)][h[2]]
     IN used_chunk.size = size /\ used_chunk.slots # 0}

(* try_alloc_size: the first used chunk of the size with a free slot       *)
Hits(chain, size) ==
  {h \in UNION {{i} \X DOMAIN chain[i].used[Define(size)] : i \in DOMAIN chain} :
     LET used_chunk == chain[h[1]].used[Define(size)][h[2]]
     IN used_chunk.size = size /\ used_chunk.slots # 0}
(* Mistaken: number_of_free_slots is not lowered.                          *)
TakeSlotAgain(w, size, hits) ==
  LET h == CHOOSE h \in hits : \A g \in hits : h[1] < g[1] \/ (h[1] = g[1] /\ h[2] <= g[2])
      used_chunk == w.chain[h[1]].used[Define(size)][h[2]]
  IN IF hits = {} THEN [w EXCEPT !.ptr = 0]
     ELSE [w EXCEPT !.ptr = used_chunk.ptr + size * (used_chunk.slots - 1)]
TakeSlot(w, size, hits) ==
  LET h == CHOOSE h \in hits : \A g \in hits : h[1] < g[1] \/ (h[1] = g[1] /\ h[2] <= g[2])
      used_chunk == w.chain[h[1]].used[Define(size)][h[2]]
  IN IF hits = {} THEN [w EXCEPT !.ptr = 0]
     ELSE [w EXCEPT !.chain[h[1]].used[Define(size)][h[2]].slots = @ - 1,
                    !.ptr = used_chunk.ptr + size * (used_chunk.slots - 1)]
TryAllocSize(w, size) == TakeSlot(w, size, Hits(w.chain, size))

(* alloc_new_state_in: the memory for the State comes from the chain, or   *)
(* from the region of the new State itself.                                *)
InItself(state) ==
  UseChunk(PopChunk(Work(<<state>>), 1, Define(SIZE_OF_STATE)), SIZE_OF_STATE)
PlaceState(state, itself, w) ==
  [w EXCEPT !.mapped = @ + 1, !.owner = Len(w.chain) + 1,
            !.chain = Append(@, IF w.ptr # 0 THEN [state EXCEPT !.at = w.ptr]
                                ELSE [itself.chain[1] EXCEPT !.at = itself.ptr])]
NewStateFor(w, state) == PlaceState(state, InItself(state), TryAllocSize(w, SIZE_OF_STATE))
AllocNewStateIn(w, counted) ==
  IF MayMap(w.mapped, counted) THEN NewStateFor(w, FromRegion(RegionAt(w.mapped + 1)))
  ELSE [w EXCEPT !.owner = 0, !.ptr = 0]

(* The first state from i on that has a free chunk, or 0.                  *)
FirstWith(chain, i, class) ==
  LET have == {j \in i .. Len(chain) : chain[j].free[class] # <<>>}
  IN IF have = {} THEN 0 ELSE CHOOSE j \in have : \A k \in have : j <= k
PopFrom(w, class) == IF w.owner = 0 THEN w ELSE PopChunk(w, w.owner, class)

(* get_free_large_chunk_, called on the i-th state of the chain            *)
GetFreeLargeChunk(w, i, counted) ==
  LET j == FirstWith(w.chain, i, "large")
  IN IF j # 0 THEN PopChunk(w, j, "large") ELSE PopFrom(AllocNewStateIn(w, counted), "large")

(* The end of get_free_common_chunk, with a large chunk.  When it is that  *)
(* of a new state, which has common chunks of its own, it is not put back. *)
SplitOrDrop(got) ==
  LET split == Stride(got.ptr, COMMON_CHUNK_SIZE, COMMON_CHUNKS_IN_LARGE_CHUNK)
  IN IF got.chain[got.owner].free["common"] = <<>>
     THEN [got EXCEPT !.chain[got.owner].free["common"] = split]
     ELSE [got EXCEPT !.dropped = @ \union {[ptr |-> got.ptr, size |-> LARGE_CHUNK_SIZE]}]
GetBySplit(got) == IF got.owner = 0 THEN got ELSE PopFrom(SplitOrDrop(got), "common")
GetFreeCommonChunk(w, counted) ==
  LET j == FirstWith(w.chain, 1, "common")
  IN IF j # 0 THEN PopChunk(w, j, "common")
     ELSE GetBySplit(GetFreeLargeChunk(w, Len(w.chain), counted))

(* State::alloc_size, alloc_size_slow                                      *)
AllocSizeSlow(w, size, counted) ==
  UseChunk(IF Define(size) = "common" THEN GetFreeCommonChunk(w, counted)
           ELSE GetFreeLargeChunk(w, 1, counted), size)
OrSlow(try, w, size, counted) == IF try.ptr # 0 THEN try ELSE AllocSizeSlow(w, size, counted)
AllocSize(w, size, counted) == OrSlow(TryAllocSize(w, size), w, size, counted)

-----------------------------------------------------------------------------
(* The calls                                                               *)

Top == Last(frames)
At(f, at) == frames # <<>> /\ ~panicked /\ Top.f = f /\ Top.at = at

Goto(frame) == frames' = Append(Front(frames), frame) /\ ret' = Nothing
Call(frame, callee) == frames' = Front(frames) \o <<frame, callee>> /\ ret' = Nothing
Return(r) == frames' = Front(frames) /\ ret' = r
ReturnPtr(p) == Return([Nothing EXCEPT !.ptr = p])
ReturnErr == Return([Nothing EXCEPT !.err = TRUE])
Panic == panicked' = TRUE /\ ret' = Nothing /\ UNCHANGED <<vecs, nlpm, table, chains, frames, mapped, dropped, user, ops, limit>>

(* reserve, and then push or extend_from_slice when there is something to  *)
(* put.  st is the chain a State is taken from, 0 for None; counted says   *)
(* whether the limit is counted.                                           *)
Reserve(v, add, put, st, counted) ==
  [f |-> "reserve", at |-> "test", v |-> v, add |-> add, put |-> put, st |-> st,
   counted |-> counted, min_cap |-> 0, cap |-> 0]

(* self_dealloc, and dealloc of an own object: a push.                     *)
Dealloc(ptr, size, st) == Reserve(Objects(RecommendedSize(size)), 1, <<ptr>>, st, FALSE)

(* try_alloc of the program and self_alloc_ of the allocator's own.        *)
Alloc(size, st, counted, own) ==
  [f |-> "alloc", at |-> "pop", size |-> size, st |-> st, counted |-> counted, own |-> own,
   chunk |-> 0, large |-> 0]

Handle(k) == [f |-> "handle", at |-> "nlpm", k |-> k, phase |-> 0, todo |-> <<>>,
              more |-> FALSE, to_dealloc |-> <<>>]

-----------------------------------------------------------------------------
(* SelfAllocatedVec                                                        *)

(* alloc_with                                                              *)
AllocWith(frame, min_cap) ==
  LET size == RecommendedSize(NextPowerOfTwo(min_cap * SizeOfElem(frame.v)))
  IN Call([frame EXCEPT !.at = "got", !.cap = size \div SizeOfElem(frame.v)],
          Alloc(size, frame.st, frame.counted, TRUE))

(* The elements are written without looking at the capacity.               *)
Finish(vs, grew) ==
  /\ vecs' = [vs EXCEPT ![Top.v].items = @ \o Top.put]
  /\ Return([Nothing EXCEPT !.grew = grew])

MinCap == Size(Top.v) + Top.add

ReserveTest ==
  /\ At("reserve", "test")
  /\ IF vecs[Top.v].cap >= MinCap THEN Finish(vecs, FALSE)
     ELSE AllocWith(Top, MinCap) /\ UNCHANGED vecs
  /\ UNCHANGED <<nlpm, table, chains, mapped, dropped, user, panicked, ops, limit>>

(* reserve_slow after the allocation, which may have pushed to this vector *)
ReserveGot ==
  /\ At("reserve", "got")
  /\ LET old == vecs[Top.v]
         new == [vecs EXCEPT ![Top.v].ptr = ret.ptr, ![Top.v].cap = Top.cap]
     IN \/ /\ MinCap > Top.cap
           /\ IF ret.ptr = 0 THEN AllocWith(Top, MinCap)
              ELSE Call([Top EXCEPT !.at = "retry", !.min_cap = MinCap],
                        Dealloc(ret.ptr, Top.cap * SizeOfElem(Top.v), Top.st))
           /\ UNCHANGED vecs
        \/ /\ MinCap <= Top.cap /\ ret.ptr = 0
           /\ ReturnErr
           /\ UNCHANGED vecs
        \/ /\ MinCap <= Top.cap /\ ret.ptr # 0 /\ old.cap = 0
           /\ Finish(new, TRUE)
        \/ /\ MinCap <= Top.cap /\ ret.ptr # 0 /\ old.cap # 0
           /\ vecs' = new
           /\ Call([Top EXCEPT !.at = "freed"],
                   Dealloc(old.ptr, old.cap * SizeOfElem(Top.v), Top.st))
  /\ UNCHANGED <<nlpm, table, chains, mapped, dropped, user, panicked, ops, limit>>

ReserveRetry ==
  /\ At("reserve", "retry")
  /\ AllocWith(Top, Top.min_cap)
  /\ UNCHANGED <<vecs, nlpm, table, chains, mapped, dropped, user, panicked, ops, limit>>

(* ... and after the old buffer has been given back, which may have, too   *)
ReserveFreed ==
  /\ At("reserve", "freed")
  /\ IF MinCap > Top.cap THEN AllocWith(Top, MinCap) /\ UNCHANGED vecs
     ELSE Finish(vecs, TRUE)
  /\ UNCHANGED <<nlpm, table, chains, mapped, dropped, user, panicked, ops, limit>>

-----------------------------------------------------------------------------
(* Allocation: alloc_common, alloc_large, their slow paths, self_alloc_    *)

TopObjects == Objects(Top.size)
Class == Define(Top.size)
Chunk(ptr, class) ==
  [ptr |-> ptr, size |-> IF class = "common" THEN COMMON_CHUNK_SIZE ELSE LARGE_CHUNK_SIZE]

AllocPop ==
  /\ At("alloc", "pop")
  /\ IF vecs[TopObjects].items # <<>>
     THEN vecs' = Pop(TopObjects) /\ ReturnPtr(Last(vecs[TopObjects].items))
     ELSE Goto([Top EXCEPT !.at = "check"]) /\ UNCHANGED vecs
  /\ UNCHANGED <<nlpm, table, chains, mapped, dropped, user, panicked, ops, limit>>

(* check_non_local_ptrs: another thread has given back an object           *)
CheckNonLocalPtrs ==
  /\ At("alloc", "check") /\ nlpm # 0
  /\ \E x \in user :
       /\ user' = user \ {x}
       /\ Call(Top, Reserve(Objects(x.size), 1, <<x.ptr>>, 0, FALSE))
  /\ UNCHANGED <<vecs, nlpm, table, chains, mapped, dropped, panicked, ops, limit>>

(* A new region and its State, on which handle_state is called.            *)
NewState(w, frame) ==
  /\ chains' = Append(chains, w.chain)
  /\ mapped' = w.mapped
  /\ dropped' = w.dropped
  /\ Call(frame, Handle(Len(chains) + 1))

FreshState == [Work(<<FromRegion(RegionAt(mapped + 1))>>) EXCEPT !.mapped = @ + 1]

(* When there is no memory self_alloc_ goes on to slow_self_alloc_.        *)
GiveUp == IF Top.own THEN Goto([Top EXCEPT !.at = "slow"]) ELSE ReturnPtr(0)

(* get_common_chunk, get_large_chunk and alloc_large_chunk for the         *)
(* program, try_get_common_chunk and try_get_large_chunk for the           *)
(* allocator itself                                                        *)
AllocGetChunk ==
  LET from == FreeChunks(Class)
      large == FreeChunks("large")
      with(chunk, at) == [Top EXCEPT !.chunk = chunk, !.at = at]
  IN
  /\ At("alloc", "check")
  /\ \/ /\ vecs[TopObjects].items # <<>>
        /\ vecs' = Pop(TopObjects) /\ ReturnPtr(Last(vecs[TopObjects].items))
        /\ UNCHANGED <<chains, mapped, dropped>>
     \/ /\ vecs[TopObjects].items = <<>>
        /\ \/ /\ vecs[from].items # <<>>
              /\ vecs' = Pop(from) /\ Goto(with(Last(vecs[from].items), "have"))
              /\ UNCHANGED <<chains, mapped, dropped>>
           \/ /\ vecs[from].items = <<>> /\ Top.own
              /\ Goto([Top EXCEPT !.at = "slow"])
              /\ UNCHANGED <<vecs, chains, mapped, dropped>>
           \/ /\ vecs[from].items = <<>> /\ ~Top.own /\ vecs[large].items # <<>>
              /\ vecs' = Pop(large) /\ Goto(with(Last(vecs[large].items), "split"))
              /\ UNCHANGED <<chains, mapped, dropped>>
           \/ /\ vecs[from].items = <<>> /\ ~Top.own /\ vecs[large].items = <<>>
              /\ UNCHANGED vecs
              /\ IF MayMap(mapped, TRUE)
                 THEN \E got \in {GetFreeLargeChunk(FreshState, 1, FALSE)} :
                        NewState(got, with(got.ptr, IF Class = "common" THEN "split" ELSE "have"))
                 ELSE ReturnPtr(0) /\ UNCHANGED <<chains, mapped, dropped>>
  /\ UNCHANGED <<nlpm, table, user, panicked, ops, limit>>

(* get_common_chunk_slow with a large chunk                                *)
AllocSplit ==
  LET common == FreeChunks("common")
      split == Stride(Top.chunk, COMMON_CHUNK_SIZE, COMMON_CHUNKS_IN_LARGE_CHUNK)
  IN
  /\ At("alloc", "split")
  /\ IF vecs[common].items # <<>>
     THEN /\ vecs' = Pop(common)
          /\ Call([Top EXCEPT !.at = "putback", !.large = Top.chunk, !.chunk = Last(vecs[common].items)],
                  Reserve(FreeChunks("large"), 1, <<Top.chunk>>, 0, TRUE))
     ELSE /\ Call([Top EXCEPT !.at = "extended", !.large = Top.chunk, !.chunk = Last(split)],
                  Reserve(common, COMMON_CHUNKS_IN_LARGE_CHUNK - 1, Front(split), 0, TRUE))
          /\ UNCHANGED vecs
  /\ UNCHANGED <<nlpm, table, chains, mapped, dropped, user, panicked, ops, limit>>

(* The large chunk is lost when there is no memory for it in a list, and   *)
(* what push returned is not looked at.                                    *)
AllocSplitDone ==
  /\ At("alloc", "putback") \/ At("alloc", "extended")
  /\ dropped' = IF ret.err THEN dropped \union {Chunk(Top.large, "large")} ELSE dropped
  /\ IF ret.err /\ Top.at = "extended" THEN ReturnPtr(0) ELSE Goto([Top EXCEPT !.at = "have"])
  /\ UNCHANGED <<vecs, nlpm, table, chains, mapped, user, panicked, ops, limit>>

(* The end of alloc_common_slow and alloc_large_slow: a chunk that is not  *)
(* needed any more is freed, which only lowers a count.                    *)
AllocHave ==
  /\ At("alloc", "have")
  /\ IF vecs[TopObjects].items # <<>>
     THEN /\ vecs' = Pop(TopObjects) /\ ReturnPtr(Last(vecs[TopObjects].items))
          /\ dropped' = dropped \union {Chunk(Top.chunk, Class)}
     ELSE /\ Call([Top EXCEPT !.at = "pushed"],
                  Reserve(Chunks(Top.size), 1, <<Top.chunk>>, Top.st, TRUE))
          /\ UNCHANGED <<vecs, dropped>>
  /\ UNCHANGED <<nlpm, table, chains, mapped, user, panicked, ops, limit>>

AllocPushed ==
  /\ At("alloc", "pushed")
  /\ IF ret.err THEN GiveUp /\ dropped' = dropped \union {Chunk(Top.chunk, Class)}
     ELSE /\ Call([Top EXCEPT !.at = "carved"],
                  Reserve(TopObjects, PerChunk(Top.size) - 1,
                          Stride(Top.chunk, Top.size, PerChunk(Top.size) - 1), Top.st, TRUE))
          /\ UNCHANGED dropped
  /\ UNCHANGED <<vecs, nlpm, table, chains, mapped, user, panicked, ops, limit>>

(* Without memory for the objects the chunk stays in the table as it is.   *)
AllocCarved ==
  /\ At("alloc", "carved")
  /\ IF ret.err THEN GiveUp /\ dropped' = dropped \union {Chunk(Top.chunk, Class)}
     ELSE ReturnPtr(Top.chunk + Top.size * (PerChunk(Top.size) - 1)) /\ UNCHANGED dropped
  /\ UNCHANGED <<vecs, nlpm, table, chains, mapped, user, panicked, ops, limit>>

(* slow_self_alloc_                                                        *)
SlowSelfAlloc ==
  /\ At("alloc", "slow")
  /\ \/ /\ Top.st # 0
        /\ \E w \in {AllocSize(Work(chains[Top.st]), Top.size, Top.counted)} :
             /\ chains' = [chains EXCEPT ![Top.st] = w.chain]
             /\ mapped' = w.mapped
             /\ dropped' = w.dropped
             /\ ReturnPtr(w.ptr)
     \/ /\ Top.st = 0 /\ ~MayMap(mapped, Top.counted)
        /\ ReturnPtr(0)
        /\ UNCHANGED <<chains, mapped, dropped>>
     \/ /\ Top.st = 0 /\ MayMap(mapped, Top.counted)
        /\ \E w \in {AllocSize(FreshState, Top.size, Top.counted)} :
             NewState(w, [Top EXCEPT !.chunk = w.ptr, !.at = "handled"])
  /\ UNCHANGED <<vecs, nlpm, table, user, panicked, ops, limit>>

SlowSelfAllocHandled ==
  /\ At("alloc", "handled")
  /\ ReturnPtr(Top.chunk)
  /\ UNCHANGED <<vecs, nlpm, table, chains, mapped, dropped, user, panicked, ops, limit>>

-----------------------------------------------------------------------------
(* handle_state                                                            *)

State == Head(chains[Top.k])

HandleNlpm ==
  /\ At("handle", "nlpm")
  /\ IF nlpm = 0 THEN Call([Top EXCEPT !.at = "inited"], Alloc(SIZE_OF_NLPM, Top.k, TRUE, TRUE))
     ELSE Goto([Top EXCEPT !.at = "reserve"])
  /\ UNCHANGED <<vecs, nlpm, table, chains, mapped, dropped, user, panicked, ops, limit>>

HandleInited ==
  /\ At("handle", "inited")
  /\ nlpm' = ret.ptr
  /\ Goto([Top EXCEPT !.at = "reserve"])
  /\ UNCHANGED <<vecs, table, chains, mapped, dropped, user, panicked, ops, limit>>

(* The loop of count_all_large_used_chunks, count_all_common_used_chunks.  *)
CountUsedChunks(used) ==
  LET count[i \in 0 .. Len(used)] ==
        IF i = 0 THEN NewUsedObjects ELSE WriteUsedNumberAndSize(count[i - 1], used[i].size, 1)
  IN count
(* Mistaken: the last chunk is not counted.                                *)
CountAllButTheLast(used) == CountUsedChunks(used)[IF used = <<>> THEN 0 ELSE Len(used) - 1]
CountAllUsedChunks(used) == CountUsedChunks(used)[Len(used)]

(* What each of the seven parts of a pass reserves, as it is known when    *)
(* the part begins.  The number of free slots is read for each chunk when  *)
(* its turn comes: slot is the place it is read from.                      *)
PhaseClass == <<"common", "large", "large", "common">>
ToReserve(state, phase) ==
  LET task(v, slot, add, counted) == [v |-> v, slot |-> slot, add |-> add, counted |-> counted]
      used == state.used[PhaseClass[phase]]
      arr == CountAllUsedChunks(used)
  IN CASE phase \in {1, 2} ->
            [i \in DOMAIN used |-> task(Objects(RecommendedSize(used[i].size)), <<PhaseClass[phase], i>>, 0, FALSE)]
       [] phase \in {3, 4} ->
            [i \in DOMAIN arr |-> task(Chunks(RecommendedSize(arr[i].size)), <<>>, arr[i].number, TRUE)]
       [] phase = 5 -> <<task(Regions, <<>>, 1, FALSE)>>
       [] phase = 6 -> <<task(FreeChunks("large"), <<>>, Len(state.free["large"]), FALSE)>>
       [] phase = 7 -> <<task(FreeChunks("common"), <<>>, Len(state.free["common"]), FALSE)>>

(* Mistaken: one pass only.                                                *)
HandleOnePass ==
  LET phase == IF Top.phase = 7 THEN 1 ELSE Top.phase + 1 IN
  /\ At("handle", "reserve") /\ Top.todo = <<>>
  /\ IF Top.phase = 7 THEN Goto([Top EXCEPT !.at = "commit"])
     ELSE Goto([Top EXCEPT !.phase = phase, !.todo = ToReserve(State, phase),
                           !.more = IF phase = 1 THEN FALSE ELSE @])
  /\ UNCHANGED <<vecs, nlpm, table, chains, mapped, dropped, user, panicked, ops, limit>>

(* Mistaken: did_allocate_more is not reset for a new pass.                *)
HandlePassesForEver ==
  LET phase == IF Top.phase = 7 THEN 1 ELSE Top.phase + 1 IN
  /\ At("handle", "reserve") /\ Top.todo = <<>>
  /\ IF Top.phase = 7 /\ ~Top.more THEN Goto([Top EXCEPT !.at = "commit"])
     ELSE Goto([Top EXCEPT !.phase = phase, !.todo = ToReserve(State, phase)])
  /\ UNCHANGED <<vecs, nlpm, table, chains, mapped, dropped, user, panicked, ops, limit>>

(* A pass is repeated when anything grew in it: what grew may have taken   *)
(* more chunks of the state, or used up room that was reserved before.     *)
HandlePhase ==
  LET phase == IF Top.phase = 7 THEN 1 ELSE Top.phase + 1 IN
  /\ At("handle", "reserve") /\ Top.todo = <<>>
  /\ IF Top.phase = 7 /\ ~Top.more THEN Goto([Top EXCEPT !.at = "commit"])
     ELSE Goto([Top EXCEPT !.phase = phase, !.todo = ToReserve(State, phase),
                           !.more = IF phase = 1 THEN FALSE ELSE @])
  /\ UNCHANGED <<vecs, nlpm, table, chains, mapped, dropped, user, panicked, ops, limit>>

(* large_chunk_table and common_chunk_table allocate their box on the      *)
(* first use.                                                              *)
HandleReserve ==
  LET task == Head(Top.todo)
      add == IF task.slot = <<>> THEN task.add ELSE State.used[task.slot[1]][task.slot[2]].slots
      class == PhaseClass[Top.phase]
  IN
  /\ At("handle", "reserve") /\ Top.todo # <<>>
  /\ IF Top.phase \in {3, 4} /\ table[class] = 0
     THEN Call([Top EXCEPT !.at = "boxed"], Alloc(SizeOfTable[class], Top.k, TRUE, TRUE))
     ELSE Call([Top EXCEPT !.at = "reserved"], Reserve(task.v, add, <<>>, Top.k, task.counted))
  /\ UNCHANGED <<vecs, nlpm, table, chains, mapped, dropped, user, panicked, ops, limit>>

HandleBoxed ==
  /\ At("handle", "boxed")
  /\ IF ret.ptr = 0 THEN Panic
     ELSE /\ table' = [table EXCEPT ![PhaseClass[Top.phase]] = ret.ptr]
          /\ Goto([Top EXCEPT !.at = "reserve"])
          /\ UNCHANGED <<vecs, nlpm, chains, mapped, dropped, user, panicked, ops, limit>>

HandleReserved ==
  /\ At("handle", "reserved")
  /\ IF ret.err THEN Panic
     ELSE /\ Goto([Top EXCEPT !.at = "reserve", !.todo = Tail(@), !.more = @ \/ ret.grew])
          /\ UNCHANGED <<vecs, nlpm, table, chains, mapped, dropped, user, panicked, ops, limit>>

(* What the state gives to a vector: the free slots of its used chunks,    *)
(* the chunks, its region and its free chunks (ChunkManager::handle_state) *)
Given(state, v) ==
  LET used == state.used["common"] \o state.used["large"]
      each(give) == FlattenSeq([i \in DOMAIN used |->
                                  IF RecommendedSize(used[i].size) = v[2] THEN give[i] ELSE <<>>])
  IN CASE v[1] = "objects" ->
            each([i \in DOMAIN used |-> Stride(used[i].ptr, used[i].size, used[i].slots)])
       [] v[1] = "chunks" -> each([i \in DOMAIN used |-> <<used[i].ptr>>])
       [] v = Regions -> <<state.region>>
       [] OTHER -> state.free[v[1]]

(* The state is committed, with pushes that do not look for memory, and    *)
(* the next one of the chain is copied to the stack in its place.          *)
HandleCommit ==
  LET rest == Tail(chains[Top.k]) IN
  /\ At("handle", "commit")
  /\ IF rest # <<>> /\ Len(Top.to_dealloc) = MAX_STATES THEN Panic
     ELSE /\ vecs' = [v \in Vectors |-> [vecs[v] EXCEPT !.items = @ \o Given(State, v)]]
          /\ chains' = [chains EXCEPT ![Top.k] = rest]
          /\ IF rest = <<>> THEN Goto([Top EXCEPT !.at = "dealloc"])
             ELSE Goto([Top EXCEPT !.at = "reserve", !.phase = 0,
                                   !.to_dealloc = Append(@, Head(rest).at)])
          /\ UNCHANGED <<nlpm, table, mapped, dropped, user, panicked, ops, limit>>

(* Mistaken: the memory of the States of the chain is not given back.      *)
HandleNoDealloc ==
  /\ At("handle", "dealloc")
  /\ chains' = Front(chains)
  /\ Return(Nothing)
  /\ UNCHANGED <<vecs, nlpm, table, mapped, dropped, user, panicked, ops, limit>>

HandleDealloc ==
  /\ At("handle", "dealloc")
  /\ IF Top.to_dealloc # <<>>
     THEN /\ Call([Top EXCEPT !.to_dealloc = Tail(@)],
                  Dealloc(Head(Top.to_dealloc), SIZE_OF_STATE, 0))
          /\ UNCHANGED chains
     ELSE chains' = Front(chains) /\ Return(Nothing)
  /\ UNCHANGED <<vecs, nlpm, table, mapped, dropped, user, panicked, ops, limit>>

-----------------------------------------------------------------------------
(* The program                                                             *)

Idle == frames = <<>> /\ ~panicked
Begin(stack) == Idle /\ ops < MaxOps /\ frames' = stack /\ ret' = Nothing /\ ops' = ops + 1

TryAlloc ==
  /\ Cardinality(user) < MaxUser
  /\ \E size \in UserSizes :
       Begin(<<[f |-> "program", at |-> "alloc", size |-> size], Alloc(size, 0, TRUE, FALSE)>>)
  /\ UNCHANGED <<vecs, nlpm, table, chains, mapped, dropped, user, panicked, limit>>

TryAllocDone ==
  /\ At("program", "alloc")
  /\ user' = user \union {[ptr |-> p, size |-> Top.size] : p \in {ret.ptr} \ {0}}
  /\ Return(Nothing)
  /\ UNCHANGED <<vecs, nlpm, table, chains, mapped, dropped, panicked, ops, limit>>

DeallocLocal ==
  /\ \E x \in user : Begin(<<Dealloc(x.ptr, x.size, 0)>>) /\ user' = user \ {x}
  /\ UNCHANGED <<vecs, nlpm, table, chains, mapped, dropped, panicked, limit>>

(* dealloc_non_local_ptr as the thread's first call: the manager that is   *)
(* needed comes from a State of its own, uncounted.                        *)
DeallocNonLocal ==
  /\ nlpm = 0
  /\ Begin(<<Handle(1)>>)
  /\ chains' = <<FreshState.chain>>
  /\ mapped' = FreshState.mapped
  /\ UNCHANGED <<vecs, nlpm, table, dropped, user, panicked, limit>>

(* allocated_for_self                                                      *)
AllocatedForSelf ==
  LET note(size, arr) == WriteUsedNumberAndSize(arr, size, 1)
      box(ptr, size, arr) == note(IF ptr = 0 THEN 0 ELSE size, arr)
      boxes == box(table["large"], SizeOfTable["large"],
                   box(table["common"], SizeOfTable["common"],
                       box(nlpm, SIZE_OF_NLPM, NewUsedObjects)))
  IN FoldSet(LAMBDA v, arr : note(BytesAllocated(v), arr), boxes, Vectors)

ObjectsUsed(size) == Size(Chunks(size)) * PerChunk(size) - Size(Objects(size))

(* try_free_all_memory, when it returns Ok                                 *)
TryFreeAllMemory ==
  /\ LET own == AllocatedForSelf IN \A s \in Sizes : ObjectsUsed(s) = FindSize(own, s)
  /\ Begin(<<>>)
  /\ vecs' = [v \in Vectors |-> Null]
  /\ nlpm' = 0
  /\ table' = [c \in Classes |-> 0]
  /\ mapped' = 0
  /\ dropped' = {}
  /\ UNCHANGED <<chains, user, panicked, limit>>

Finished == panicked \/ (frames = <<>> /\ ops = MaxOps)
Rest == Finished /\ UNCHANGED vars

Step ==
  \/ ReserveTest \/ ReserveGot \/ ReserveRetry \/ ReserveFreed
  \/ AllocPop \/ CheckNonLocalPtrs \/ AllocGetChunk \/ AllocSplit \/ AllocSplitDone
  \/ AllocHave \/ AllocPushed \/ AllocCarved \/ SlowSelfAlloc \/ SlowSelfAllocHandled
  \/ HandleNlpm \/ HandleInited \/ HandlePhase \/ HandleReserve \/ HandleBoxed
  \/ HandleReserved \/ HandleCommit \/ HandleDealloc
  \/ TryAllocDone

Next == Step \/ TryAlloc \/ DeallocLocal \/ DeallocNonLocal \/ TryFreeAllMemory \/ Rest

Spec == Init /\ [][Next]_vars /\ WF_vars(Step)

-----------------------------------------------------------------------------
(* Properties                                                              *)

(* The memory that somebody holds, each piece with the place it is in.     *)
Piece(where, ptr, size) == [where |-> where, ptr |-> ptr, size |-> size]
OfVector(v) ==
  LET s == CASE v[1] = "objects" -> v[2]
             [] v[1] = "common" -> COMMON_CHUNK_SIZE
             [] v[1] = "large" -> LARGE_CHUNK_SIZE
             [] OTHER -> 0
  IN {Piece(v, vecs[v].ptr, BytesAllocated(v))}
       \union {Piece(v \o <<i>>, vecs[v].items[i], s) : i \in DOMAIN vecs[v].items}
OfState(s, where) ==
  LET slots(c, i) == {Piece(<<c>> \o where \o <<i, j>>, s.used[c][i].ptr + j * s.used[c][i].size,
                            s.used[c][i].size) : j \in 0 .. s.used[c][i].slots - 1}
      of(c) == UNION {slots(c, i) : i \in DOMAIN s.used[c]}
                 \union {Piece(<<c>> \o where \o <<i>>, s.free[c][i], Chunk(0, c).size) : i \in DOMAIN s.free[c]}
  IN of("common") \union of("large") \union {Piece(<<"at">> \o where, s.at, IF s.at = 0 THEN 0 ELSE SIZE_OF_STATE)}
Pieces ==
  {p \in UNION {OfVector(v) : v \in Vectors}
           \union UNION {UNION {OfState(chains[k][i], <<k, i>>) : i \in DOMAIN chains[k]} :
                          k \in DOMAIN chains}
           \union UNION {{Piece(<<"to_dealloc", i, j>>, frames[i].to_dealloc[j], SIZE_OF_STATE) :
                            j \in DOMAIN frames[i].to_dealloc} :
                          i \in {j \in DOMAIN frames : frames[j].f = "handle"}}
           \union {Piece(<<"nlpm">>, nlpm, IF nlpm = 0 THEN 0 ELSE SIZE_OF_NLPM)}
           \union {Piece(<<c>>, table[c], IF table[c] = 0 THEN 0 ELSE SizeOfTable[c]) : c \in Classes}
           \union {Piece(<<"user">>, x.ptr, x.size) : x \in user}
           \union {Piece(<<"dropped">>, c.ptr, c.size) : c \in dropped} :
     p.size # 0}

Units(p) == p.ptr .. p.ptr + p.size - 1
AllUnits ==
  UNION {RegionAt(n) + COMMON_CHUNK_SIZE .. RegionAt(n) + REGION_SIZE - 1 : n \in 1 .. mapped}

(* Between the calls of the program every piece of mapped memory is held   *)
(* in exactly one place: by the program, in a vector or as a vector's      *)
(* buffer, as a box, or among the chunks that the code gives up.           *)
(* handle_state and reserve_slow lose nothing and hand nothing over twice. *)
MemoryPartitioned ==
  Idle => LET held == Pieces IN
          /\ UNION {Units(p) : p \in held} = AllUnits
          /\ \A p, q \in held : p # q => Units(p) \intersect Units(q) = {}

(* At any depth of nested calls, memory that self_alloc_ or try_alloc      *)
(* returns overlaps nothing that is held anywhere, the States that are     *)
(* still being emptied included.                                           *)
SizeAsked ==
  CASE Top.f = "reserve" -> Top.cap * SizeOfElem(Top.v)
    [] Top.f = "handle" /\ Top.at = "inited" -> SIZE_OF_NLPM
    [] Top.f = "handle" /\ Top.at = "boxed" -> SizeOfTable[PhaseClass[Top.phase]]
    [] Top.f = "program" -> Top.size
HandedOutOnce ==
  ret.ptr # 0 =>
    \A p \in Pieces : Units(p) \intersect Units(Piece(<<"ret">>, ret.ptr, SizeAsked)) = {}

(* No vector is written beyond its capacity, although handle_state pushes  *)
(* without asking for memory, and a push may be preceded by an allocation  *)
(* that pushes to the same vector.                                         *)
VectorsFit == \A v \in Vectors : Size(v) <= vecs[v].cap

(* A chunk is in a list, in somebody's hands or about to be committed only *)
(* when both chunk tables have their boxes: alloc_common_slow and          *)
(* alloc_large_slow never come to create a table, and the commit never     *)
(* takes memory for one from the State it is emptying.  And the memory for *)
(* a box never comes to a pass whose table has got one in the meantime,    *)
(* from the handle_state of a State that this allocation needed.           *)
TablesExist ==
  /\ (\/ \E c \in Classes : vecs[FreeChunks(c)].items # <<>>
      \/ \E at \in {"split", "have", "pushed", "carved"} : At("alloc", at)
      \/ At("handle", "commit"))
     => \A c \in Classes : table[c] # 0
  /\ At("handle", "boxed") => table[PhaseClass[Top.phase]] = 0

(* Between calls the objects that are in no vector are exactly those that  *)
(* allocated_for_self counts, those of the program, and those of chunks    *)
(* whose carving failed: the test of try_free_all_memory means what it     *)
(* says.                                                                   *)
OwnMemoryCounted ==
  Idle =>
    LET own == AllocatedForSelf IN
    \A s \in Sizes :
      LET uncarved == {i \in DOMAIN vecs[Chunks(s)].items :
                         Chunk(vecs[Chunks(s)].items[i], Define(s)) \in dropped}
      IN ObjectsUsed(s) = FindSize(own, s) + Cardinality({x \in user : x.size = s})
                            + PerChunk(s) * Cardinality(uncarved)

(* The allocator panics only for want of memory, when the limit is         *)
(* reached.  It never panics at the commit, where a State that follows     *)
(* finds no room in to_dealloc: however the States of a chain come about,  *)
(* by requests of the very handle_state that empties the chain, too, they  *)
(* are not too many.                                                       *)
OnlyTheLimitPanics == panicked => Top.at # "commit" /\ mapped >= limit

(* Every call of the program comes to an end: the recursion of self_alloc_ *)
(* and reserve_slow and the passes of handle_state do not go on for ever.  *)
EveryCallReturns == []<>(frames = <<>> \/ panicked)
=============================================================================
