# Verification of memalart

memalart is a memory allocator without locks on its fast paths: every thread has
a `ThreadLocalAllocator`, and what one thread frees of another one's memory
travels back through lock-free lists. This directory holds TLA+ models of it, the
TLC configurations that check them, and proofs checked by TLAPS.

    tlc -workers 2 -config lfm_two.cfg MCLockFreeManager
    tlapm PtrReturnProofs.tla

`PROJECT.json` lists components, runs, the source lines behind every definition,
the findings, the hazards and the theorems.

## 1. The system

Paths are under `src/src/`.

| Component | State | Operations |
|---|---|---|
| Thread-local allocator (`thread_local_allocator/thread_local_allocator.rs`) | per thread: vectors of free objects for each size (`common_object_table`, `large_object_table`), tables of the chunks carved for each size, a map of extra-large sizes, the pointer to its manager, flags | `try_alloc`, `dealloc` in three size classes, each with a fast path (pop or push) and a slow one; `try_free_all_memory`; `destructor`; `move_to_another_thread` |
| Non-local pointer manager (`non_local_ptr_manager/`) | one atomic, `head_of_list`, in the first memory of its allocator; nodes borrowed from the freeing thread's own objects | `deallocate_non_local_ptr` (push by compare-exchange), `check_for_incoming_non_local_ptrs` (swap, then walk) |
| Chunk manager and regions (`chunk_manager.rs`, `region.rs`) | stacks of free common and large chunks, the regions and how much of each is occupied; in each region an array of chunk metadata | `get_common_chunk`, `get_large_chunk`, splitting, `free_common`, `free_large`, `handle_state`, `free_all_memory`, `init_metadata_for_*` |
| Limit (`limit.rs`) | two process-wide atomics, `LIMIT` and `ALLOCATED` | `may_allocate`, `allocate_any_way`, `mark_deallocated`, `set_allocator_limit` |
| Accounting (`info_for_size.rs`) | none of its own: computed from chunk tables, vector lengths and the list of self-allocated objects | iteration over `InfoForSize`, on which `try_free_all_memory` decides |
| Size classes (`sizes/`) | constant tables | size → class, vector, size of the object handed out |
| Self-allocation (`thread_local_self_alloc_impl.rs`) | a chain of `State`, one for each region mapped while the allocator cannot serve itself | `alloc_size`, `self_alloc_`, `handle_state` |
| Self-allocated structures (`self_allocated_structs/`) | vectors, boxes and a fork of the standard B-tree map, in memory of the allocator they belong to | growth, which re-enters the allocator |
| OS layer (`os/`) | the key of the thread destructor, mappings | aligned mapping, thread creation, destructor registration |

How they interact. An allocation pops from a vector. When it is empty, the list
of incoming pointers is emptied into the vectors, and when that does not help a
chunk is taken from the chunk manager, which splits a large chunk or maps a
region, for which the limit is asked. All vectors live in memory of their own
allocator, so growing one is itself an allocation: checks of the list, chunk
requests and region handling nest in one another. A deallocation reads the chunk
metadata to find the manager of the owner; for another owner the pointer is put
in a node and pushed to the owner's list, and the owner later sends the node
home by the same way. When a thread ends, its allocator is unmapped if everything
has come back; otherwise a background thread polls its list until it has.

What is hard in it: races on `head_of_list` and on `ALLOCATED`; unmapping an
allocator that others may be about to push to, with no reference count anywhere;
nodes whose memory belongs to a third party; nested checks; background threads
that wait for one another's nodes; failures half-way (a mapping, a vector that
cannot grow); arithmetic that reconstructs counts from sizes. `PROJECT.json`
lists these as hazards, each at its line.

What makes each part correct:

- pointers: a slot is in one place, never lost, delivered to its owner and into
  the right vector; memory is unmapped only when nobody can reach it; in the end
  all of it is unmapped;
- limit: every byte is counted while mapped, and grants stay within the limit;
- accounting: it never declares memory free that is not, and does declare it free
  when it is;
- chunks: no memory is handed out twice, counts of occupation cover what is in
  use, and metadata is found from every object;
- map of sizes: no entry is lost, doubled or changed by the movements inside the
  tree; the tree stays balanced and linked; its own memory is accounted for;
- sizes: carving, counting and handing out agree on the size of a vector's objects;
- self-allocation: whatever nests in whatever, all memory stays in exactly one
  place, no vector is written beyond its capacity, what the allocator uses itself
  is counted exactly, and every call comes to an end;
- operating system: a mapping has exactly its own pages, aligned, whatever other
  threads map and unmap meanwhile, and nobody uses the destructor's key before it
  exists.

## 2. Modules

| Module | Models | Extends or uses |
|---|---|---|
| `Owners` | allocators, slots, and whose chunk a slot lies in | |
| `PtrReturn` | the abstract promise about pointers that cross threads; lists are sets | extends `Owners` |
| `LockFreeManager` | the lists with loads, compare-exchanges and swaps, and the thread-local allocator around them | extends `Owners`; `PtrReturn`, through the refinement mapping `Promise` |
| `Limit` | `limit.rs` and the mappings that use it | |
| `SizeAccounting` | the decision of `try_free_all_memory` | |
| `ChunkManager` | regions, chunks, occupation, metadata | |
| `UsedObjects` | the sorted array in which an allocator collects the memory it uses itself | |
| `SelfAlloc` | how the allocator allocates its own tables: `State`, `self_alloc_`, `handle_state`, `SelfAllocatedVec` | extends `UsedObjects` |
| `Unix` | `os/unix.rs`: mapping, the destructor's key, thread creation, under the limit | extends `Limit` |
| `Sizes` | the functions and tables of `sizes/` | |
| `SizeMap` | the abstract map from extra-large sizes to numbers of blocks | |
| `BTree` | `SelfAllocatedBTreeMap` with its nodes, as `allocated_large_sizes` | `SizeMap`, through the refinement mapping `Map` |
| `PtrReturnProofs`, `SizeAccountingProofs`, `LockFreeManagerProofs`, `UnixProofs` (with those about `Limit`), `ChunkManagerProofs`, `UsedObjectsProofs`, `SelfAllocProofs`, `SelfGrowthProofs` | theorems | their modules, TLAPS; `SelfAllocProofs` extends `UsedObjectsProofs` too, and `SelfGrowthProofs` extends `SelfAllocProofs` |
| `MC*` | constants for TLC | |

Each module contains definitions marked *Mistaken*: what an action or function
would be after a plausible error (a store for a compare-exchange, a field read
after the node was pushed, an untested decrement). They are used by no
specification; `PROJECT.json` pairs each property with one that breaks it, which
shows that the property can fail.

### PtrReturn

A slot is an object carved from a chunk; `Owner` says whose. Slots are in `vec`
(free), with the `user`, or on their way: a node is a slot in `inbox`, `batch`
(swapped out, not handled) or `hand` (about to be pushed), and `value[n]` is what
it carries, itself on its way home. `FreeAll` is guarded by what the code looks
at, the vectors of that allocator against its chunks, and not by its list. It has
no run of its own: `LockFreeManager` is shown to implement it, and what it promises
(`OnePlace`, `NothingLost`, `Addressed`, `Existing`) is checked there, of the lists
read as sets.

### LockFreeManager

`head`, `next` and `value` are the lists; `job`, `frames` and `post` are where a
thread is: in which operation, in which (nested) checks, in which push. A step
ends with at most one access to shared memory. Only `head_of_list` is shared: a
node's fields are private to the thread that pushes it or has swapped it out.
Orderings are release for the push and acquire for the swap, so sequential
interleavings suffice. `compare_exchange_weak` may fail spuriously, which reads
the same head and is a stutter.

Operations: `Alloc`, `AllocSlow` and what follows (`CheckAgain`, `CarveChunk`,
`AllocDone`, `AllocNone`) are `alloc_*` and `alloc_*_slow`; `DeallocLocal`,
`DeallocLocalGrow`, `DeallocNonLocal`, `DeallocNonLocalSlow` are `dealloc_*`;
`Swap`, `KeepNode`, `ReturnNode`, `Advance`, `GrowVec`, `EndCheck` are
`check_for_incoming_non_local_ptrs`, where a push to a full vector may enter the
check again; `LoadHead` and `CompareExchange*` are `add_new_node_ptr`;
`Destructor*` and `Background*` are the end of a thread. Vectors are sets: which
free object is popped plays no part in any property. A chunk of each class is
carved at most once per allocator. The slots stand for common sizes, whose
metadata is always found (section 5 on large ones); vectors here grow without
failing, which `SizeAccounting` and `ChunkManager` treat.

The mapping `Promise` reads a list as the set of its nodes: `Chain(next, n)` is the
least set that has `n` and, with a node, its successor (a least set and not a
recursion, so that it can be reasoned about). `inbox` is the chain of `head`, `batch`
the chains of what the frames of a check have still to do, `hand` the node of the
push under way, and a pointer whose deallocation has begun still counts as the
user's until its step.

### Limit

One action per atomic access; the mapping itself is a step between, which may
fail. `Forced` blocks are those mapped "without counting limit", which are
counted and not tested. `set_allocator_limit` is called at the start only, as its
comment demands. Sums wrap at `UsizeMax`, so `Accounted` is an equation modulo
`UsizeMax + 1`, and the instance of run `os` is small enough for the counter to
wrap. The bytes of a set of blocks are counted as the pairs of a block and a number
up to its size. `Limit` is checked as a part of `Unix`.

### Unix

The address space is a row of pages, each with its holder. `mmap` may take any run
of free pages; `munmap` frees pages whoever has them, as the kernel does. `MapOk`,
`MapFails` and `Unmap` of `Limit` are conjoined with the steps that make a mapping:
`Mapped` (with more than is needed when it must be aligned), `Commit`, `FreeHead` and
`FreeTail` (three system calls, between which others run), `HugeFails` (one kind of
huge page is given up and the next tried), `PlainFails`, `Free`. The option that
remembers which huge pages work is one atomic for all threads.

`Commit` is the second `mmap` of `alloc_aligned_from_os`, which replaces the aligned
part of the reservation by pages that may be used (`MAP_FIXED`). It may fail for
regions of `MayFail`; any of the pages it was to replace may then be unmapped already.
Only `test_assert!` looks at its result, so other builds trim the mapping and return
the region as if nothing had happened, and so does the model, which remembers such
regions in `uncommitted`. Such a region lacks pages (who touches them faults, or meets
what others have mapped there since), but takes none from others until it is unmapped: `munmap` of the whole range
then also frees what others have mapped in the gap. From there on (`strayed`) nothing
is promised, and the model begins no new call. `uncommitted` and `strayed` have no
counterpart in the code; `strayed` is written by `Free` and read by the guard that stops
there and by `MappingsExact`, `uncommitted` by the exception of the latter.

`Register`, `CreateKey`, `StoreOnce`, `Spin` and `SetSpecific` are
`register_thread_local_allocator_destructor`; `Deregister`, `Exit`, `PthreadCreate` and
`Start` are the destructor that moves an allocator to a new thread. The mapping of
a closure succeeds (section 5, observations). `UnixAssumption` says that a region is
a whole number of pages, as 32 MB are.

### UsedObjects and SelfAlloc

Pointers are numbers, a unit of memory is the size of a pointer, and regions lie
one behind the other. `vecs` holds every vector with its buffer, capacity and
items, `chains` the chains of `State` in use, `frames` the stack of calls:

- `Reserve*` is `reserve_slow`: ask for a buffer, test again what has been pushed
  meanwhile, give the old buffer back (which is a push to another or the same
  vector), retry;
- `Alloc*` is `alloc_common_slow` and `alloc_large_slow` with the request for a
  chunk, and `CheckNonLocalPtrs` what may arrive in it: any objects of the program;
- `SlowSelfAlloc*` is `self_alloc_` when vectors and chunks are exhausted: a slot
  of a chunk a `State` already uses, a free chunk, a large chunk that is split, or
  a new `State` in a new region (`AllocSize` and what it uses);
- `Handle*` is `handle_state`: the box of the manager, then passes of reserving in
  seven vectors or tables, repeated until a whole pass has grown nothing, then the
  commit, whose pushes ask for nothing, then the next `State` of the chain, and
  at the end the memory of the `State`s themselves.

`try_free_all_memory` compares the counts of `UsedObjects` with the tables.
`dropped` collects the chunks that the code gives up on purpose: a large chunk
taken for a split when common chunks turn up, and a chunk whose carving failed.
`panicked` is set where `handle_state` finds no memory, and in its commit when
`to_dealloc` has no room for one more `State`. Left out: buffers beyond the largest
class, chunk metadata (`ChunkManager`), and mappings that fail although the limit
permits them. For this allocator a refused mapping has the effect of the limit at that
moment (a null region, and a panic where there must be one), so "only the limit" is to
be read as "only the limit or the system". A `State` need not have the size of a class:
run `self_alloc` takes one that has, `self_alloc_stride` one that has not.

### SizeAccounting

For each class: the chunks in its table, the length of its vector, objects held
by the program (or on their way), and objects the allocator uses itself.
`missing` records the objects of a chunk that reached the table although its
vector could not grow.

### ChunkManager

A region is a row of units of `COMMON_CHUNK_SIZE`: unit 0 for metadata, then
common chunks up to the first large chunk, then large chunks. A call that holds a
chunk is an element of the stack `calls`, because growing a vector may nest
another request. `HandleState` is the outcome of `handle_state` for one region:
how many chunks the `State` used itself is left open. `FreeChunk` is the way out
when the vector was refilled meanwhile; `LoseChunk` the one when a vector cannot
grow.

### Sizes

The functions of `sizes/` as operators, the tables as sequences, applied to one
size after the other.

### SizeMap and BTree

`nodes` is the memory of nodes: keys, values, edges (none in a leaf), and the link
to the parent with the index of the edge. `CorrectLinks` is called where the code
calls `correct_childrens_parent_links`, for the same range, so a link the code
forgets stays wrong. `counted` is `allocated_memory`, the two counters from which
`try_free_all_memory` knows the map's own nodes. An insertion that needs a node is
a frame of `op` until it has the memory (`InsertFirst`, `InsertSplits`,
`PushInternalLevel`): there it may fail, which panics (`NodeFails`). That the
allocator may come back to the map in these places is left out (section 5,
observations). A removal is one step: it allocates nothing, and the buffer that a
released node may make a vector grow is left out (hazard in `PROJECT.json`). `KeepsMap` maps the pairs in nodes and in
frames to `map`.

`clear` is what the tests use; the allocator itself ends with `force_become_null`.
Programs are bounded by `Programs`: sizes that are allocated first, in order, then
sizes that come and go at will.

## 3. Runs

| Run | Instance | Checks |
|---|---|---|
| `lfm_two` | 2 allocators with an object and a node each, an extra-large object, a thread that may panic, checks nested twice | `TypeOK`, `OnePlace`, `NothingLost`, `Addressed`, `Existing`, `NoUseAfterFree`, `RightVector`, `KeepsPromise`: it implements `PtrReturn`; and `FreedWhenDone` under fairness |
| `lfm_three` | 2 threads free objects of a third one, and one of them uses objects of the class of nodes itself | `KeepsPromise` with two pushers against one swap |
| `lfm_xlarge` | extra-large objects | `EverythingIsFreed` fails: finding 1 |
| `os` | 2 threads on 6 pages of 2 bytes; two regions of 4 bytes (one forced, the commit of the other may fail), two extra-large objects of 8, limits 4 and 8, a counter that wraps at 24, one spawned thread | `Accounted`, `WithinLimit`, `MappingsExact`, `KeyReady`, `GrantsWithinLimit`; and `SpinEnds` under fairness |
| `accounting` | 1000-byte objects (two chunks have room for one object more than they are carved into) and 64 KB objects (which divide), failures | `ObjectsConserved`, `NeverFreedEarly`, `UsedNotBelowInUse`, `TestIsExact` |
| `accounting_home` | 24-byte objects, no failures | `FreeableWhenHome` fails: finding 2 |
| `chunks` | 2 regions of 2 large chunks of 2 units, calls nested twice | `ChunksDisjoint`, `CountCoversUse`, `MetadataInPlace` |
| `chunks_large` | units and large chunks as in the code, 100 KB objects | `MetadataInPlace` fails: finding 3 |
| `btree` | `B = 2`; 7 sizes at will, and trees of 14 sizes (three levels) of which 6 on the left or 6 on the right come and go; one size has two blocks | `TypeOK`, `Balanced`, `IterInOrder`, `NodesAccounted`, `RightSize`, and `KeepsMap`: it implements `SizeMap` |
| `sizes` | every size from 1 to beyond `LARGE_SIZE_MAX` | `OneSizePerVector`, `RoundingIsStable`, `TablesAreOptimal` |
| `self_alloc` | chunks of 12 and 24 units, two large chunks per region, sizes 1 to 24, a `State` of 6, tables of 8, limits of 1 and 2 regions and none, room for 2 `State`s in `to_dealloc`, at most 4 objects of the program, 6 calls | `VectorsFit`, `TablesExist`, `MemoryPartitioned`, `HandedOutOnce`, `OwnMemoryCounted`, `OnlyTheLimitPanics`; and `EveryCallReturns` under fairness |
| `self_alloc_stride` | the same with a `State` of 5, which is not a class, and objects of the program of 6, a limit of 2 regions | `HandedOutOnce` fails: finding 4 |

Why the bounds are enough. A race on a list needs a pusher against the owner
(`lfm_two`) or two pushers against the owner (`lfm_three`); a node and an object
for each allocator let a node be away while its allocator ends and let two
background threads wait for each other. Two levels of nesting let an inner check
find nodes while an outer one still has some. Chunk runs have enough units for a
split, a put-back and a region that is mapped during a request; with one object
per large chunk the pointer written for metadata is the chunk's start, so `chunks`
isolates everything but finding 3. `sizes` is exhaustive. With `B = 2` a node holds
one to three pairs, every case of `splitpoint` is met, and 14 sizes make three
levels: internal nodes are split, merged and stolen from on both sides, and pairs
are removed from the root, from inner nodes and from leaves. In `os` the huge
pages have the sizes of regions and of extra-large objects, a trimmed mapping leaves a
tail, alone or with a head, and there is room for another thread in what is trimmed and
in what a failed commit has left free. In
`self_alloc` regions are so small that tables outgrow the `State` they are taken
from: chains of several `State`s, repeated passes, splits with the dropped chunk and
panics at the limit all occur. The limit of 100 regions is none: no behaviour comes near
it, and it takes more than two regions until `reserve_slow` must retry because its own
allocation filled the vector. The longest chain that occurs has two `State`s besides
the first, so `to_dealloc`, with `MAX_STATES = 2`, is filled to the last place. As in
the code, the class of a `State` is one that is used for nothing else
(`StateSizeApart`), and every size divides its chunk, so that a chunk has no rest.
Named bounds: `Copies`, `Programs`, `MaxDepth`, `MaxSizes`, `MaxChunks`, `MaxSelf`,
`LastSize`, `Pages`, `MayFail`, `Limits`, `MaxUser`, `MaxOps`.

Deadlock is checked for `self_alloc`, where only a finished program or a panic
rests (`Rest`). Elsewhere the system may stop: when all threads
have ended, when all memory is unmapped, when the walk through the sizes is over.

Fairness. `FairSpec` assumes weak fairness of each thread's `Operation`: a thread
that is inside the allocator, and a background thread, which has no other work, is
scheduled. Nothing is assumed of what the program does: it may keep its objects
or its threads, and then the premise of `FreedWhenDone` is false. A thread that
panics abandons its allocator, which the premise excludes too, as it does
extra-large sizes that stay counted; `EverythingIsFreed` does not exclude those,
and fails (finding 1). `UnixSpec` assumes that a thread that creates the key,
stores `ONCE` or spins is scheduled; `SpinEnds` excludes a creator that panicked,
after which the others spin for ever. `SelfAlloc` has one thread, of which a call
that has begun goes on: weak fairness of `Step`.

## 4. Proofs

All theorems hold for every value of the constants that satisfies the named
assumptions, which TLC evaluates on the runs of their modules; each inductive
invariant was checked by TLC on such an instance before it was proved.

`PtrReturnProofs`, for any sets of allocators and slots, from `OwnerAssumption`
(every slot has an owner):

- `Invariance`: `Spec => []IInv`, with
  `IInv == TypeOK /\ OnePlace /\ NothingLost /\ Addressed /\ Existing`.
- `Safety`: `Spec => []NoUseAfterFree`. This is the argument that makes unmapping
  without reference counts sound. By itself it is not inductive: `FreeAll(a)`
  looks at `vec[a]` only, and must exclude a pointer in another thread's hand. If
  all carved slots of `a` are in `vec[a]`, then by `OnePlace` none is with a user,
  a node or carried by a node; and since a node in or on its way to the list of
  `a` carries a slot of `a` (`Addressed`), the list is empty and nobody is about
  to push.

`LockFreeManagerProofs`, for any allocators, slots, size classes and depth of nested
checks, from `OwnerAssumption` and `ConstantsAssumption`:

- `Refinement`: `Spec => KeepsPromise`, every step of the lists is a step of
  `PtrReturn` or a stutter. There is one lemma per action. The proof needs
  `IInv`, and `Invariance` proves it: chains end in `NULL` (`Acyclic`), chains of
  nested checks have no node in common (`FramesApart`), a node that is on its way has
  its fields filled and is addressed to the owner of what it carries (`NodesFilled`,
  `PostsAddressed`), a pointer whose deallocation has begun is in one thread's hands
  (`HeldOnce`), and the invariant of `PtrReturn` holds of the mapped variables. The
  two go together: a compare-exchange links a node to a list without making a cycle
  because `OnePlace` says that the node is in no list yet, and `OnePlace` of the next
  state follows because the step is a step of `PtrReturn`, whose own lemma is used
  through the mapping.
- `Safety` (`NoUseAfterFree`): what the threads may touch next (the list, frames, the
  node in hand, the manager a push goes to, pointers of the program) is memory that
  is mapped. `RightClass` (`RightVector`) and `TypeCorrect` (`TypeOK`).
- `Conservation` (`OnePlace`), `Completeness` (`NothingLost`), `Delivery`
  (`Addressed`), `Confinement` (`Existing`): what `PtrReturn` promises, of the lists.

`UnixProofs` begins with `Limit`, for any threads, blocks and sizes, from
`LimitAssumption`:

- `Accounting`: `Spec => []Accounted`, an equation modulo the width of the counter.
  It needs that a block is in one call or mapped, not both (`Apart`).
- `Granting`: `GrantsWithinLimit`, and `Limiting`: `WithinLimit`. Both suppose
  `NoWrap`: a limit that is set, all forced blocks and one more request do not exceed
  the counter. On a 64-bit machine a `Layout` has at most `isize::MAX` bytes, so this
  says that limit and forced blocks together have at most as many; the instance of
  run `os` satisfies it too. Without a limit `LIMIT` is `usize::MAX`, the count may
  wrap, and `WithinLimit` says only that what is mapped fits into an address space:
  this case is left out of `Limiting` and checked by TLC.

Then it goes on to `Unix`, for any threads, blocks and pages, from the assumptions above
and `UnixAssumption`:

- `Implements`: `UnixSpec => Spec`, the layer implements `Limit`, so `LimitHolds`
  carries the theorems about the limit over.
- `Mappings` (`MappingsExact`). The invariant describes the mappings that are being
  made: which pages a thread has after `mmap`, after the head and after the tail is
  trimmed (`MadeOf`), which of them a failed commit may have lost (`LostOf`,
  `FailedCommits`), that no two threads make the same block (`MakingApart`), and that
  every page has exactly the holder this says (`PagesExact`). `munmap` in the model
  frees pages of anybody, so this is what shows that it meets only the caller's own.
  The exception is part of the statement: a region of which the second `mmap` failed
  may lack pages, and nothing is claimed once such a region has been unmapped from
  under the pages of others (`strayed`). With `MayFail = {}` neither can happen and
  every mapping has exactly its pages.
- `Key` (`KeyReady`), from `KeyOnce`: at most one thread is between the
  compare-exchange on `ONCE` and the store, and the key exists when it stores.

`ChunkManagerProofs`, for any number of regions of any shape, any sizes and depth of
nested calls, from `RegionAssumption`:

- `Disjointness` (`ChunksDisjoint`) and `Coverage` (`CountCoversUse`). Neither is
  inductive alone: a region is unmapped when its count is down to zero, which leaves
  no chunk of it in use because the count covers the units in use and the chunk that
  is given up is disjoint from the others; and the count covers the rest after a
  chunk was given up for the same reason. The invariant is stated of sets of places;
  each action is a replacement of a chunk by parts of it (`Replace`), a chunk given up
  (`GiveUp`) or a new region (`NewRegion`), for which `GridApart` shows that the chunks
  of `parse_region` lie apart and behind the metadata.

`SizeAccountingProofs`, for all chunk and object sizes, from `SizesAssumption`:

- `Invariance`: `IInv == TypeOK /\ ObjectsConserved /\ NeverFreedEarly`;
  `Conservation`: `ObjectsConserved`.
- `FreedOnlyWhenHome`, `NoUnderflow`: `NeverFreedEarly` and `UsedNotBelowInUse`
  hold although the count is computed from bytes. They rest on
  `DivMulNotBelow` (`n * (x \div s) <= (x * n) \div s`) and on the conservation of
  objects.
- `ExactWhenDividing`: `TestIsExact`, from `DivMulExact`.

`UsedObjectsProofs`, for arrays of any length:

- `BinarySearchFinds`: in every array of `UsedObjects` that is sorted by size, the
  loop of `binary_search_by` ends with the place of the size looked for or, when there
  is none, with the place at which it must be inserted.
- `WriteCounts`: `write_used_number_and_size` keeps the array sorted, with every size
  once, adds the number to the count of its size and changes no other count.

The loop is a recursive function of the range that is left (`Ranges`; its body is
`Narrow`). That there is such a function is shown first (`SearchExists`), by naming for
each range the one thing there is to find in it (`HitExists`, `HitUnique`): what one
half of a range has, the range has (`HitWider`). That it finds the right thing follows
by induction on the length of the range (`UpTo`), which rests on a set of numbers having
a least one (`Least`), and this on the library's theorem that the subsets of a finite
set are well founded.

`SelfAllocProofs`, for chunks, regions and size classes of any number and size, any
limit and any program, from `SelfAllocAssumption`:

- `CallsNest`: `Spec /\ []WithinSizes => []Base`. `Base` is what every step of
  `self_alloc_`, `reserve_slow` and `handle_state` takes for granted about what lies
  below it on the stack. `TypeOK`; each frame was called from a place at which the
  frame below it can go on, its chain has the `State` it is going to use, and every
  `handle_state` has a chain of its own, younger than those below (`StackOK`, `Nested`); what has just been returned is an answer to the question of the frame
  that is now on top, with memory where memory was asked for (`Answers`); and a
  chain, with the `State`s already taken off it, has no more `State`s than there are
  regions (`Regionwise`). None of these is inductive alone: a return finds the right kind of
  frame because of `Nested`, its answer has the right shape because of `Answers`,
  and a `State` found in the chain has its type because of both. There is one lemma
  per action, named for it (`...Keeps`).
- `PanicsHaveReasons`: a call panics either at the limit or in the commit of
  `handle_state`, for want of room in `to_dealloc`, and then more than
  `MAX_STATES + 1` regions are mapped.
- `OnlyTheLimit` (`OnlyTheLimitPanics`): whatever the limit, or without one, as long as
  no more than `MAX_STATES + 1` regions are mapped, the limit is the only reason, and
  `to_dealloc` never is. In the code `to_dealloc` has room for eight `State`s, and nine
  regions are 288 MB. With more regions the push to `to_dealloc` is safe only because
  chains do not become as long as there are regions. That is not proved; `self_alloc`
  checks it on its instance, where the room is for two.

`SelfGrowthProofs`, from the same assumption:

- `GrowthFits` (`VectorsFit`): no vector holds more elements than its buffer has room
  for. There are two halves, each with its part of the inductive invariant.

  The first is `reserve_slow`, which allocates between the test and the write; that
  allocation may push to the same vector, grow it or give its buffer back. Every call
  that will give a buffer back, or will write without another test, keeps at least the
  capacity it has been given, because the calls above it on the same vector aim higher
  (`Capacities`, in `Fit`); a push asks for as much as it puts.

  The second is `handle_state`, which commits a `State` without looking at a capacity,
  after a pass that has grown nothing (`Pass`, with the lemma `CommitRoom`). As long as
  a pass has grown nothing, every task of its earlier parts has the room it asked for,
  and so has every task of the present part that is not still to be done (`Reserved`);
  no step between two tasks of such a pass changes the `State` or a vector, since each
  `reserve` found room. The exception is the pass that has just made the box of a chunk
  table: that allocation may have used the `State`, but the vectors of a table without a
  box have no buffer, so the next task will grow one and there will be another pass
  (`WillGrow`, `BareEmpty`). That the tasks of a pass add up to what the commit writes is
  arithmetic about `Given` and `ToReserve`: the chunks of one size are counted by
  `UsedObjects`, and of the chunks that a `State` has for one size at most one has free
  slots (`UsedFits`), so that asking for the slots of each chunk by itself is enough.

The last point needs `StatesApart`: a `State` lies in memory of a size that the
allocator asks for nothing else of. A chunk for `State`s is marked with the size of
`State`, one for objects with the size of their class, and with both in one vector two
chunks with free slots could each be given room for alone. In the code `State` takes the
class of 14 848 bytes; the tables are smaller, and buffers are powers of two rounded up
to a class. `StatesApart` also says that `COMMON_SIZE_MAX` is a size that has a vector.
The hypothesis `TablesExist` is checked by the run, whose instance satisfies
`StatesApart` (`MCSelfAlloc` states it as an assumption TLC evaluates).

`WithinSizes` says that no vector asks for a buffer beyond the largest class: the code
takes such buffers from the system, which the module leaves out. It is a hypothesis,
not an assumption about constants, because it speaks of the run; the run `self_alloc`
reaches no state in which it is false. `NextPowerOfTwo`, `CountUsedChunks` and
`FlattenSeq` are recursive functions; what is needed of them is that they have values
of the right type, shown once for each.

Model-checked only:

- liveness (`FreedWhenDone`, `SpinEnds`, `EveryCallReturns`), which is out of the
  prover's reach;
- `MetadataInPlace`, which holds of the instance of run `chunks` and not in general
  (finding 3);
- `BTree` with `KeepsMap`: its operators are recursive;
- `Sizes`, whose properties are computations over the tables of the code;
- of `SelfAlloc`: `TablesExist`, which depends on how much fits into a first region;
  `MemoryPartitioned` and `HandedOutOnce`, which compare all pieces of memory at any
  depth of the stack; and `OwnMemoryCounted`, a sum over a set that grows.

## 5. Findings

1. `lfm_xlarge`: `try_free_all_memory` returns `Ok(())` at the first entry of
   `allocated_large_sizes`, having unmapped nothing; the destructor takes it for
   done. An entry remains when another thread freed the object, or when the
   mapping failed (the size is counted all the same).
2. `accounting_home`: `objects_allocated` divides the bytes of all chunks by the
   size, while each chunk is carved alone. When the rests of the chunks add up to
   an object, an object that does not exist counts as used for ever. The test
   errs on the safe side (proved), and memory is never given back. A chunk that is
   pushed to its table before the reserve for its objects fails (`missing` in the
   model) has the same effect; `TestIsExact` names it as the only other case.
3. `chunks_large`: `alloc_large_slow` writes the metadata of a large chunk from
   the unit of its last object on. Objects in earlier units have none, and the
   entries of the chunk behind it are overwritten.
4. `self_alloc_stride`: a `State` is placed in a chunk, and the slots that are left of
   it are handed to the vector of the class, at the distance of `size_of::<State>()`,
   which need not be a class. The vector then holds objects that are less than their
   class apart, and two of them overlap when both are handed out. In a test build the
   size is that of a class, which an assertion checks; with the `REGION_SIZE` of other
   builds a `State` is about 14 400 bytes on a 64-bit machine, and its class has 14 848.
   In the run a `State` takes 5, its class 6, and the program is given 202 to 207 while
   197 to 202 is still free.

Observations without a run, because the instance that reaches them is too large or
the outcome is undefined behaviour:

- The insertion of the first size (`btree/entry.rs:312`) allocates a node, on the
  assumption that there is no tree. The allocation may check incoming pointers, and
  a vector that grows beyond 100 KB for them takes an extra-large buffer, which is
  recorded in the same map; the outer insertion then overwrites the root and the
  length.
- Pointers that arrive while `handle_state` grows the tables
  (`thread_local_allocator.rs:372`) are pushed without the `State`. A vector that
  grows for them may have its old buffer in a chunk of a `State` that is not yet
  committed, which has no metadata; `dealloc_common` and `dealloc_large` assert that
  there is some. The nested pushes are in `SelfAlloc`, the metadata is not.
- `alloc_aligned_from_os` does not look at the result of the `mmap` that commits a
  region (`os/unix.rs:219`), except by `test_assert!`. The model goes on as the code does
  (`Commit`), and `MappingsExact` says what holds all the same; what a program does with
  a region that lacks pages is undefined.
- `spawn_thread` does not look at the result of its mapping.

## 6. Not modelled, and the plan

Not modelled yet, in the order planned:

1. Proofs of `HandedOutOnce` and, for regions that are large enough, of `TablesExist`,
   on top of `Base` (section 4).
2. *B-tree map*: re-entrance at a first node, in the middle of a split or of a
   removal.
3. `SelfAlloc` composed with `ChunkManager`, in place of the open choice in
   `StateOf`, with metadata.
4. `InfoForSizeIter` as an iterator, with its borrow flag.

Left out for good: `free_unused_memory`, which nothing calls; printing of
statistics; NUMA and thread-local accessors, which have no state of their own; `VecInOs`, which
is one step in `free_all_memory`; `clear`, `swap_remove` and the iterators of
`SelfAllocatedVec`;
the parts of the B-tree without callers (ranges, iteration from the back,
`append.rs`, `split.rs`); `extra_large_handler/` and `shared_memory_allocator/`, which are not in the build
or empty; the `is_deallocated` bookkeeping for tests.
