-------------------------------- MODULE Unix ---------------------------------
(***************************************************************************)
(* os/unix.rs under limit.rs: how regions and extra-large objects that the *)
(* limit has granted are mapped, aligned and trimmed, how a thread         *)
(* registers the destructor of its allocator, and how the destructor hands *)
(* the allocator to a new thread.                                          *)
(*                                                                         *)
(* The address space is a row of pages; mmap may take any free ones, and   *)
(* munmap frees pages whoever they belong to.  A region is reserved first  *)
(* and then committed by a second mmap, whose failure goes unnoticed.      *)
(***************************************************************************)
EXTENDS Limit

CONSTANTS Regions,     \* the blocks that are regions; the others are extra-large objects
          Closures,    \* what spawn_thread copies for its thread
          ClosureSize,
          PageSize, Pages,
          HugePage,    \* HugePage["2MB"], HugePage["1GB"]: sizes of huge pages
          MayFail,     \* regions whose commit may fail
          Nobody

ASSUME UnixAssumption ==
  /\ Regions \subseteq Blocks
  /\ Closures \intersect Blocks = {} /\ Nobody \notin Blocks \union Closures
  /\ {ClosureSize, PageSize, HugePage["2MB"], HugePage["1GB"]} \subseteq Nat \ {0}
  /\ Pages \in Nat
  /\ \A b \in Regions : Size[b] % PageSize = 0

VARIABLES
  pages,              \* pages[p]: who has it
  addr,               \* addr[b]: where b is mapped; 0 when it is not
  sys,                \* sys[t]: a mapping that t is making
  SHOULD_TRY_OPTION,
  uncommitted,        \* regions whose second mmap failed
  strayed,            \* munmap of such a region has freed pages of others
  ONCE,
  keys,               \* the number of keys that have been created
  specific,           \* pthread_getspecific(KEY) by thread
  life,               \* life[t]: how far t is with its registration
  running             \* closures of the threads that have been spawned

osVars == <<pages, addr, sys, SHOULD_TRY_OPTION, uncommitted, strayed>>
keyVars == <<ONCE, keys, specific, life, running>>
allVars == <<vars, osVars, keyVars>>

NoCall == [at |-> "idle"]

UnixInit ==
  /\ Init
  /\ pages = [p \in 0 .. Pages - 1 |-> Nobody]
  /\ addr = [b \in Blocks \union Closures |-> 0]
  /\ sys = [t \in Threads |-> NoCall]
  /\ SHOULD_TRY_OPTION = "1GB"
  /\ uncommitted = {}
  /\ strayed = FALSE
  /\ ONCE = "FIRST_CALL"
  /\ keys = 0
  /\ specific = [t \in Threads |-> FALSE]
  /\ life = [t \in Threads |-> "new"]
  /\ running = {}

-----------------------------------------------------------------------------
(* Mapping                                                                 *)

(* The kernel works on whole pages.                                        *)
PagesOf(from, size) == {p \in 0 .. Pages - 1 : p * PageSize < from + size /\ (p + 1) * PageSize > from}
Fits(from, size) == from + size <= Pages * PageSize
Length(b) == IF b \in Closures THEN ClosureSize ELSE Size[b]

(* A region is aligned to its size: alloc_aligned_from_os maps extra.      *)
AllocSize(b) == IF b \in Regions THEN (Size[b] - 1) + Size[b] ELSE Length(b)
Aligned(base, align) == ((base + align - 1) \div align) * align

Owned(ps, owner) == [p \in DOMAIN pages |-> IF p \in ps THEN owner ELSE pages[p]]

InTheMaking == {sys[t].block : t \in {u \in Threads : sys[u] # NoCall}}

(* custom_mmap: which kind of page the option and the size allow           *)
MayBe(kind, b) == SHOULD_TRY_OPTION = kind /\ AllocSize(b) % HugePage[kind] = 0
LoadShouldTryOption(t, b) ==
  /\ sys' = [sys EXCEPT ![t] =
               [at |-> CASE MayBe("1GB", b) -> "1GB" [] MayBe("2MB", b) -> "2MB" [] OTHER -> "plain",
                block |-> b, base |-> 0]]
  /\ UNCHANGED <<pages, addr, SHOULD_TRY_OPTION, uncommitted, strayed>>

BeginMap(t) ==
  /\ call[t].at = "map" /\ sys[t] = NoCall
  /\ LoadShouldTryOption(t, call[t].block)
  /\ UNCHANGED <<vars, keyVars>>

(* mmap has found pages: an extra-large object is there, a region is to be *)
(* committed, a closure is written and given to pthread_create.            *)
Mapped(t) ==
  LET b == sys[t].block IN
  /\ sys[t].at \in {"1GB", "2MB", "again", "plain"}
  /\ \E p \in DOMAIN pages :
       /\ Fits(p * PageSize, AllocSize(b))
       /\ \A q \in PagesOf(p * PageSize, AllocSize(b)) : pages[q] = Nobody
       /\ pages' = Owned(PagesOf(p * PageSize, AllocSize(b)), b)
       /\ addr' = IF b \in Regions THEN addr ELSE [addr EXCEPT ![b] = p * PageSize]
       /\ IF b \in Blocks \ Regions THEN MapOk(t) /\ sys' = [sys EXCEPT ![t] = NoCall]
          ELSE /\ sys' = [sys EXCEPT ![t] = [at |-> IF b \in Regions THEN "commit" ELSE "create",
                                             block |-> b, base |-> p * PageSize]]
               /\ UNCHANGED vars
  /\ UNCHANGED <<SHOULD_TRY_OPTION, uncommitted, strayed, keyVars>>

(* There are no huge pages of the kind: the option is stored for all, and  *)
(* 2 MB are tried.  The bits of MAP_HUGE_2MB (21) and MAP_HUGE_1GB (30)    *)
(* overlap, so the test for the latter also holds of the former: pages of  *)
(* 2 MB are tried twice, and the option may be raised again in between.    *)
HugeFails(t) ==
  LET next == IF sys[t].at = "again" THEN [at |-> "plain", option |-> "none"]
              ELSE [at |-> "again", option |-> "2MB"]
  IN
  /\ sys[t].at \in {"1GB", "2MB", "again"}
  /\ SHOULD_TRY_OPTION' = next.option
  /\ sys' = [sys EXCEPT ![t].at = next.at]
  /\ UNCHANGED <<vars, pages, addr, uncommitted, strayed, keyVars>>

(* null is returned, and what was counted is taken back.  spawn_thread     *)
(* does not expect it: a closure is always mapped here.                    *)
PlainFails(t) ==
  /\ sys[t].at = "plain" /\ sys[t].block \in Blocks
  /\ MapFails(t)
  /\ sys' = [sys EXCEPT ![t] = NoCall]
  /\ UNCHANGED <<pages, addr, SHOULD_TRY_OPTION, uncommitted, strayed, keyVars>>

(* alloc_aligned_from_os commits the aligned part with MAP_FIXED.  When    *)
(* this fails, any of the pages it was to replace may have been unmapped,  *)
(* and what is left of the reservation may not be used.  Only test_assert  *)
(* looks at the result: other builds go on.                                *)
Commit(t) ==
  LET b == sys[t].block
      aligned == Aligned(sys[t].base, Size[b])
  IN
  /\ sys[t].at = "commit"
  /\ \/ UNCHANGED <<pages, uncommitted>>
     \/ /\ b \in MayFail
        /\ \E gone \in SUBSET PagesOf(aligned, Size[b]) : pages' = Owned(gone, Nobody)
        /\ uncommitted' = uncommitted \union {b}
  /\ sys' = [sys EXCEPT ![t].at = "head"]
  /\ UNCHANGED <<vars, addr, SHOULD_TRY_OPTION, strayed, keyVars>>

(* Then it unmaps what is before the aligned address, and what is after    *)
(* the region.                                                             *)
FreeHead(t) ==
  LET base == sys[t].base
      aligned == Aligned(base, Size[sys[t].block])
  IN
  /\ sys[t].at = "head"
  /\ pages' = IF aligned > base THEN Owned(PagesOf(base, aligned - base), Nobody) ELSE pages
  /\ sys' = [sys EXCEPT ![t].at = "tail"]
  /\ UNCHANGED <<vars, addr, SHOULD_TRY_OPTION, uncommitted, strayed, keyVars>>

(* Mistaken: as much is freed as if nothing had been freed before.         *)
FreeTailFromBase(t) ==
  LET b == sys[t].block
      end == Aligned(sys[t].base, Size[b]) + Size[b]
  IN
  /\ sys[t].at = "tail"
  /\ pages' = Owned(PagesOf(end, AllocSize(b) - Size[b]), Nobody)
  /\ addr' = [addr EXCEPT ![b] = Aligned(sys[t].base, Size[b])]
  /\ MapOk(t)
  /\ sys' = [sys EXCEPT ![t] = NoCall]
  /\ UNCHANGED <<SHOULD_TRY_OPTION, uncommitted, strayed, keyVars>>

FreeTail(t) ==
  LET b == sys[t].block
      end == Aligned(sys[t].base, Size[b]) + Size[b]
      alloc_end == sys[t].base + AllocSize(b)
  IN
  /\ sys[t].at = "tail"
  /\ pages' = IF end < alloc_end THEN Owned(PagesOf(end, alloc_end - end), Nobody) ELSE pages
  /\ addr' = [addr EXCEPT ![b] = Aligned(sys[t].base, Size[b])]
  /\ MapOk(t)
  /\ sys' = [sys EXCEPT ![t] = NoCall]
  /\ UNCHANGED <<SHOULD_TRY_OPTION, uncommitted, strayed, keyVars>>

(* os::free, of an address range: what a failed commit has left free there *)
(* may be somebody else's by now.                                          *)
Free(t, b) ==
  LET range == PagesOf(addr[b], Size[b]) IN
  /\ Unmap(t, b)
  /\ strayed' = (strayed \/ (b \in uncommitted /\ \E p \in range : pages[p] \notin {b, Nobody}))
  /\ uncommitted' = uncommitted \ {b}
  /\ pages' = Owned(range, Nobody)
  /\ addr' = [addr EXCEPT ![b] = 0]
  /\ UNCHANGED <<sys, SHOULD_TRY_OPTION, keyVars>>

-----------------------------------------------------------------------------
(* register_thread_local_allocator_destructor                              *)

At(t, at) == call[t] = None /\ sys[t] = NoCall /\ life[t] = at

(* Mistaken: a thread that finds INITIALIZING does not wait.               *)
RegisterWithoutWaiting(t) ==
  /\ At(t, "new")
  /\ ONCE' = IF ONCE = "FIRST_CALL" THEN "INITIALIZING" ELSE ONCE
  /\ life' = [life EXCEPT ![t] = IF ONCE = "FIRST_CALL" THEN "create" ELSE "set"]
  /\ UNCHANGED <<vars, osVars, keys, specific, running>>

Register(t) ==
  /\ At(t, "new")
  /\ ONCE' = IF ONCE = "FIRST_CALL" THEN "INITIALIZING" ELSE ONCE
  /\ life' = [life EXCEPT ![t] = CASE ONCE = "FIRST_CALL" -> "create"
                                   [] ONCE = "INITIALIZING" -> "spin"
                                   [] ONCE = "INITIALIZED" -> "set"]
  /\ UNCHANGED <<vars, osVars, keys, specific, running>>

(* pthread_key_create, which may fail                                      *)
CreateKey(t) ==
  /\ At(t, "create")
  /\ \/ keys' = keys + 1 /\ life' = [life EXCEPT ![t] = "store"]
     \/ keys' = keys /\ life' = [life EXCEPT ![t] = "panicked"]
  /\ UNCHANGED <<vars, osVars, ONCE, specific, running>>

(* Mistaken: only the creator knows.                                       *)
StoreNothing(t) ==
  /\ At(t, "store")
  /\ life' = [life EXCEPT ![t] = "set"]
  /\ UNCHANGED <<vars, osVars, ONCE, keys, specific, running>>

StoreOnce(t) ==
  /\ At(t, "store")
  /\ ONCE' = "INITIALIZED"
  /\ life' = [life EXCEPT ![t] = "set"]
  /\ UNCHANGED <<vars, osVars, keys, specific, running>>

(* One turn of the loop around ONCE.load                                   *)
Spin(t) ==
  /\ At(t, "spin")
  /\ life' = [life EXCEPT ![t] = IF ONCE = "INITIALIZED" THEN "set" ELSE "spin"]
  /\ UNCHANGED <<vars, osVars, ONCE, keys, specific, running>>

SetSpecific(t) ==
  /\ At(t, "set")
  /\ life' = [life EXCEPT ![t] = IF specific[t] THEN "panicked" ELSE "registered"]
  /\ specific' = [specific EXCEPT ![t] = TRUE]
  /\ UNCHANGED <<vars, osVars, ONCE, keys, running>>

(* deregister_thread_local_allocator_destructor, at the end of             *)
(* try_free_all_memory; the next use of the allocator registers again.     *)
Deregister(t) ==
  /\ At(t, "registered") /\ ONCE = "INITIALIZED"
  /\ specific' = [specific EXCEPT ![t] = FALSE]
  /\ life' = [life EXCEPT ![t] = "new"]
  /\ UNCHANGED <<vars, osVars, ONCE, keys, running>>

(* The thread exits: pthread clears the value and calls the destructor.    *)
(* It is done when all memory has been freed; otherwise it moves the       *)
(* allocator to another thread with spawn_thread.                          *)
Exit(t) ==
  /\ At(t, "registered") /\ specific[t]
  /\ specific' = [specific EXCEPT ![t] = FALSE]
  /\ life' = [life EXCEPT ![t] = "exited"]
  /\ \/ UNCHANGED osVars
     \/ \E c \in Closures \ (running \union InTheMaking) : LoadShouldTryOption(t, c)
  /\ UNCHANGED <<vars, ONCE, keys, running>>

(* pthread_create: the closure belongs to the new thread, or is freed.     *)
PthreadCreate(t) ==
  /\ sys[t].at = "create"
  /\ \/ /\ running' = running \union {sys[t].block}
        /\ UNCHANGED <<pages, addr, life>>
     \/ /\ pages' = Owned(PagesOf(addr[sys[t].block], ClosureSize), Nobody)
        /\ addr' = [addr EXCEPT ![sys[t].block] = 0]
        /\ life' = [life EXCEPT ![t] = "panicked"]
        /\ UNCHANGED running
  /\ sys' = [sys EXCEPT ![t] = NoCall]
  /\ UNCHANGED <<vars, SHOULD_TRY_OPTION, uncommitted, strayed, ONCE, keys, specific>>

(* start: the closure has returned, and its memory is unmapped.            *)
Start(c) ==
  /\ c \in running
  /\ running' = running \ {c}
  /\ pages' = Owned(PagesOf(addr[c], ClosureSize), Nobody)
  /\ addr' = [addr EXCEPT ![c] = 0]
  /\ UNCHANGED <<vars, sys, SHOULD_TRY_OPTION, uncommitted, strayed, ONCE, keys, specific, life>>

-----------------------------------------------------------------------------
(* A thread maps and unmaps when it is in no other call.  What the program *)
(* does after munmap has strayed is undefined: nothing new begins.         *)
MayBegin(t) == ~strayed /\ sys[t] = NoCall /\ life[t] \in {"new", "registered"}

UnixNext ==
  \/ (\E l \in Limits : SetAllocatorLimit(l)) /\ UNCHANGED <<osVars, keyVars>>
  \/ \E t \in Threads :
       \/ /\ MayBegin(t)
          /\ \E b \in Blocks : LoadAllocated(t, b) \/ AllocateAnyWay(t, b)
          /\ UNCHANGED <<osVars, keyVars>>
       \/ (Refuse(t) \/ CompareExchange(t) \/ MarkDeallocated(t)) /\ UNCHANGED <<osVars, keyVars>>
       \/ MayBegin(t) /\ \E b \in Blocks : Free(t, b)
       \/ BeginMap(t) \/ Mapped(t) \/ HugeFails(t) \/ PlainFails(t)
       \/ Commit(t) \/ FreeHead(t) \/ FreeTail(t)
       \/ Register(t) \/ CreateKey(t) \/ StoreOnce(t) \/ Spin(t) \/ SetSpecific(t)
       \/ Deregister(t) \/ Exit(t) \/ PthreadCreate(t)
  \/ \E c \in Closures : Start(c)

UnixSpec ==
  /\ UnixInit /\ [][UnixNext]_allVars
  /\ \A t \in Threads : WF_allVars(CreateKey(t) \/ StoreOnce(t) \/ Spin(t))

-----------------------------------------------------------------------------
Has(b) == {p \in DOMAIN pages : pages[p] = b}

(* Every block that is mapped has exactly its own pages, a region at a     *)
(* multiple of its size, and no page is left to anyone else than a mapping *)
(* that is being made and the closure of a running thread: neither the     *)
(* trimming nor munmap reaches into what others map meanwhile, and nothing *)
(* is leaked.  The exception is a region whose commit failed unnoticed: it *)
(* may lack pages, but takes none from others before it is unmapped where  *)
(* others have mapped what it lacks.                                       *)
MappingsExact ==
  ~strayed =>
    /\ \A b \in mapped :
         /\ Has(b) \subseteq PagesOf(addr[b], Size[b])
         /\ b \notin uncommitted => Has(b) = PagesOf(addr[b], Size[b]) /\ Has(b) # {}
    /\ \A b \in mapped \intersect Regions : addr[b] % Size[b] = 0
    /\ \A p \in DOMAIN pages :
         pages[p] \in {Nobody} \union mapped \union running \union InTheMaking

(* The key is created at most once, it exists before any thread uses it,   *)
(* and no thread finds a value of its own there when it registers (what    *)
(* the assertion of register_thread_local_allocator_destructor says).      *)
KeyReady ==
  /\ keys <= 1
  /\ \A t \in Threads : life[t] \in {"set", "registered"} => keys = 1
  /\ \A t \in Threads : life[t] = "set" => ~specific[t]

(* A thread that waits for the key goes on, unless the key cannot be had:  *)
(* then INITIALIZING stays for ever.                                       *)
SpinEnds ==
  \A t \in Threads :
    life[t] = "spin" ~> (life[t] # "spin" \/ \E u \in Threads : life[u] = "panicked" /\ keys = 0)

-----------------------------------------------------------------------------
(* Why the mappings are exact and the key is ready: the parts of an        *)
(* inductive invariant.                                                    *)

Trying == {"1GB", "2MB", "again", "plain"}
Making == [at : Trying \union {"commit", "head", "tail", "create"}, block : Blocks \union Closures, base : Nat]

UnixTypeOK ==
  /\ pages \in [0 .. Pages - 1 -> Blocks \union Closures \union {Nobody}]
  /\ addr \in [Blocks \union Closures -> Nat]
  /\ sys \in [Threads -> Making \union {NoCall}]
  /\ SHOULD_TRY_OPTION \in {"1GB", "2MB", "none"}
  /\ uncommitted \subseteq Regions
  /\ strayed \in BOOLEAN
  /\ ONCE \in {"FIRST_CALL", "INITIALIZING", "INITIALIZED"}
  /\ keys \in Nat
  /\ specific \in [Threads -> BOOLEAN]
  /\ life \in [Threads -> {"new", "create", "store", "spin", "set", "registered", "exited", "panicked"}]
  /\ running \subseteq Closures

(* ONCE, the key and the one thread that makes it go together; a value is  *)
(* set only while its thread is registered.                                *)
KeyOnce ==
  /\ keys = 1 <=> ONCE = "INITIALIZED" \/ \E t \in Threads : life[t] = "store"
  /\ keys <= 1
  /\ \A t \in Threads : life[t] \in {"create", "store"} =>
       /\ ONCE = "INITIALIZING"
       /\ \A u \in Threads \ {t} : life[u] \notin {"create", "store"}
  /\ \A t \in Threads : life[t] \in {"set", "registered"} => ONCE = "INITIALIZED"
  /\ \A t \in Threads : specific[t] => life[t] = "registered"

(* What a thread maps is the block of its call or, at its end, a closure;  *)
(* no other thread maps it.                                                *)
MakingApart ==
  \A t \in Threads : sys[t] # NoCall =>
    /\ \/ sys[t].block \in Closures \ running /\ life[t] = "exited" /\ sys[t].at \in Trying \union {"create"}
       \/ call[t].at = "map" /\ sys[t].block = call[t].block /\ sys[t].at \in Trying
       \/ /\ call[t].at = "map" /\ sys[t].block = call[t].block /\ sys[t].at \in {"commit", "head", "tail"}
          /\ sys[t].block \in Regions /\ sys[t].base % PageSize = 0
          /\ Fits(sys[t].base, AllocSize(sys[t].block))
    /\ \A u \in Threads \ {t} : sys[u] # NoCall => sys[u].block # sys[t].block

(* A region whose commit has failed is mapped, or being trimmed.           *)
FailedCommits ==
  \A b \in uncommitted :
    b \in mapped \/ \E t \in Threads : sys[t].at \in {"head", "tail"} /\ sys[t].block = b

(* The pages a mapping has so far: none, then all that mmap gave, then     *)
(* what is left of them; and those of them that a failed commit may have   *)
(* lost.                                                                   *)
MadeOf(s) ==
  LET aligned == Aligned(s.base, Size[s.block]) IN
  CASE s.at \in Trying -> {}
    [] s.at \in {"commit", "head"} -> PagesOf(s.base, AllocSize(s.block))
    [] s.at = "tail" -> PagesOf(aligned, (s.base + AllocSize(s.block)) - aligned)
    [] s.at = "create" -> PagesOf(s.base, ClosureSize)
LostOf(s) ==
  IF s.block \in uncommitted THEN PagesOf(Aligned(s.base, Size[s.block]), Size[s.block]) ELSE {}

PagesExact ==
  /\ \A t \in Threads : sys[t] # NoCall =>
       /\ Has(sys[t].block) \subseteq MadeOf(sys[t])
       /\ MadeOf(sys[t]) \ Has(sys[t].block) \subseteq LostOf(sys[t])
       /\ sys[t].at = "create" => addr[sys[t].block] = sys[t].base
  /\ \A b \in mapped \union running :
       /\ Has(b) \subseteq PagesOf(addr[b], Length(b))
       /\ b \notin uncommitted => Has(b) = PagesOf(addr[b], Length(b))
  /\ \A b \in mapped \ uncommitted : Has(b) # {}
  /\ \A b \in mapped \intersect Regions : addr[b] % Size[b] = 0
  /\ \A p \in DOMAIN pages :
       pages[p] \in {Nobody} \union mapped \union running \union InTheMaking

UnixIInv ==
  IInv /\ UnixTypeOK /\ KeyOnce /\ MakingApart /\ FailedCommits /\ (~strayed => PagesExact)
=============================================================================
