--------------------------- MODULE LockFreeManager ---------------------------
(***************************************************************************)
(* LockFreeNonLocalPtrManager, and the operations of ThreadLocalAllocator  *)
(* that use it: allocation, deallocation, the destructor and the thread    *)
(* that keeps an allocator alive until all its memory has come back.       *)
(*                                                                         *)
(* An allocator is used by one thread at a time, the one it was created in *)
(* and then its background thread, so allocators are also the processes.   *)
(* A thread that allocates again after its destructor ran gets a new       *)
(* ThreadLocalAllocator: another member of Allocators.                     *)
(*                                                                         *)
(* A step is what one thread does up to and including its next access to   *)
(* shared memory.  Only the heads of the lists are shared: a node's memory *)
(* belongs to the thread that is pushing it, or that swapped it out.  The  *)
(* compare-exchanges release and the swap acquires, and compare-exchanges  *)
(* continue a release sequence, so the interleavings below are all there   *)
(* are.                                                                    *)
(***************************************************************************)
EXTENDS Owners, Naturals, FiniteSets, Sequences

CONSTANTS Class,       \* Class[s]: the size class of that chunk
          NodeClass,   \* the class of size_of::<Node<NonLocalPtrData>>()
          Demand,      \* Demand[a]: the classes the program asks a for
          XLarge,      \* extra-large objects, mapped one by one
          MaxSizes,    \* bound on the count in allocated_large_sizes
          MayPanic,    \* allocators whose thread may end by a panic
          MaxDepth,    \* bound on nested checks of one thread
          NULL,        \* the null pointer
          Unread       \* the head before the first load

Classes == {Class[s] : s \in Slots} \union {NodeClass}

ASSUME ConstantsAssumption ==
  /\ IsFiniteSet(Slots)
  /\ DOMAIN Class = Slots
  /\ Demand \in [Allocators -> SUBSET Classes]
  /\ XLarge \intersect Slots = {}
  /\ MayPanic \subseteq Allocators
  /\ MaxDepth \in Nat \ {0} /\ MaxSizes \in Nat
  /\ NULL \notin Slots
  /\ Unread \notin Slots \union {NULL}

VARIABLES
  phase,   \* fresh, live, background, and how it ends: freed, leaked, abandoned
  chunks,  \* chunks[a]: the classes a has carved a chunk for
  vec,     \* vec[a][c]: the common/large object table
  user,    \* pointers the program holds
  head,    \* head[a]: head_of_list of a's manager
  next,    \* next[n], value[n]: the fields of the Node at address n
  value,
  job,     \* job[a]: the operation a's thread is in
  frames,  \* frames[a]: its calls of check_for_incoming_non_local_ptrs
  post,    \* post[a]: its call of add_new_node_ptr
  sizes    \* sizes[a]: the count in allocated_large_sizes (one size)

memory  == <<next, value>>
threads == <<job, frames, post>>
vars    == <<phase, chunks, vec, user, head, next, value, job, frames, post, sizes>>

Idle    == [kind |-> "idle"]
NoPost  == [node |-> NULL]
Random  == "random"     \* OffsetToSlotInTable::random()

(* NonLocalPtrData: a pointer and the slot of the table it goes back to.   *)
NonLocalPtrData(p, offset) == [ptr |-> p, offset |-> offset]
(* The memory of a slot that is not a node is not looked at.               *)
Blank == NonLocalPtrData(NULL, Random)

SlotsOf(a, c) == {s \in Slots : Owner[s] = a /\ Class[s] = c}
Push(v, a, c, s) == [v EXCEPT ![a][c] = @ \union {s}]
Pop(v, a, c, s) == [v EXCEPT ![a][c] = @ \ {s}]

Gone == {"freed", "leaked", "abandoned"}
(* The thread of a runs user code, between two operations.                 *)
Ready(a) == /\ phase[a] \in {"fresh", "live"}
            /\ job[a] = Idle /\ frames[a] = <<>> /\ post[a] = NoPost
(* The thread of a is in an operation and not inside a check.              *)
In(a, kind) == job[a].kind = kind /\ frames[a] = <<>> /\ post[a] = NoPost

(* The local variables of the threads: the operation, the frames of the    *)
(* nested checks, and the call of add_new_node_ptr.                        *)
Jobs ==
  [kind : {"idle", "check", "try"}]
    \union [kind : {"alloc"}, class : Classes, again : BOOLEAN]
    \union [kind : {"local"}, slot : Slots]
    \union [kind : {"send"}, slot : Slots, class : {NodeClass}, again : BOOLEAN]
Frames == {f \in [cur : Slots \union {NULL}, next : Slots \union {NULL},
                  grown : BOOLEAN, handled : BOOLEAN] : f.handled => f.cur # NULL}
Posts == [node : Slots, to : Allocators, seen : Slots \union {NULL, Unread}]

TypeOK ==
  /\ phase \in [Allocators -> {"fresh", "live", "background"} \union Gone]
  /\ chunks \in [Allocators -> SUBSET Classes]
  /\ vec \in [Allocators -> [Classes -> SUBSET Slots]]
  /\ user \subseteq Slots \union XLarge
  /\ head \in [Allocators -> Slots \union {NULL}]
  /\ next \in [Slots -> Slots \union {NULL}]
  /\ value \in [Slots -> [ptr : Slots \union {NULL}, offset : Classes \union {Random}]]
  /\ job \in [Allocators -> Jobs]
  /\ frames \in [Allocators -> Seq(Frames)]
  /\ post \in [Allocators -> Posts \union {NoPost}]
  /\ sizes \in [Allocators -> 0 .. MaxSizes]

Init ==
  /\ phase = [a \in Allocators |-> "fresh"]
  /\ chunks = [a \in Allocators |-> {}]
  /\ vec = [a \in Allocators |-> [c \in Classes |-> {}]]
  /\ user = {}
  /\ head = [a \in Allocators |-> NULL]
  /\ next = [s \in Slots |-> NULL]
  /\ value = [s \in Slots |-> Blank]
  /\ job = [a \in Allocators |-> Idle]
  /\ frames = [a \in Allocators |-> <<>>]
  /\ post = [a \in Allocators |-> NoPost]
  /\ sizes = [a \in Allocators |-> 0]

-----------------------------------------------------------------------------
(* add_new_node_ptr.  The store to node.next is private until the          *)
(* compare-exchange succeeds and is part of that step; a spurious failure  *)
(* of compare_exchange_weak reads the same head again and changes nothing. *)

AddNewNodePtr(n, to) == [node |-> n, to |-> to, seen |-> Unread]

LoadHead(a) ==
  /\ post[a] # NoPost
  /\ post[a].seen = Unread
  /\ post' = [post EXCEPT ![a].seen = head[post[a].to]]
  /\ UNCHANGED <<phase, chunks, vec, user, head, memory, job, frames, sizes>>

(* Mistaken: a store in place of the compare-exchange.                     *)
StoreHead(a) ==
  LET p == post[a] IN
  /\ p # NoPost
  /\ p.seen # Unread
  /\ next' = [next EXCEPT ![p.node] = p.seen]
  /\ head' = [head EXCEPT ![p.to] = p.node]
  /\ post' = [post EXCEPT ![a] = NoPost]
  /\ UNCHANGED <<phase, chunks, vec, user, value, job, frames, sizes>>

CompareExchangeOk(a) ==
  LET p == post[a] IN
  /\ p # NoPost
  /\ p.seen = head[p.to]
  /\ next' = [next EXCEPT ![p.node] = p.seen]
  /\ head' = [head EXCEPT ![p.to] = p.node]
  /\ post' = [post EXCEPT ![a] = NoPost]
  /\ UNCHANGED <<phase, chunks, vec, user, value, job, frames, sizes>>

CompareExchangeErr(a) ==
  /\ post[a] # NoPost
  /\ post[a].seen \notin {Unread, head[post[a].to]}
  /\ post' = [post EXCEPT ![a].seen = head[post[a].to]]
  /\ UNCHANGED <<phase, chunks, vec, user, head, memory, job, frames, sizes>>

-----------------------------------------------------------------------------
(* check_for_incoming_non_local_ptrs.  A frame holds the local variable    *)
(* cur and, once the node at cur has been handled, the copy of its next    *)
(* field that was made before.  A push that grows its vector allocates for *)
(* the allocator itself and can enter the check again (deeper).            *)

Frame(n) == [cur |-> n, next |-> NULL, grown |-> FALSE, handled |-> FALSE]
Top(a) == frames[a][Len(frames[a])]
SetTop(a, f) == [frames EXCEPT ![a][Len(frames[a])] = f]
Checking(a) == frames[a] # <<>> /\ post[a] = NoPost

(* The swap: a's thread owns the whole list.                               *)
Swap(a, fs) ==
  /\ head' = [head EXCEPT ![a] = NULL]
  /\ frames' = [frames EXCEPT ![a] = Append(fs, Frame(head[a]))]

GrowVec(a) ==
  /\ Checking(a)
  /\ Top(a).cur # NULL /\ ~Top(a).handled /\ ~Top(a).grown
  /\ Len(frames[a]) < MaxDepth
  /\ Swap(a, SetTop(a, [Top(a) EXCEPT !.grown = TRUE])[a])
  /\ UNCHANGED <<phase, chunks, vec, user, memory, job, post, sizes>>

(* The node has come back after the deallocation of a non-local pointer.   *)
KeepNode(a) ==
  LET n == Top(a).cur IN
  /\ Checking(a)
  /\ n # NULL /\ ~Top(a).handled
  /\ value[n].ptr = n
  /\ vec' = Push(vec, a, NodeClass, n)
  /\ frames' = SetTop(a, [Frame(n) EXCEPT !.next = next[n], !.handled = TRUE])
  /\ value' = [value EXCEPT ![n] = Blank]
  /\ next' = [next EXCEPT ![n] = NULL]
  /\ UNCHANGED <<phase, chunks, user, head, job, post, sizes>>

(* The pointer goes to its vector, and the node back to its owner.         *)
ReturnNode(a) ==
  LET n == Top(a).cur IN
  /\ Checking(a)
  /\ n # NULL /\ ~Top(a).handled
  /\ value[n].ptr # n
  /\ vec' = Push(vec, a, value[n].offset, value[n].ptr)
  /\ value' = [value EXCEPT ![n] = NonLocalPtrData(n, Random)]
  /\ frames' = SetTop(a, [Frame(n) EXCEPT !.next = next[n], !.handled = TRUE])
  /\ post' = [post EXCEPT ![a] = AddNewNodePtr(n, Owner[n])]
  /\ UNCHANGED <<phase, chunks, user, head, next, job, sizes>>

(* Mistaken: the next field is read when the node is in another list.      *)
FollowingReread(a) == next[Top(a).cur]

(* cur = node.next, from the copy.                                         *)
Following(a) == Top(a).next

Advance(a) ==
  /\ Checking(a)
  /\ Top(a).handled
  /\ frames' = SetTop(a, Frame(Following(a)))
  /\ UNCHANGED <<phase, chunks, vec, user, head, memory, job, post, sizes>>

EndCheck(a) ==
  /\ Checking(a)
  /\ Top(a).cur = NULL
  /\ frames' = [frames EXCEPT ![a] = SubSeq(@, 1, Len(@) - 1)]
  /\ UNCHANGED <<phase, chunks, vec, user, head, memory, job, post, sizes>>

-----------------------------------------------------------------------------
(* Allocation and deallocation.                                            *)

(* The first slow path creates the manager and registers the destructor.   *)
Register(a) == phase' = [phase EXCEPT ![a] = IF @ = "fresh" THEN "live" ELSE @]

(* An operation enters the slow path, which begins with a check.           *)
Slow(a, j) ==
  /\ job' = [job EXCEPT ![a] = j]
  /\ Swap(a, <<>>)
  /\ Register(a)
  /\ UNCHANGED <<chunks, vec, user, memory, post, sizes>>

Alloc(a, c) ==
  /\ Ready(a)
  /\ \E s \in vec[a][c] :
       /\ vec' = Pop(vec, a, c, s)
       /\ user' = user \union {s}
  /\ UNCHANGED <<phase, chunks, head, memory, threads, sizes>>

AllocSlow(a, c) ==
  /\ Ready(a)
  /\ vec[a][c] = {}
  /\ Slow(a, [kind |-> "alloc", class |-> c, again |-> FALSE])

(* Taking a chunk may itself have to check (chunk manager, tables).        *)
CheckAgain(a) ==
  /\ In(a, "alloc") \/ In(a, "send")
  /\ ~job[a].again
  /\ vec[a][job[a].class] = {}
  /\ Slow(a, [job[a] EXCEPT !.again = TRUE])

(* The vector is still empty: a new chunk is carved.  (One chunk for each  *)
(* class is the bound of the model.)                                       *)
CarveChunk(a) ==
  LET c == job[a].class IN
  /\ In(a, "alloc") \/ In(a, "send")
  /\ vec[a][c] = {}
  /\ c \notin chunks[a]
  /\ chunks' = [chunks EXCEPT ![a] = @ \union {c}]
  /\ vec' = [vec EXCEPT ![a][c] = SlotsOf(a, c)]
  /\ UNCHANGED <<phase, user, head, memory, threads, sizes>>

AllocDone(a) ==
  LET c == job[a].class IN
  /\ In(a, "alloc")
  /\ \E s \in vec[a][c] :
       /\ vec' = Pop(vec, a, c, s)
       /\ user' = user \union {s}
  /\ job' = [job EXCEPT ![a] = Idle]
  /\ UNCHANGED <<phase, chunks, head, memory, frames, post, sizes>>

(* No chunk can be had: the limit is reached and None is returned.         *)
AllocNone(a) ==
  /\ In(a, "alloc")
  /\ vec[a][job[a].class] = {} /\ job[a].class \in chunks[a]
  /\ job' = [job EXCEPT ![a] = Idle]
  /\ UNCHANGED <<phase, chunks, vec, user, head, memory, frames, post, sizes>>

IsLocalPtr(a, s) == Owner[s] = a

DeallocLocal(a, s) ==
  /\ Ready(a)
  /\ s \in user \intersect Slots
  /\ IsLocalPtr(a, s)
  /\ user' = user \ {s}
  /\ vec' = Push(vec, a, Class[s], s)
  /\ UNCHANGED <<phase, chunks, head, memory, threads, sizes>>

(* The vector has to grow before the push: the pointer is out of the       *)
(* user's hands and not yet in the vector while a check runs.              *)
DeallocLocalGrow(a, s) ==
  /\ Ready(a)
  /\ s \in user \intersect Slots
  /\ IsLocalPtr(a, s)
  /\ job' = [job EXCEPT ![a] = [kind |-> "local", slot |-> s]]
  /\ user' = user \ {s}
  /\ Swap(a, <<>>)
  /\ UNCHANGED <<phase, chunks, vec, memory, post, sizes>>

DeallocLocalDone(a) ==
  LET s == job[a].slot IN
  /\ In(a, "local")
  /\ vec' = Push(vec, a, Class[s], s)
  /\ job' = [job EXCEPT ![a] = Idle]
  /\ UNCHANGED <<phase, chunks, user, head, memory, frames, post, sizes>>

(* Mistaken: the offset is that of the node's vector.                      *)
SendInNodeVector(a, n, s) ==
  /\ vec' = Pop(vec, a, NodeClass, n)
  /\ value' = [value EXCEPT ![n] = NonLocalPtrData(s, NodeClass)]
  /\ post' = [post EXCEPT ![a] = AddNewNodePtr(n, Owner[s])]

(* Mistaken: the node stays in the vector it is taken from.                *)
SendInKeepsNode(a, n, s) ==
  /\ value' = [value EXCEPT ![n] = NonLocalPtrData(s, Class[s])]
  /\ post' = [post EXCEPT ![a] = AddNewNodePtr(n, Owner[s])]
  /\ UNCHANGED vec

(* Mistaken: the node goes to the list of the allocator it was taken from. *)
SendInOwnList(a, n, s) ==
  /\ vec' = Pop(vec, a, NodeClass, n)
  /\ value' = [value EXCEPT ![n] = NonLocalPtrData(s, Class[s])]
  /\ post' = [post EXCEPT ![a] = AddNewNodePtr(n, Owner[n])]

(* deallocate_non_local_ptr once it has its node.                          *)
SendIn(a, n, s) ==
  /\ vec' = Pop(vec, a, NodeClass, n)
  /\ value' = [value EXCEPT ![n] = NonLocalPtrData(s, Class[s])]
  /\ post' = [post EXCEPT ![a] = AddNewNodePtr(n, Owner[s])]

DeallocNonLocal(a, s) ==
  /\ Ready(a)
  /\ s \in user \intersect Slots
  /\ ~IsLocalPtr(a, s)
  /\ user' = user \ {s}
  /\ \E n \in vec[a][NodeClass] : SendIn(a, n, s)
  /\ UNCHANGED <<phase, chunks, head, next, job, frames, sizes>>

DeallocNonLocalSlow(a, s) ==
  /\ Ready(a)
  /\ s \in user \intersect Slots
  /\ ~IsLocalPtr(a, s)
  /\ vec[a][NodeClass] = {}
  /\ user' = user \ {s}
  /\ job' = [job EXCEPT ![a] =
               [kind |-> "send", slot |-> s, class |-> NodeClass, again |-> FALSE]]
  /\ Swap(a, <<>>)
  /\ Register(a)
  /\ UNCHANGED <<chunks, vec, memory, post, sizes>>

DeallocNonLocalDone(a) ==
  /\ In(a, "send")
  /\ \E n \in vec[a][NodeClass] : SendIn(a, n, job[a].slot)
  /\ job' = [job EXCEPT ![a] = Idle]
  /\ UNCHANGED <<phase, chunks, user, head, next, frames, sizes>>

(* Extra-large objects are mapped one by one and counted, by size, in the  *)
(* map of the thread that allocates and of the one that deallocates.       *)
AllocExtraLarge(a, x) ==
  /\ Ready(a)
  /\ x \in XLarge \ user /\ sizes[a] < MaxSizes
  /\ user' = user \union {x}
  /\ sizes' = [sizes EXCEPT ![a] = @ + 1]
  /\ Register(a)
  /\ UNCHANGED <<chunks, vec, head, memory, threads>>

(* The system has no memory: the size is counted although None is          *)
(* returned.                                                               *)
AllocExtraLargeNone(a) ==
  /\ Ready(a)
  /\ XLarge # {} /\ sizes[a] < MaxSizes
  /\ sizes' = [sizes EXCEPT ![a] = @ + 1]
  /\ Register(a)
  /\ UNCHANGED <<chunks, vec, user, head, memory, threads>>

(* Mistaken: no test whether this allocator has an entry for the size.     *)
DeallocExtraLargeUntested(a, x) ==
  /\ Ready(a)
  /\ x \in XLarge \intersect user
  /\ user' = user \ {x}
  /\ sizes' = [sizes EXCEPT ![a] = @ - 1]
  /\ UNCHANGED <<phase, chunks, vec, head, memory, threads>>

DeallocExtraLarge(a, x) ==
  /\ Ready(a)
  /\ x \in XLarge \intersect user
  /\ user' = user \ {x}
  /\ sizes' = [sizes EXCEPT ![a] = IF @ > 0 THEN @ - 1 ELSE @]
  /\ UNCHANGED <<phase, chunks, vec, head, memory, threads>>

-----------------------------------------------------------------------------
(* The destructor.                                                         *)

(* Mistaken: objects used as nodes count as the allocator's own.           *)
MayBeFreedDespiteNodes(a) ==
  \A c \in chunks[a] \ {NodeClass} :
    Cardinality(vec[a][c]) = Cardinality(SlotsOf(a, c))

(* objects_used = allocated_for_self_objects for every size: the vector    *)
(* has as many pointers as its chunks have slots.                          *)
MayBeFreed(a) ==
  \A c \in chunks[a] : Cardinality(vec[a][c]) = Cardinality(SlotsOf(a, c))

(* try_free_all_memory = Ok: everything is unmapped, or - the map of       *)
(* extra-large sizes comes last in the iteration - nothing is.             *)
TryFreeOk(a) ==
  /\ MayBeFreed(a)
  /\ \/ /\ sizes[a] > 0
        /\ phase' = [phase EXCEPT ![a] = "leaked"]
        /\ UNCHANGED <<chunks, vec>>
     \/ /\ sizes[a] = 0
        /\ phase' = [phase EXCEPT ![a] = "freed"]
        /\ chunks' = [chunks EXCEPT ![a] = {}]
        /\ vec' = [vec EXCEPT ![a] = [c \in Classes |-> {}]]
  /\ job' = [job EXCEPT ![a] = Idle]
  /\ UNCHANGED <<user, head, memory, frames, post, sizes>>

DestructorFrees(a) == Ready(a) /\ phase[a] = "live" /\ TryFreeOk(a)

(* move_to_another_thread.                                                 *)
DestructorMoves(a) ==
  /\ Ready(a) /\ phase[a] = "live"
  /\ ~MayBeFreed(a)
  /\ phase' = [phase EXCEPT ![a] = "background"]
  /\ job' = [job EXCEPT ![a] = [kind |-> "check"]]
  /\ UNCHANGED <<chunks, vec, user, head, memory, frames, post, sizes>>

DestructorPanicking(a) ==
  /\ Ready(a) /\ phase[a] = "live"
  /\ a \in MayPanic
  /\ phase' = [phase EXCEPT ![a] = "abandoned"]
  /\ UNCHANGED <<chunks, vec, user, head, memory, threads, sizes>>

(* Mistaken: the loop does not look at the list.                           *)
BackgroundSkipsCheck(a) ==
  /\ In(a, "check")
  /\ job' = [job EXCEPT ![a] = [kind |-> "try"]]
  /\ UNCHANGED <<phase, chunks, vec, user, head, memory, frames, post, sizes>>

(* The loop of the background thread.                                      *)
BackgroundCheck(a) ==
  /\ In(a, "check")
  /\ job' = [job EXCEPT ![a] = [kind |-> "try"]]
  /\ Swap(a, <<>>)
  /\ UNCHANGED <<phase, chunks, vec, user, memory, post, sizes>>

BackgroundFrees(a) == In(a, "try") /\ TryFreeOk(a)

BackgroundSleeps(a) ==
  /\ In(a, "try")
  /\ ~MayBeFreed(a)
  /\ job' = [job EXCEPT ![a] = [kind |-> "check"]]
  /\ UNCHANGED <<phase, chunks, vec, user, head, memory, frames, post, sizes>>

-----------------------------------------------------------------------------
(* What the program does of its own accord.                                *)
Program(a) ==
  \/ \E c \in Demand[a] : Alloc(a, c) \/ AllocSlow(a, c)
  \/ \E s \in Slots : \/ DeallocLocal(a, s) \/ DeallocLocalGrow(a, s)
                      \/ DeallocNonLocal(a, s) \/ DeallocNonLocalSlow(a, s)
  \/ \E x \in XLarge : AllocExtraLarge(a, x) \/ DeallocExtraLarge(a, x)
  \/ AllocExtraLargeNone(a)
  \/ DestructorFrees(a) \/ DestructorMoves(a) \/ DestructorPanicking(a)

(* What follows once an operation of the allocator has begun.              *)
Operation(a) ==
  \/ LoadHead(a) \/ CompareExchangeOk(a) \/ CompareExchangeErr(a)
  \/ GrowVec(a) \/ KeepNode(a) \/ ReturnNode(a) \/ Advance(a) \/ EndCheck(a)
  \/ CheckAgain(a) \/ CarveChunk(a) \/ AllocDone(a) \/ AllocNone(a)
  \/ DeallocLocalDone(a) \/ DeallocNonLocalDone(a)
  \/ BackgroundCheck(a) \/ BackgroundFrees(a) \/ BackgroundSleeps(a)

Next == \E a \in Allocators : Program(a) \/ Operation(a)

Spec == Init /\ [][Next]_vars

(* The threads of the process are scheduled; the program owes nothing.     *)
FairSpec == Spec /\ \A a \in Allocators : WF_vars(Operation(a))

-----------------------------------------------------------------------------
(* The nodes reachable from n when nx are the next fields: the least set   *)
(* that contains n and, with a node, the one it points to.                 *)
Chain(nx, n) ==
  LET closed == {S \in SUBSET Slots : \A k \in S : nx[k] \in S \union {NULL}}
  IN {m \in Slots : \A S \in closed : n \in S \union {NULL} => m \in S}

(* The node a frame goes on with.                                          *)
Rest(f) == IF f.handled THEN f.next ELSE f.cur

(* A pointer is with the user until its deallocation has an effect.        *)
Pending == {job[a].slot : a \in {b \in Allocators : job[b].kind \in {"local", "send"}}}

(* The variables of PtrReturn: what is in a list, what a's thread has      *)
(* swapped out and not handled yet, what it is about to push.              *)
phaseBar  == [a \in Allocators |-> CASE phase[a] \in {"fresh", "live"} -> "live"
                                     [] phase[a] = "freed" -> "freed"
                                     [] OTHER -> "exited"]
carvedBar == {s \in Slots : Class[s] \in chunks[Owner[s]]}
vecBar    == [a \in Allocators |-> UNION {vec[a][c] : c \in Classes}]
userBar   == (user \intersect Slots) \union Pending
inboxBar  == [a \in Allocators |-> Chain(next, head[a])]
batchBar  == [a \in Allocators |->
                UNION {Chain(next, Rest(frames[a][i])) : i \in DOMAIN frames[a]}]
handBar   == [a \in Allocators |-> {post[a].node} \ {NULL}]
valueBar  == [s \in Slots |-> IF value[s].ptr = NULL THEN s ELSE value[s].ptr]

Promise == INSTANCE PtrReturn WITH
  phase <- phaseBar, carved <- carvedBar, vec <- vecBar, user <- userBar,
  inbox <- inboxBar, batch <- batchBar, hand <- handBar, value <- valueBar

(* The lock-free lists with their loads, compare-exchanges and swaps, the  *)
(* nested checks and the background threads do what PtrReturn promises: no *)
(* node is lost, duplicated or misdelivered by a race on head_of_list.     *)
KeepsPromise == Promise!Spec

(* A slot is in one place only: it is never free and in use at the same    *)
(* time, in two lists or swapped-out chains, or carried by two nodes.      *)
(* This is what makes a pointer handed out by try_alloc exclusive.         *)
OnePlace == Promise!OnePlace

(* No slot is lost between loads, compare-exchanges, swaps and nested      *)
(* checks: one that was carved is in its vector, with the user, or on its  *)
(* way, as a node that some chain still reaches or carried by one.         *)
NothingLost == Promise!NothingLost

(* What reaches an allocator is its own: its list and the chains it swaps  *)
(* out hold only nodes whose value belongs to it, so that                  *)
(* check_for_incoming_non_local_ptrs fills its vectors from its own chunks *)
(* and their count tells when all of them are back.                        *)
Addressed == Promise!Addressed

(* Whatever is held, listed or carried lies in a chunk that exists, and    *)
(* nothing of an allocator does once try_free_all_memory has unmapped its  *)
(* regions.                                                                *)
Existing == Promise!Existing

(* No thread reads or writes memory of an allocator whose regions are      *)
(* unmapped: not the manager it is pushing to, not a node in a list, in a  *)
(* swapped-out chain or in its hand, not an object the program holds.      *)
NoUseAfterFree ==
  \A a \in Allocators : phase[a] = "freed" =>
    /\ head[a] = NULL
    /\ \A b \in Allocators :
         /\ post[b] # NoPost => a \notin {post[b].to, Owner[post[b].node]}
         /\ \A n \in inboxBar[b] \union batchBar[b] :
              a \notin {Owner[n], Owner[value[n].ptr]}
    /\ \A s \in userBar : Owner[s] # a

(* A pointer comes back to the vector of its own size class, in its own    *)
(* allocator, whichever thread deallocated it and whichever path (local,   *)
(* carried by a node, returning node) it took: try_alloc never hands out a *)
(* slot smaller than asked for.                                            *)
RightVector == \A a \in Allocators : \A c \in Classes : vec[a][c] \subseteq SlotsOf(a, c)

-----------------------------------------------------------------------------
(* Why the lists implement PtrReturn: the parts of an inductive invariant. *)

(* An operation is under way only while its allocator exists, and the      *)
(* background thread does nothing but check and try.                       *)
Scheduled ==
  \A a \in Allocators :
    /\ frames[a] # <<>> \/ post[a] # NoPost => phase[a] \notin Gone
    /\ job[a].kind \in {"alloc", "local", "send"} => phase[a] \in {"fresh", "live"}
    /\ job[a].kind \in {"check", "try"} => phase[a] = "background"

(* A pointer whose deallocation has begun is in one thread's hands.        *)
Holds(a) == job[a].kind \in {"local", "send"}
HeldOnce ==
  \A a \in Allocators : Holds(a) =>
    /\ job[a].slot \notin user
    /\ Owner[job[a].slot] = a <=> job[a].kind = "local"
    /\ \A b \in Allocators \ {a} : Holds(b) => job[b].slot # job[a].slot

(* What the fields of a node say while it is on its way.                   *)
NodesFilled ==
  \A n \in Promise!Nodes :
    /\ Class[n] = NodeClass
    /\ value[n].ptr # NULL
    /\ value[n].ptr # n => value[n].offset = Class[value[n].ptr]
PostsAddressed ==
  \A a \in Allocators : post[a] # NoPost => post[a].to = Owner[value[post[a].node].ptr]

(* A chain ends, and the chains of nested checks have no node in common.   *)
Acyclic ==
  \A a \in Allocators : \A n \in inboxBar[a] \union batchBar[a] : n \notin Chain(next, next[n])
FramesApart ==
  \A a \in Allocators : \A i, j \in DOMAIN frames[a] :
    i # j => Chain(next, Rest(frames[a][i])) \intersect Chain(next, Rest(frames[a][j])) = {}

IInv ==
  /\ TypeOK /\ RightVector /\ Scheduled /\ HeldOnce /\ NodesFilled /\ PostsAddressed
  /\ Acyclic /\ FramesApart /\ Promise!IInv

-----------------------------------------------------------------------------
(* Once every thread has exited (none by a panic), the program holds       *)
(* nothing any more and no allocator counts an extra-large size, every     *)
(* allocator's memory is given back to the system: no set of background    *)
(* threads waits for one another's nodes forever.                          *)
FreedWhenDone ==
  <>[](/\ \A a \in Allocators : phase[a] \notin {"live", "abandoned"} /\ sizes[a] = 0
       /\ user = {})
    => <>[](\A a \in Allocators : phase[a] \in {"fresh", "freed"})

(* The same when extra-large sizes may still be counted in                 *)
(* allocated_large_sizes: what the program has returned is given back.     *)
EverythingIsFreed ==
  <>[](/\ \A a \in Allocators : phase[a] \notin {"live", "abandoned"}
       /\ user = {})
    => <>[](\A a \in Allocators : phase[a] \in {"fresh", "freed"})
=============================================================================
