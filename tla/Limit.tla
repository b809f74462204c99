-------------------------------- MODULE Limit --------------------------------
(***************************************************************************)
(* limit.rs: the process-wide count of allocated bytes, and its users: the *)
(* mapping and unmapping of regions and of extra-large objects.            *)
(***************************************************************************)
EXTENDS Naturals, FiniteSets

CONSTANTS Threads,
          Blocks,    \* regions and extra-large objects that may be mapped
          Size,      \* Size[b]: its length
          Forced,    \* blocks mapped "without counting limit"
          Limits,    \* values set_allocator_limit may be called with
          UsizeMax

ASSUME LimitAssumption ==
  /\ UsizeMax \in Nat
  /\ Size \in [Blocks -> 1 .. UsizeMax]
  /\ Forced \subseteq Blocks
  /\ Limits \subseteq 0 .. UsizeMax
  /\ IsFiniteSet(Blocks)

VARIABLES LIMIT, ALLOCATED,
          mapped,   \* blocks the operating system has mapped
          call      \* call[t]: what thread t is doing, to which block

vars == <<LIMIT, ALLOCATED, mapped, call>>

None == [at |-> "idle"]
Busy == {call[t].block : t \in {u \in Threads : call[u] # None}}
Add(x, y) == (x + y) % (UsizeMax + 1)
Sub(x, y) == (x + (UsizeMax + 1) - y) % (UsizeMax + 1)

Init ==
  /\ LIMIT = UsizeMax
  /\ ALLOCATED = 0
  /\ mapped = {}
  /\ call = [t \in Threads |-> None]

(* "We count that the limit is not changed after the app start."           *)
SetAllocatorLimit(l) ==
  /\ mapped = {} /\ \A t \in Threads : call[t] = None
  /\ LIMIT' = l
  /\ UNCHANGED <<ALLOCATED, mapped, call>>

Begin(t, b) == call[t] = None /\ b \notin mapped \union Busy

(* may_allocate: the loads, then the loop around the compare-exchange.     *)
LoadAllocated(t, b) ==
  /\ Begin(t, b) /\ b \notin Forced
  /\ call' = [call EXCEPT ![t] = [at |-> "loop", block |-> b, allocated |-> ALLOCATED]]
  /\ UNCHANGED <<LIMIT, ALLOCATED, mapped>>

Refuse(t) ==
  /\ call[t].at = "loop"
  /\ Add(call[t].allocated, Size[call[t].block]) > LIMIT
  /\ call' = [call EXCEPT ![t] = None]
  /\ UNCHANGED <<LIMIT, ALLOCATED, mapped>>

(* Mistaken: the sum is tested, then a fetch_add follows.                  *)
TestThenAdd(t) ==
  /\ call[t].at = "loop"
  /\ Add(call[t].allocated, Size[call[t].block]) <= LIMIT
  /\ ALLOCATED' = Add(ALLOCATED, Size[call[t].block])
  /\ call' = [call EXCEPT ![t] = [at |-> "map", block |-> call[t].block]]
  /\ UNCHANGED <<LIMIT, mapped>>

CompareExchange(t) ==
  LET new_allocated == Add(call[t].allocated, Size[call[t].block]) IN
  /\ call[t].at = "loop"
  /\ new_allocated <= LIMIT
  /\ \/ /\ ALLOCATED = call[t].allocated
        /\ ALLOCATED' = new_allocated
        /\ call' = [call EXCEPT ![t] = [at |-> "map", block |-> call[t].block]]
     \/ /\ ALLOCATED # call[t].allocated
        /\ call' = [call EXCEPT ![t].allocated = ALLOCATED]
        /\ UNCHANGED ALLOCATED
  /\ UNCHANGED <<LIMIT, mapped>>

AllocateAnyWay(t, b) ==
  /\ Begin(t, b) /\ b \in Forced
  /\ ALLOCATED' = Add(ALLOCATED, Size[b])
  /\ call' = [call EXCEPT ![t] = [at |-> "map", block |-> b]]
  /\ UNCHANGED <<LIMIT, mapped>>

MapOk(t) ==
  /\ call[t].at = "map"
  /\ mapped' = mapped \union {call[t].block}
  /\ call' = [call EXCEPT ![t] = None]
  /\ UNCHANGED <<LIMIT, ALLOCATED>>

(* Mistaken: what was counted stays counted.                               *)
MapFailsCounted(t) ==
  /\ call[t].at = "map"
  /\ call' = [call EXCEPT ![t] = None]
  /\ UNCHANGED <<LIMIT, ALLOCATED, mapped>>

(* The system has no memory: what was counted is taken back.               *)
MapFails(t) ==
  /\ call[t].at = "map"
  /\ ALLOCATED' = Sub(ALLOCATED, Size[call[t].block])
  /\ call' = [call EXCEPT ![t] = None]
  /\ UNCHANGED <<LIMIT, mapped>>

(* dealloc_region, dealloc_extra_large: unmapped, then uncounted.          *)
Unmap(t, b) ==
  /\ call[t] = None
  /\ b \in mapped
  /\ mapped' = mapped \ {b}
  /\ call' = [call EXCEPT ![t] = [at |-> "mark", block |-> b]]
  /\ UNCHANGED <<LIMIT, ALLOCATED>>

MarkDeallocated(t) ==
  /\ call[t].at = "mark"
  /\ ALLOCATED' = Sub(ALLOCATED, Size[call[t].block])
  /\ call' = [call EXCEPT ![t] = None]
  /\ UNCHANGED <<LIMIT, mapped>>

Next ==
  \/ \E l \in Limits : SetAllocatorLimit(l)
  \/ \E t \in Threads :
       \/ \E b \in Blocks : LoadAllocated(t, b) \/ AllocateAnyWay(t, b) \/ Unmap(t, b)
       \/ Refuse(t) \/ CompareExchange(t) \/ MapOk(t) \/ MapFails(t) \/ MarkDeallocated(t)

Spec == Init /\ [][Next]_vars

-----------------------------------------------------------------------------
Calls == [at : {"loop"}, block : Blocks, allocated : 0 .. UsizeMax]
           \union [at : {"map", "mark"}, block : Blocks]

TypeOK ==
  /\ LIMIT \in Limits \union {UsizeMax}
  /\ ALLOCATED \in 0 .. UsizeMax
  /\ mapped \subseteq Blocks
  /\ call \in [Threads -> Calls \union {None}]

(* The bytes of the blocks of B: as many as there are pairs of a block and *)
(* the place of a byte in it.                                              *)
Bytes(B) == Cardinality({p \in B \X (1 .. UsizeMax) : p[2] <= Size[p[1]]})
Counted == {call[t].block : t \in {u \in Threads : call[u].at \in {"map", "mark"}}}

(* ALLOCATED is the number of bytes mapped, about to be mapped, or just    *)
(* unmapped, whatever threads were racing on it and whatever mappings      *)
(* failed: nothing is counted twice, and nothing stays counted.  The       *)
(* counter may wrap while huge requests are on their way; it comes back.   *)
Accounted == ALLOCATED = Bytes(mapped \union Counted) % (UsizeMax + 1)

(* may_allocate grants a block only when it fits: together with all that   *)
(* is mapped, or on its way to be, it does not exceed the limit that was   *)
(* set.                                                                    *)
GrantsWithinLimit ==
  [][\A t \in Threads :
       LIMIT # UsizeMax /\ call[t].at = "loop" /\ call'[t].at = "map"
         => Bytes(mapped \union Counted \union {call[t].block}) <= LIMIT]_vars

(* Unless the allocator's own needs forced it, the process never has more  *)
(* than the limit mapped.                                                  *)
WithinLimit == Forced \intersect mapped = {} => Bytes(mapped) <= LIMIT

-----------------------------------------------------------------------------
(* Why the count is right: the parts of an inductive invariant.            *)

(* No two threads are busy with one block, and none with a mapped one.     *)
Apart ==
  \A t \in Threads : call[t] # None =>
    /\ call[t].block \notin mapped
    /\ \A u \in Threads \ {t} : call[u] # None => call[u].block # call[t].block

(* What the limit has granted is within the limit.                         *)
GrantedWithin == LIMIT # UsizeMax => Bytes((mapped \union Counted) \ Forced) <= LIMIT

IInv == TypeOK /\ Apart /\ Accounted

(* With the limits that may be set, no request makes the count wrap.       *)
NoWrap ==
  \A l \in Limits \ {UsizeMax} : \A b \in Blocks : l + Bytes(Forced) + Size[b] <= UsizeMax
=============================================================================
