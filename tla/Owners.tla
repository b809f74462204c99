-------------------------------- MODULE Owners --------------------------------
(* Whose chunk a slot was carved from: what PtrReturn and LockFreeManager  *)
(* have in common.                                                         *)
CONSTANTS Allocators,  \* instances of ThreadLocalAllocator
          Slots,       \* objects their chunks are carved into
          Owner        \* Owner[s]: the allocator whose chunk s lies in

ASSUME OwnerAssumption == Owner \in [Slots -> Allocators]
=============================================================================
