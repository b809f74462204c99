------------------------------ MODULE PtrReturn ------------------------------
(***************************************************************************)
(* What the allocator promises about pointers that cross threads.          *)
(*                                                                         *)
(* Every slot (an object carved from a chunk) belongs to the thread-local  *)
(* allocator whose chunk it was carved from.  A slot is in its owner's     *)
(* vector of free objects, with the user, or travelling: it is the value   *)
(* carried by a node on its way to the owner, or it is itself a node,      *)
(* borrowed from the freeing thread's allocator, that carries another      *)
(* slot or goes home.  The lists are sets here; LockFreeManager refines    *)
(* them to the lock-free lists of the code.                                *)
(***************************************************************************)
EXTENDS Owners

VARIABLES
  phase,   \* live, exited (its thread is gone) or freed (its regions are unmapped)
  carved,  \* slots that exist: their chunk has been carved
  vec,     \* vec[a]: the free objects of a
  user,    \* slots handed out and not yet deallocated
  inbox,   \* inbox[a]: nodes in the list of a's manager
  batch,   \* batch[a]: nodes a has taken out of its list and not yet handled
  hand,    \* hand[a]: nodes a's thread is about to put in some list
  value    \* value[n]: the slot node n carries; n itself when n goes home

vars == <<phase, carved, vec, user, inbox, batch, hand, value>>

Phases == {"live", "exited", "freed"}

TypeOK ==
  /\ phase \in [Allocators -> Phases]
  /\ carved \subseteq Slots
  /\ vec \in [Allocators -> SUBSET Slots]
  /\ user \subseteq Slots
  /\ inbox \in [Allocators -> SUBSET Slots]
  /\ batch \in [Allocators -> SUBSET Slots]
  /\ hand \in [Allocators -> SUBSET Slots]
  /\ value \in [Slots -> Slots]

Init ==
  /\ phase = [a \in Allocators |-> "live"]
  /\ carved = {}
  /\ vec = [a \in Allocators |-> {}]
  /\ user = {}
  /\ inbox = [a \in Allocators |-> {}]
  /\ batch = [a \in Allocators |-> {}]
  /\ hand = [a \in Allocators |-> {}]
  /\ value = [s \in Slots |-> s]

OwnedBy(a) == {s \in Slots : Owner[s] = a}

(* A chunk is carved into slots, all of them free.                         *)
Carve(a, S) ==
  /\ phase[a] # "freed"
  /\ S \subseteq OwnedBy(a) \ carved
  /\ carved' = carved \union S
  /\ vec' = [vec EXCEPT ![a] = @ \union S]
  /\ UNCHANGED <<phase, user, inbox, batch, hand, value>>

(* The thread of a takes a free slot for its user.                         *)
Allocate(a, s) ==
  /\ phase[a] = "live"
  /\ s \in vec[a]
  /\ vec' = [vec EXCEPT ![a] = @ \ {s}]
  /\ user' = user \union {s}
  /\ UNCHANGED <<phase, carved, inbox, batch, hand, value>>

(* The thread of a deallocates a slot of its own.                          *)
FreeLocal(a, s) ==
  /\ phase[a] = "live"
  /\ s \in user
  /\ Owner[s] = a
  /\ user' = user \ {s}
  /\ vec' = [vec EXCEPT ![a] = @ \union {s}]
  /\ UNCHANGED <<phase, carved, inbox, batch, hand, value>>

(* The thread of b deallocates another allocator's slot: it takes one of   *)
(* its own slots as the node that will carry it.                           *)
FreeRemote(b, s, n) ==
  /\ phase[b] = "live"
  /\ s \in user
  /\ Owner[s] # b
  /\ n \in vec[b]
  /\ user' = user \ {s}
  /\ vec' = [vec EXCEPT ![b] = @ \ {n}]
  /\ hand' = [hand EXCEPT ![b] = @ \union {n}]
  /\ value' = [value EXCEPT ![n] = s]
  /\ UNCHANGED <<phase, carved, inbox, batch>>

(* Node n becomes visible in the list of the owner of what it carries.     *)
Post(b, n) ==
  /\ n \in hand[b]
  /\ hand' = [hand EXCEPT ![b] = @ \ {n}]
  /\ inbox' = [inbox EXCEPT ![Owner[value[n]]] = @ \union {n}]
  /\ UNCHANGED <<phase, carved, vec, user, batch, value>>

(* a takes everything that is in its list.                                 *)
Take(a) ==
  /\ phase[a] # "freed"
  /\ batch' = [batch EXCEPT ![a] = @ \union inbox[a]]
  /\ inbox' = [inbox EXCEPT ![a] = {}]
  /\ UNCHANGED <<phase, carved, vec, user, hand, value>>

(* A node of a is home again.                                              *)
Receive(a, n) ==
  /\ n \in batch[a]
  /\ value[n] = n
  /\ batch' = [batch EXCEPT ![a] = @ \ {n}]
  /\ vec' = [vec EXCEPT ![a] = @ \union {n}]
  /\ UNCHANGED <<phase, carved, user, inbox, hand, value>>

(* The slot a node carries is home; the node is sent to its own owner.     *)
Unload(a, n) ==
  /\ n \in batch[a]
  /\ value[n] # n
  /\ batch' = [batch EXCEPT ![a] = @ \ {n}]
  /\ vec' = [vec EXCEPT ![a] = @ \union {value[n]}]
  /\ hand' = [hand EXCEPT ![a] = @ \union {n}]
  /\ value' = [value EXCEPT ![n] = n]
  /\ UNCHANGED <<phase, carved, user, inbox>>

Exit(a) ==
  /\ phase[a] = "live"
  /\ phase' = [phase EXCEPT ![a] = "exited"]
  /\ UNCHANGED <<carved, vec, user, inbox, batch, hand, value>>

(* The regions of a are unmapped.  Only what a can see for itself is       *)
(* tested: it is between two operations and its vectors hold every slot    *)
(* carved from its chunks.  The list of a is not looked at.                *)
FreeAll(a) ==
  /\ phase[a] # "freed"
  /\ batch[a] = {} /\ hand[a] = {}
  /\ OwnedBy(a) \intersect carved \subseteq vec[a]
  /\ phase' = [phase EXCEPT ![a] = "freed"]
  /\ carved' = carved \ OwnedBy(a)
  /\ vec' = [vec EXCEPT ![a] = {}]
  /\ UNCHANGED <<user, inbox, batch, hand, value>>

Next ==
  \E a \in Allocators :
    \/ \E S \in SUBSET OwnedBy(a) : Carve(a, S)
    \/ \E s \in Slots : Allocate(a, s) \/ FreeLocal(a, s)
    \/ \E s, n \in Slots : FreeRemote(a, s, n)
    \/ \E n \in Slots : Post(a, n) \/ Receive(a, n) \/ Unload(a, n)
    \/ Take(a) \/ Exit(a) \/ FreeAll(a)

Spec == Init /\ [][Next]_vars

-----------------------------------------------------------------------------
(* The nodes on their way, wherever they are.                              *)
Nodes == UNION {inbox[a] \union batch[a] \union hand[a] : a \in Allocators}

(* No pointer that some thread will still dereference points into unmapped *)
(* memory: neither one the user holds, nor a node in a list, nor the slot  *)
(* a node carries; and no thread is about to put a node in the list of a   *)
(* manager that is gone (the manager lives in its allocator's regions).    *)
NoUseAfterFree ==
  /\ \A s \in user : phase[Owner[s]] # "freed"
  /\ \A n \in Nodes : /\ phase[Owner[n]] # "freed"
                      /\ phase[Owner[value[n]]] # "freed"

(* A slot is in one place only: it is never free and in use at the same    *)
(* time, in two lists, or carried by two nodes.  This is what makes a      *)
(* pointer handed out by try_alloc exclusive.                              *)
OnePlace ==
  /\ \A a \in Allocators :
       /\ vec[a] \intersect (user \union Nodes) = {}
       /\ inbox[a] \intersect batch[a] = {}
       /\ inbox[a] \intersect hand[a] = {}
       /\ batch[a] \intersect hand[a] = {}
       /\ \A b \in Allocators \ {a} :
            (inbox[a] \union batch[a] \union hand[a])
              \intersect (inbox[b] \union batch[b] \union hand[b]) = {}
  /\ user \intersect Nodes = {}
  /\ \A n \in Nodes : value[n] # n =>
       /\ value[n] \notin user \union Nodes
       /\ value[n] \notin vec[Owner[value[n]]]
       /\ \A m \in Nodes : value[m] = value[n] => m = n

(* No slot is lost: one that was carved is in its vector, with the user,   *)
(* or on its way, as a node or carried by one.                             *)
NothingLost ==
  \A s \in carved : \/ s \in vec[Owner[s]] \union user \union Nodes
                    \/ \E n \in Nodes : value[n] = s

(* What reaches an allocator is its own: a list holds only nodes whose     *)
(* value belongs to the allocator of that list, so the vectors hold only   *)
(* slots of their own chunks.                                              *)
Addressed ==
  \A a \in Allocators :
    /\ \A n \in inbox[a] \union batch[a] : Owner[value[n]] = a
    /\ vec[a] \subseteq OwnedBy(a)

(* Nothing exists that was not carved, and nothing of a freed allocator    *)
(* does.                                                                   *)
Existing ==
  /\ user \union Nodes \subseteq carved
  /\ \A n \in Nodes : value[n] \in carved
  /\ \A a \in Allocators : /\ vec[a] \subseteq carved
                           /\ phase[a] = "freed" => OwnedBy(a) \intersect carved = {}

(* The inductive invariant; it implies NoUseAfterFree.                     *)
IInv == TypeOK /\ OnePlace /\ NothingLost /\ Addressed /\ Existing
=============================================================================
