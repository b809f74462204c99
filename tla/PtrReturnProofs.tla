--------------------------- MODULE PtrReturnProofs ---------------------------
(***************************************************************************)
(* PtrReturn never lets a thread use unmapped memory, for any allocators   *)
(* and slots.  IInv is inductive: each action first determines which nodes *)
(* are under way after it, and then re-establishes the parts of IInv.      *)
(***************************************************************************)
EXTENDS PtrReturn, TLAPS

(* A node is under way when it is in some list, batch or hand.             *)
LEMMA NodesMember ==
  ASSUME NEW n
  PROVE  n \in Nodes <=> \E a \in Allocators : n \in inbox[a] \/ n \in batch[a] \/ n \in hand[a]
  BY DEF Nodes

LEMMA NodesMemberNext ==
  ASSUME NEW n
  PROVE  n \in Nodes' <=> \E a \in Allocators : n \in inbox'[a] \/ n \in batch'[a] \/ n \in hand'[a]
  BY DEF Nodes

LEMMA InitIInv == Init => IInv
  <1> SUFFICES ASSUME Init PROVE IInv
    OBVIOUS
  <1>1. Nodes = {}
    BY NodesMember DEF Init
  <1>2. TypeOK
    BY DEF Init, TypeOK, Phases
  <1> QED
    BY <1>1, <1>2 DEF Init, IInv, OnePlace, NothingLost, Addressed, Existing, OwnedBy

LEMMA CarveStep ==
  ASSUME IInv, NEW a \in Allocators, NEW S \in SUBSET OwnedBy(a), Carve(a, S)
  PROVE  IInv'
  <1> USE OwnerAssumption DEF IInv, Carve
  <1>1. Nodes' = Nodes
    BY DEF Nodes
  <1>2. TypeOK'
    BY DEF TypeOK, OwnedBy
  <1>3. OnePlace'
    BY <1>1 DEF OnePlace, Existing, TypeOK, OwnedBy
  <1>4. NothingLost'
    BY <1>1 DEF NothingLost, TypeOK, OwnedBy
  <1>5. Addressed'
    BY DEF Addressed, TypeOK, OwnedBy
  <1>6. Existing'
    BY <1>1 DEF Existing, TypeOK, OwnedBy
  <1> QED
    BY <1>2, <1>3, <1>4, <1>5, <1>6

LEMMA AllocateStep ==
  ASSUME IInv, NEW a \in Allocators, NEW s \in Slots, Allocate(a, s)
  PROVE  IInv'
  <1> USE OwnerAssumption DEF IInv, Allocate
  <1>1. Nodes' = Nodes
    BY DEF Nodes
  <1>2. TypeOK'
    BY DEF TypeOK
  <1>3. OnePlace'
    BY <1>1 DEF OnePlace, Addressed, TypeOK, OwnedBy
  <1>4. NothingLost'
    BY <1>1 DEF NothingLost, TypeOK
  <1>5. Addressed'
    BY DEF Addressed, TypeOK, OwnedBy
  <1>6. Existing'
    BY <1>1 DEF Existing, TypeOK, OwnedBy
  <1> QED
    BY <1>2, <1>3, <1>4, <1>5, <1>6

LEMMA FreeLocalStep ==
  ASSUME IInv, NEW a \in Allocators, NEW s \in Slots, FreeLocal(a, s)
  PROVE  IInv'
  <1> USE OwnerAssumption DEF IInv, FreeLocal
  <1>1. Nodes' = Nodes
    BY DEF Nodes
  <1>2. TypeOK'
    BY DEF TypeOK
  <1>3. OnePlace'
    BY <1>1 DEF OnePlace, TypeOK
  <1>4. NothingLost'
    BY <1>1 DEF NothingLost, TypeOK
  <1>5. Addressed'
    BY DEF Addressed, TypeOK, OwnedBy
  <1>6. Existing'
    BY <1>1 DEF Existing, TypeOK, OwnedBy
  <1> QED
    BY <1>2, <1>3, <1>4, <1>5, <1>6

LEMMA FreeRemoteStep ==
  ASSUME IInv, NEW b \in Allocators, NEW s \in Slots, NEW n \in Slots, FreeRemote(b, s, n)
  PROVE  IInv'
  <1> USE OwnerAssumption DEF IInv, FreeRemote
  <1>1. Nodes' = Nodes \union {n}
    BY NodesMember, NodesMemberNext DEF TypeOK
  <1>2. TypeOK'
    BY DEF TypeOK
  <1>3. Owner[n] = b /\ n \notin Nodes /\ n \notin user /\ s \notin Nodes
    BY DEF OnePlace, Addressed, OwnedBy
  <1>4. \A m \in Nodes : value[m] # n /\ value[m] # s
    BY <1>3 DEF OnePlace
  <1>5. \A m \in Slots \ {n} : value'[m] = value[m]
    BY DEF TypeOK
  <1>6. OnePlace'
    <2>1. \A a \in Allocators : vec'[a] \intersect (user' \union Nodes') = {}
      BY <1>1, <1>3 DEF OnePlace, Addressed, TypeOK, OwnedBy
    <2>2. \A a \in Allocators :
            /\ inbox'[a] \intersect batch'[a] = {}
            /\ inbox'[a] \intersect hand'[a] = {}
            /\ batch'[a] \intersect hand'[a] = {}
      BY <1>3, NodesMember DEF OnePlace, TypeOK
    <2>3. \A a \in Allocators : \A c \in Allocators \ {a} :
            (inbox'[a] \union batch'[a] \union hand'[a])
              \intersect (inbox'[c] \union batch'[c] \union hand'[c]) = {}
      BY <1>3, NodesMember DEF OnePlace, TypeOK
    <2>4. user' \intersect Nodes' = {}
      BY <1>1, <1>3 DEF OnePlace
    <2>5. \A m \in Nodes' : value'[m] # m =>
            /\ value'[m] \notin user' \union Nodes'
            /\ value'[m] \notin vec'[Owner[value'[m]]]
            /\ \A k \in Nodes' : value'[k] = value'[m] => k = m
      <3> SUFFICES ASSUME NEW m \in Nodes', value'[m] # m
                   PROVE  /\ value'[m] \notin user' \union Nodes'
                          /\ value'[m] \notin vec'[Owner[value'[m]]]
                          /\ \A k \in Nodes' : value'[k] = value'[m] => k = m
        OBVIOUS
      <3>0. Nodes \subseteq Slots
        BY NodesMember DEF TypeOK
      <3>1. CASE m = n
        BY <3>1, <1>1, <1>3, <1>4, <1>5, <3>0 DEF OnePlace, TypeOK
      <3>2. CASE m # n
        <4>1. m \in Nodes /\ value'[m] = value[m] /\ value[m] \in Slots
          BY <3>2, <1>1, <1>5, <3>0 DEF TypeOK
        <4>2. value[m] \notin user' \union Nodes'
          BY <4>1, <1>1, <1>4 DEF OnePlace
        <4>3. value[m] \notin vec'[Owner[value[m]]]
          BY <4>1 DEF OnePlace, TypeOK
        <4>4. ASSUME NEW k \in Nodes', value'[k] = value'[m] PROVE k = m
          BY <4>1, <4>4, <1>1, <1>4, <1>5, <3>0 DEF OnePlace, TypeOK
        <4> QED
          BY <4>1, <4>2, <4>3, <4>4
      <3> QED
        BY <3>1, <3>2
    <2> QED
      BY <2>1, <2>2, <2>3, <2>4, <2>5 DEF OnePlace
  <1>7. NothingLost'
    <2> SUFFICES ASSUME NEW t \in carved'
                 PROVE  \/ t \in vec'[Owner[t]] \union user' \union Nodes'
                        \/ \E m \in Nodes' : value'[m] = t
      BY DEF NothingLost
    <2>1. CASE t = s
      BY <2>1, <1>1 DEF TypeOK
    <2>2. CASE t = n
      BY <2>2, <1>1
    <2>3. CASE t # s /\ t # n
      BY <2>3, <1>1, <1>3, <1>5, NodesMember DEF NothingLost, TypeOK
    <2> QED
      BY <2>1, <2>2, <2>3
  <1>8. Addressed'
    BY <1>3, <1>5, NodesMember DEF Addressed, TypeOK, OwnedBy
  <1>9. Existing'
    <2>1. user' \union Nodes' \subseteq carved' /\ \A a \in Allocators : vec'[a] \subseteq carved'
      BY <1>1 DEF Existing, TypeOK
    <2>2. \A m \in Nodes' : value'[m] \in carved'
      BY <1>1, <1>5, NodesMember DEF Existing, TypeOK
    <2> QED
      BY <2>1, <2>2 DEF Existing, TypeOK, OwnedBy
  <1> QED
    BY <1>2, <1>6, <1>7, <1>8, <1>9

LEMMA PostStep ==
  ASSUME IInv, NEW b \in Allocators, NEW n \in Slots, Post(b, n)
  PROVE  IInv'
  <1> USE OwnerAssumption DEF IInv, Post
  <1> DEFINE to == Owner[value[n]]
  <1>1. to \in Allocators /\ n \in Nodes
    BY NodesMember DEF TypeOK
  <1>2. Nodes' = Nodes
    BY <1>1, NodesMember, NodesMemberNext DEF TypeOK
  <1>3. TypeOK'
    BY <1>1 DEF TypeOK
  <1>4. OnePlace'
    <2>1. \A a \in Allocators :
            /\ inbox'[a] \intersect batch'[a] = {}
            /\ inbox'[a] \intersect hand'[a] = {}
            /\ batch'[a] \intersect hand'[a] = {}
      BY <1>1 DEF OnePlace, TypeOK
    <2>2. \A a \in Allocators : \A c \in Allocators \ {a} :
            (inbox'[a] \union batch'[a] \union hand'[a])
              \intersect (inbox'[c] \union batch'[c] \union hand'[c]) = {}
      BY <1>1 DEF OnePlace, TypeOK
    <2> QED
      BY <1>2, <2>1, <2>2 DEF OnePlace
  <1>5. NothingLost' /\ Existing'
    BY <1>2 DEF NothingLost, Existing
  <1>6. Addressed'
    BY <1>1 DEF Addressed, TypeOK
  <1> QED
    BY <1>3, <1>4, <1>5, <1>6

LEMMA TakeStep ==
  ASSUME IInv, NEW a \in Allocators, Take(a)
  PROVE  IInv'
  <1> USE OwnerAssumption DEF IInv, Take
  <1>1. Nodes' = Nodes
    BY NodesMember, NodesMemberNext DEF TypeOK
  <1>2. TypeOK'
    BY DEF TypeOK
  <1>3. OnePlace'
    <2>1. \A b \in Allocators :
            /\ inbox'[b] \intersect batch'[b] = {}
            /\ inbox'[b] \intersect hand'[b] = {}
            /\ batch'[b] \intersect hand'[b] = {}
      BY DEF OnePlace, TypeOK
    <2>2. \A b \in Allocators : \A c \in Allocators \ {b} :
            (inbox'[b] \union batch'[b] \union hand'[b])
              \intersect (inbox'[c] \union batch'[c] \union hand'[c]) = {}
      BY DEF OnePlace, TypeOK
    <2> QED
      BY <1>1, <2>1, <2>2 DEF OnePlace
  <1>4. NothingLost' /\ Existing'
    BY <1>1 DEF NothingLost, Existing
  <1>5. Addressed'
    BY DEF Addressed, TypeOK
  <1> QED
    BY <1>2, <1>3, <1>4, <1>5

LEMMA ReceiveStep ==
  ASSUME IInv, NEW a \in Allocators, NEW n \in Slots, Receive(a, n)
  PROVE  IInv'
  <1> USE OwnerAssumption DEF IInv, Receive
  <1>1. n \in Nodes /\ Owner[n] = a
    BY NodesMember DEF Addressed
  <1>2. Nodes' = Nodes \ {n}
    BY NodesMember, NodesMemberNext DEF OnePlace, TypeOK
  <1>3. \A m \in Nodes \ {n} : value[m] # n
    BY <1>1 DEF OnePlace
  <1>4. TypeOK'
    BY DEF TypeOK
  <1>5. OnePlace'
    <2>1. \A b \in Allocators :
            /\ inbox'[b] \intersect batch'[b] = {}
            /\ inbox'[b] \intersect hand'[b] = {}
            /\ batch'[b] \intersect hand'[b] = {}
      BY DEF OnePlace, TypeOK
    <2>2. \A b \in Allocators : \A c \in Allocators \ {b} :
            (inbox'[b] \union batch'[b] \union hand'[b])
              \intersect (inbox'[c] \union batch'[c] \union hand'[c]) = {}
      BY DEF OnePlace, TypeOK
    <2>3. \A b \in Allocators : vec'[b] \intersect (user' \union Nodes') = {}
      BY <1>1, <1>2 DEF OnePlace, TypeOK
    <2>4. \A m \in Nodes' : value'[m] # m => value'[m] \notin vec'[Owner[value'[m]]]
      BY <1>2, <1>3, NodesMember DEF OnePlace, TypeOK
    <2> QED
      BY <1>2, <2>1, <2>2, <2>3, <2>4 DEF OnePlace
  <1>6. NothingLost'
    <2> SUFFICES ASSUME NEW t \in carved'
                 PROVE  \/ t \in vec'[Owner[t]] \union user' \union Nodes'
                        \/ \E m \in Nodes' : value'[m] = t
      BY DEF NothingLost
    <2>1. CASE t = n
      BY <2>1, <1>1 DEF TypeOK
    <2>2. CASE t # n
      BY <2>2, <1>1, <1>2 DEF NothingLost, TypeOK
    <2> QED
      BY <2>1, <2>2
  <1>7. Addressed'
    BY <1>1 DEF Addressed, TypeOK, OwnedBy
  <1>8. Existing'
    BY <1>1, <1>2 DEF Existing, TypeOK
  <1> QED
    BY <1>4, <1>5, <1>6, <1>7, <1>8

LEMMA UnloadStep ==
  ASSUME IInv, NEW a \in Allocators, NEW n \in Slots, Unload(a, n)
  PROVE  IInv'
  <1> USE OwnerAssumption DEF IInv, Unload
  <1> DEFINE s == value[n]
  <1>1. n \in Nodes /\ Owner[s] = a /\ s \in Slots
    BY NodesMember DEF Addressed, TypeOK
  <1>2. Nodes' = Nodes
    BY NodesMember, NodesMemberNext DEF TypeOK
  <1>3. \A m \in Slots \ {n} : value'[m] = value[m]
    BY DEF TypeOK
  <1>4. value'[n] = n /\ Nodes \subseteq Slots
    BY NodesMember DEF TypeOK
  <1>5. s \notin user /\ s \notin Nodes /\ \A m \in Nodes \ {n} : value[m] # s
    BY <1>1 DEF OnePlace
  <1>6. TypeOK'
    BY <1>1 DEF TypeOK
  <1>7. OnePlace'
    <2>1. \A b \in Allocators :
            /\ inbox'[b] \intersect batch'[b] = {}
            /\ inbox'[b] \intersect hand'[b] = {}
            /\ batch'[b] \intersect hand'[b] = {}
      BY DEF OnePlace, TypeOK
    <2>2. \A b \in Allocators : \A c \in Allocators \ {b} :
            (inbox'[b] \union batch'[b] \union hand'[b])
              \intersect (inbox'[c] \union batch'[c] \union hand'[c]) = {}
      BY DEF OnePlace, TypeOK
    <2>3. \A b \in Allocators : vec'[b] \intersect (user' \union Nodes') = {}
      BY <1>2, <1>5 DEF OnePlace, TypeOK
    <2>4. ASSUME NEW m \in Nodes', value'[m] # m
          PROVE  /\ value'[m] \notin user' \union Nodes'
                 /\ value'[m] \notin vec'[Owner[value'[m]]]
                 /\ \A k \in Nodes' : value'[k] = value'[m] => k = m
      <3>1. m \in Nodes \ {n} /\ value'[m] = value[m] /\ value[m] \in Slots
        BY <2>4, <1>2, <1>3, <1>4 DEF TypeOK
      <3>2. value[m] \notin user' \union Nodes'
        BY <2>4, <3>1, <1>2 DEF OnePlace
      <3>3. value[m] \notin vec'[Owner[value[m]]]
        BY <2>4, <3>1, <1>5 DEF OnePlace, TypeOK
      <3>4. ASSUME NEW k \in Nodes', value'[k] = value'[m] PROVE k = m
        BY <2>4, <3>1, <3>2, <3>4, <1>2, <1>3, <1>4 DEF OnePlace
      <3> QED
        BY <3>1, <3>2, <3>3, <3>4
    <2>5. user' \intersect Nodes' = {}
      BY <1>2 DEF OnePlace
    <2> QED
      BY <2>1, <2>2, <2>3, <2>4, <2>5 DEF OnePlace
  <1>8. NothingLost'
    <2> SUFFICES ASSUME NEW t \in carved'
                 PROVE  \/ t \in vec'[Owner[t]] \union user' \union Nodes'
                        \/ \E m \in Nodes' : value'[m] = t
      BY DEF NothingLost
    <2>1. CASE t = s
      BY <2>1, <1>1 DEF TypeOK
    <2>2. CASE t # s
      BY <2>2, <1>2, <1>3, <1>4 DEF NothingLost, TypeOK
    <2> QED
      BY <2>1, <2>2
  <1>9. Addressed'
    BY <1>1, <1>3, <1>4, NodesMember DEF Addressed, OnePlace, TypeOK, OwnedBy
  <1>10. Existing'
    BY <1>1, <1>2, <1>3, <1>4 DEF Existing, TypeOK
  <1> QED
    BY <1>6, <1>7, <1>8, <1>9, <1>10

LEMMA ExitStep ==
  ASSUME IInv, NEW a \in Allocators, Exit(a)
  PROVE  IInv'
  <1> USE DEF IInv, Exit
  <1>1. Nodes' = Nodes
    BY DEF Nodes
  <1>2. TypeOK'
    BY DEF TypeOK, Phases
  <1> QED
    BY <1>1, <1>2 DEF OnePlace, NothingLost, Addressed, Existing, OwnedBy, TypeOK

(* What is carved from a's chunks is in vec[a], so by OnePlace nothing of  *)
(* a is with the user, a node, or carried by one.                          *)
LEMMA FreeAllStep ==
  ASSUME IInv, NEW a \in Allocators, FreeAll(a)
  PROVE  IInv'
  <1> USE OwnerAssumption DEF IInv, FreeAll
  <1>1. Nodes' = Nodes
    BY DEF Nodes
  <1>2. TypeOK'
    BY DEF TypeOK, Phases
  <1>3. \A s \in OwnedBy(a) \intersect carved : s \in vec[a] /\ Owner[s] = a
    BY DEF OwnedBy
  <1>4. \A s \in user \union Nodes : s \in carved \ OwnedBy(a)
    BY <1>3 DEF OnePlace, Existing
  <1>5. \A n \in Nodes : value[n] \in carved \ OwnedBy(a)
    BY <1>3, <1>4 DEF OnePlace, Existing
  <1>6. OnePlace'
    BY <1>1 DEF OnePlace, TypeOK
  <1>7. NothingLost'
    BY <1>1 DEF NothingLost, OwnedBy, TypeOK
  <1>8. Addressed'
    BY DEF Addressed, OwnedBy, TypeOK
  <1>9. Existing'
    <2>1. \A b \in Allocators : vec'[b] \subseteq carved'
      BY DEF Existing, Addressed, OwnedBy, TypeOK
    <2>2. \A b \in Allocators : phase'[b] = "freed" => OwnedBy(b) \intersect carved' = {}
      BY DEF Existing, OwnedBy, TypeOK
    <2> QED
      BY <1>1, <1>4, <1>5, <2>1, <2>2 DEF Existing, OwnedBy
  <1> QED
    BY <1>2, <1>6, <1>7, <1>8, <1>9

LEMMA NextIInv == IInv /\ [Next]_vars => IInv'
  <1> SUFFICES ASSUME IInv, [Next]_vars PROVE IInv'
    OBVIOUS
  <1>1. CASE Next
    <2> PICK a \in Allocators :
             \/ \E S \in SUBSET OwnedBy(a) : Carve(a, S)
             \/ \E s \in Slots : Allocate(a, s) \/ FreeLocal(a, s)
             \/ \E s, n \in Slots : FreeRemote(a, s, n)
             \/ \E n \in Slots : Post(a, n) \/ Receive(a, n) \/ Unload(a, n)
             \/ Take(a) \/ Exit(a) \/ FreeAll(a)
      BY <1>1 DEF Next
    <2> QED
      BY CarveStep, AllocateStep, FreeLocalStep, FreeRemoteStep, PostStep, TakeStep,
         ReceiveStep, UnloadStep, ExitStep, FreeAllStep
  <1>2. CASE UNCHANGED vars
    BY <1>2 DEF vars, IInv, TypeOK, OnePlace, NothingLost, Addressed, Existing, Nodes, OwnedBy
  <1> QED
    BY <1>1, <1>2

(* In every behaviour each slot is in exactly one place and every list     *)
(* holds only what belongs to its allocator.                               *)
THEOREM Invariance == Spec => []IInv
  <1>1. Spec => Init /\ [][Next]_vars
    BY DEF Spec
  <1> QED
    BY <1>1, InitIInv, NextIInv, PTL

(* No pointer anybody still holds, carries or has in a list points into    *)
(* regions that the destructor or a background thread has unmapped,        *)
(* although it never looks at the list of the allocator it destroys.       *)
THEOREM Safety == Spec => []NoUseAfterFree
  <1>1. IInv => NoUseAfterFree
    BY OwnerAssumption, NodesMember DEF IInv, TypeOK, Existing, NoUseAfterFree, OwnedBy
  <1> QED
    BY <1>1, Invariance, PTL
=============================================================================
