------------------------ MODULE LockFreeManagerProofs ------------------------
(***************************************************************************)
(* LockFreeManager implements PtrReturn, for every value of the constants, *)
(* and never uses unmapped memory.                                         *)
(*                                                                         *)
(* IInv has a local part, about chains, frames and operations, and the     *)
(* invariant of PtrReturn read through the refinement mapping.  Under IInv *)
(* every action establishes the local part again and is one action of      *)
(* PtrReturn, or none; PtrReturnProofs then gives the other part back.     *)
(***************************************************************************)
EXTENDS LockFreeManager, FiniteSetTheorems, TLAPS

(* The proofs about PtrReturn, through the refinement mapping.             *)
Lists == INSTANCE PtrReturnProofs WITH
  phase <- phaseBar, carved <- carvedBar, vec <- vecBar, user <- userBar,
  inbox <- inboxBar, batch <- batchBar, hand <- handBar, value <- valueBar

(* What PtrReturnProofs shows of a step of PtrReturn, for the refinement   *)
(* mapping.                                                                *)
LEMMA AbstractStep == Promise!IInv /\ [Promise!Next]_Promise!vars => Promise!IInv'
  <1>1. Promise!IInv <=> Lists!IInv
    BY DEF Promise!IInv, Promise!TypeOK, Promise!OnePlace, Promise!NothingLost, Promise!Addressed,
           Promise!Existing, Promise!Nodes, Promise!OwnedBy, Promise!Phases,
           Lists!IInv, Lists!TypeOK, Lists!OnePlace, Lists!NothingLost, Lists!Addressed,
           Lists!Existing, Lists!Nodes, Lists!OwnedBy, Lists!Phases
  <1>2. (Promise!IInv)' <=> (Lists!IInv)'
    BY DEF Promise!IInv, Promise!TypeOK, Promise!OnePlace, Promise!NothingLost, Promise!Addressed,
           Promise!Existing, Promise!Nodes, Promise!OwnedBy, Promise!Phases,
           Lists!IInv, Lists!TypeOK, Lists!OnePlace, Lists!NothingLost, Lists!Addressed,
           Lists!Existing, Lists!Nodes, Lists!OwnedBy, Lists!Phases
  <1>3. [Promise!Next]_Promise!vars <=> [Lists!Next]_Lists!vars
    BY DEF Promise!Next, Promise!vars, Promise!OwnedBy, Promise!Carve, Promise!Allocate,
           Promise!FreeLocal, Promise!FreeRemote, Promise!Post, Promise!Receive, Promise!Unload,
           Promise!Take, Promise!Exit, Promise!FreeAll,
           Lists!Next, Lists!vars, Lists!OwnedBy, Lists!Carve, Lists!Allocate,
           Lists!FreeLocal, Lists!FreeRemote, Lists!Post, Lists!Receive, Lists!Unload,
           Lists!Take, Lists!Exit, Lists!FreeAll
  <1> QED
    <2>1. Lists!IInv /\ [Lists!Next]_Lists!vars => Lists!IInv'
      <3>1. Owner \in [Slots -> Allocators]
        BY OwnerAssumption
      <3> QED
        BY <3>1, Lists!NextIInv
    <2> QED
      BY <1>1, <1>2, <1>3, <2>1

-----------------------------------------------------------------------------
(* Chains                                                                  *)

(* A set that contains the first node and is closed under next contains    *)
(* the chain.                                                              *)
LEMMA ChainLeast ==
  ASSUME NEW nx, NEW n, NEW S \in SUBSET Slots,
         \A k \in S : nx[k] \in S \union {NULL}, n \in S \union {NULL}
  PROVE  Chain(nx, n) \subseteq S
  BY DEF Chain

(* The empty list.                                                         *)
LEMMA ChainNull ==
  ASSUME NEW nx
  PROVE  Chain(nx, NULL) = {}
  <1> DEFINE S == {}
  <1>1. S \in SUBSET Slots /\ (\A k \in S : nx[k] \in S \union {NULL}) /\ NULL \in S \union {NULL}
    OBVIOUS
  <1>2. Chain(nx, NULL) \subseteq S
    <2> HIDE DEF S
    <2> QED
      BY <1>1, ChainLeast
  <1> QED
    BY <1>2

(* A chain has its first node and, with a node, the one it points to.      *)
LEMMA ChainMember ==
  ASSUME NEW nx \in [Slots -> Slots \union {NULL}], NEW n
  PROVE  /\ Chain(nx, n) \subseteq Slots
         /\ n \in Slots => n \in Chain(nx, n)
         /\ \A k \in Chain(nx, n) : nx[k] \in Chain(nx, n) \union {NULL}
  BY ConstantsAssumption DEF Chain

(* What begins inside a chain stays inside it.                             *)
LEMMA ChainTail ==
  ASSUME NEW nx \in [Slots -> Slots \union {NULL}], NEW n, NEW k \in Chain(nx, n)
  PROVE  Chain(nx, k) \subseteq Chain(nx, n) /\ Chain(nx, nx[k]) \subseteq Chain(nx, n)
  <1>1. Chain(nx, n) \in SUBSET Slots /\ \A m \in Chain(nx, n) : nx[m] \in Chain(nx, n) \union {NULL}
    BY ChainMember
  <1> QED
    BY <1>1, ChainLeast

(* A list is its first node and the rest.                                  *)
LEMMA ChainUnfold ==
  ASSUME NEW nx \in [Slots -> Slots \union {NULL}], NEW n \in Slots
  PROVE  Chain(nx, n) = {n} \union Chain(nx, nx[n])
  <1> DEFINE T == {n} \union Chain(nx, nx[n])
  <1>1. T \in SUBSET Slots /\ \A k \in T : nx[k] \in T \union {NULL}
    BY ChainMember
  <1>2. Chain(nx, n) \subseteq T
    <2>1. n \in T \union {NULL}
      OBVIOUS
    <2> HIDE DEF T
    <2> QED
      BY <1>1, <2>1, ChainLeast
  <1>3. n \in Chain(nx, n)
    BY ChainMember
  <1>4. Chain(nx, nx[n]) \subseteq Chain(nx, n)
    BY <1>3, ChainTail
  <1> QED
    BY <1>2, <1>3, <1>4

(* A chain depends on the fields of its own nodes alone.                   *)
LEMMA ChainFrame ==
  ASSUME NEW nx \in [Slots -> Slots \union {NULL}], NEW ny \in [Slots -> Slots \union {NULL}], NEW n,
         n \in Slots \union {NULL}, \A k \in Chain(nx, n) : ny[k] = nx[k]
  PROVE  Chain(ny, n) = Chain(nx, n)
  <1>1. Chain(nx, n) \in SUBSET Slots /\ Chain(ny, n) \in SUBSET Slots
    BY ChainMember
  <1>2. n \in Chain(nx, n) \union {NULL} /\ n \in Chain(ny, n) \union {NULL}
    BY ChainMember
  <1>3. Chain(ny, n) \subseteq Chain(nx, n)
    <2>1. \A k \in Chain(nx, n) : ny[k] \in Chain(nx, n) \union {NULL}
      BY ChainMember
    <2> QED
      BY <1>1, <1>2, <2>1, ChainLeast
  <1>4. Chain(nx, n) \subseteq Chain(ny, n)
    <2>1. \A k \in Chain(ny, n) : nx[k] \in Chain(ny, n) \union {NULL}
      BY <1>3, ChainMember
    <2> QED
      BY <1>1, <1>2, <2>1, ChainLeast
  <1> QED
    BY <1>3, <1>4

-----------------------------------------------------------------------------
(* The variables of PtrReturn                                              *)

(* The nodes under way, now and after a step.                              *)
LEMMA NodesMember ==
  ASSUME NEW n
  PROVE  /\ n \in Promise!Nodes <=>
              \E a \in Allocators : n \in inboxBar[a] \/ n \in batchBar[a] \/ n \in handBar[a]
         /\ n \in (Promise!Nodes)' <=>
              \E a \in Allocators : n \in inboxBar'[a] \/ n \in batchBar'[a] \/ n \in handBar'[a]
  BY DEF Promise!Nodes

(* What a has swapped out is what the frames of its checks have still to   *)
(* do.                                                                     *)
LEMMA BatchMember ==
  ASSUME NEW a \in Allocators, NEW n
  PROVE  /\ n \in batchBar[a] <=> \E i \in DOMAIN frames[a] : n \in Chain(next, Rest(frames[a][i]))
         /\ n \in batchBar'[a] <=>
              \E i \in DOMAIN frames'[a] : n \in Chain(next', Rest(frames'[a][i]))
  BY DEF batchBar

(* What counts as the user's: what it holds, and what a deallocation that  *)
(* has begun holds.                                                        *)
LEMMA UserMember ==
  ASSUME NEW s
  PROVE  /\ s \in userBar <=>
              \/ s \in user /\ s \in Slots
              \/ \E a \in Allocators : job[a].kind \in {"local", "send"} /\ job[a].slot = s
         /\ s \in userBar' <=>
              \/ s \in user' /\ s \in Slots
              \/ \E a \in Allocators : job'[a].kind \in {"local", "send"} /\ job'[a].slot = s
  BY DEF userBar, Pending

(* The types of the variables of PtrReturn, and their definitions at one   *)
(* allocator.                                                              *)
LEMMA BarTypes ==
  ASSUME TypeOK
  PROVE  /\ phaseBar \in [Allocators -> {"live", "exited", "freed"}]
         /\ vecBar \in [Allocators -> SUBSET Slots]
         /\ inboxBar \in [Allocators -> SUBSET Slots]
         /\ batchBar \in [Allocators -> SUBSET Slots]
         /\ handBar \in [Allocators -> SUBSET Slots]
         /\ valueBar \in [Slots -> Slots]
         /\ \A a \in Allocators : /\ inboxBar[a] = Chain(next, head[a])
                                  /\ head[a] \in Slots \union {NULL}
                                  /\ handBar[a] = {post[a].node} \ {NULL}
                                  /\ frames[a] \in Seq(Frames)
                                  /\ \A i \in DOMAIN frames[a] : /\ Rest(frames[a][i]) \in Slots \union {NULL}
                                                                 /\ frames[a][i] \in Frames
  <1>1. phaseBar \in [Allocators -> {"live", "exited", "freed"}]
    BY DEF TypeOK, phaseBar, Gone
  <1>2. vecBar \in [Allocators -> SUBSET Slots]
    BY DEF TypeOK, vecBar
  <1>3. inboxBar \in [Allocators -> SUBSET Slots]
    BY ChainMember DEF TypeOK, inboxBar
  <1>4. batchBar \in [Allocators -> SUBSET Slots]
    <2>1. ASSUME NEW a \in Allocators, NEW n \in batchBar[a] PROVE n \in Slots
      <3>1. PICK i \in DOMAIN frames[a] : n \in Chain(next, Rest(frames[a][i]))
        BY <2>1, BatchMember
      <3>2. next \in [Slots -> Slots \union {NULL}]
        BY DEF TypeOK
      <3> QED
        BY <3>1, <3>2, ChainMember
    <2> QED
      BY <2>1 DEF batchBar
  <1>5. handBar \in [Allocators -> SUBSET Slots]
    BY DEF TypeOK, handBar, Posts, NoPost
  <1>6. valueBar \in [Slots -> Slots]
    BY DEF TypeOK, valueBar
  <1>7. ASSUME NEW a \in Allocators
        PROVE  /\ inboxBar[a] = Chain(next, head[a])
               /\ head[a] \in Slots \union {NULL}
               /\ handBar[a] = {post[a].node} \ {NULL}
    BY DEF TypeOK, inboxBar, handBar
  <1>8. ASSUME NEW a \in Allocators
        PROVE  frames[a] \in Seq(Frames)
    BY DEF TypeOK
  <1>9. ASSUME NEW a \in Allocators, NEW i \in DOMAIN frames[a]
        PROVE  frames[a][i] \in Frames
    BY <1>8
  <1>10. ASSUME NEW a \in Allocators, NEW i \in DOMAIN frames[a]
        PROVE  Rest(frames[a][i]) \in Slots \union {NULL}
    BY <1>9 DEF Rest, Frames
  <1> QED
    BY <1>1, <1>2, <1>3, <1>4, <1>5, <1>6, <1>7, <1>8, <1>9, <1>10

(* The parts of the invariant that speak of lists.                         *)
ListsOK == NodesFilled /\ PostsAddressed /\ Acyclic /\ FramesApart
Local == TypeOK /\ RightVector /\ Scheduled /\ HeldOnce /\ ListsOK

(* A step that touches no list, frame or node keeps what is said of them.  *)
LEMMA SameLists ==
  ASSUME ListsOK, UNCHANGED <<next, head, frames, post, value>>
  PROVE  ListsOK' /\ UNCHANGED <<inboxBar, batchBar, handBar, valueBar>>
  <1>1. UNCHANGED <<inboxBar, batchBar, handBar, valueBar>>
    BY DEF inboxBar, batchBar, handBar, valueBar
  <1>2. (Promise!Nodes)' = Promise!Nodes
    BY <1>1, NodesMember
  <1> QED
    BY <1>1, <1>2 DEF ListsOK, NodesFilled, PostsAddressed, Acyclic, FramesApart

(* The vectors of an allocator are one set in PtrReturn.                   *)
LEMMA VecMember ==
  ASSUME NEW a \in Allocators, NEW s
  PROVE  /\ s \in vecBar[a] <=> \E c \in Classes : s \in vec[a][c]
         /\ s \in vecBar'[a] <=> \E c \in Classes : s \in vec'[a][c]
  BY DEF vecBar

(* Taking a pointer from the vector of a class; it is in no other vector   *)
(* of the allocator.                                                       *)
LEMMA PopVec ==
  ASSUME TypeOK, RightVector, NEW a \in Allocators, NEW c \in Classes, NEW s \in vec[a][c],
         vec' = Pop(vec, a, c, s)
  PROVE  /\ vec' \in [Allocators -> [Classes -> SUBSET Slots]]
         /\ RightVector'
         /\ vecBar' = [vecBar EXCEPT ![a] = @ \ {s}]
         /\ s \in vecBar[a] /\ s \in Slots
  <1>1. vec' \in [Allocators -> [Classes -> SUBSET Slots]]
    BY DEF Pop, TypeOK
  <1>2. \A b \in Allocators : \A d \in Classes :
          vec'[b][d] = IF b = a /\ d = c THEN vec[b][d] \ {s} ELSE vec[b][d]
    BY DEF Pop, TypeOK
  <1>3. RightVector'
    <2> SUFFICES ASSUME NEW b \in Allocators, NEW d \in Classes PROVE vec'[b][d] \subseteq SlotsOf(b, d)
      BY DEF RightVector
    <2>1. vec'[b][d] \subseteq vec[b][d]
      BY <1>2
    <2> QED
      BY <2>1 DEF RightVector
  <1>4. \A d \in Classes \ {c} : s \notin vec[a][d]
    BY DEF RightVector, SlotsOf
  <1>5. ASSUME NEW b \in Allocators
        PROVE  vecBar'[b] = IF b = a THEN vecBar[b] \ {s} ELSE vecBar[b]
    <2>1. ASSUME NEW n PROVE n \in vecBar'[b] <=> n \in vecBar[b] /\ ~(b = a /\ n = s)
      <3>1. n \in vecBar[b] <=> \E d \in Classes : n \in vec[b][d]
        BY VecMember
      <3>2. n \in vecBar'[b] <=> \E d \in Classes : n \in vec'[b][d]
        BY VecMember
      <3>3. CASE b = a
        <4>1. \A d \in Classes : n \in vec'[a][d] <=> n \in vec[a][d] /\ n # s
          BY <1>2, <1>4
        <4> QED
          BY <3>1, <3>2, <3>3, <4>1
      <3>4. CASE b # a
        <4>1. \A d \in Classes : vec'[b][d] = vec[b][d]
          BY <1>2, <3>4
        <4> QED
          BY <3>1, <3>2, <3>4, <4>1
      <3> QED
        BY <3>3, <3>4
    <2> QED
      BY <2>1
  <1>6. DOMAIN vecBar = Allocators /\ vecBar' = [b \in Allocators |-> vecBar'[b]]
    BY DEF vecBar
  <1>7. s \in vecBar[a] /\ s \in Slots
    BY DEF vecBar, TypeOK
  <1> QED
    BY <1>1, <1>3, <1>5, <1>6, <1>7

(* Giving a pointer to the vector of its class.                            *)
LEMMA PushVec ==
  ASSUME TypeOK, RightVector, NEW a \in Allocators, NEW c \in Classes, NEW s \in SlotsOf(a, c),
         vec' = Push(vec, a, c, s)
  PROVE  /\ vec' \in [Allocators -> [Classes -> SUBSET Slots]]
         /\ RightVector'
         /\ vecBar' = [vecBar EXCEPT ![a] = @ \union {s}]
  <1>0. s \in Slots
    BY DEF SlotsOf
  <1>1. vec' \in [Allocators -> [Classes -> SUBSET Slots]]
    BY <1>0 DEF Push, TypeOK
  <1>2. \A b \in Allocators : \A d \in Classes :
          vec'[b][d] = IF b = a /\ d = c THEN vec[b][d] \union {s} ELSE vec[b][d]
    BY DEF Push, TypeOK
  <1>3. RightVector'
    <2> SUFFICES ASSUME NEW b \in Allocators, NEW d \in Classes PROVE vec'[b][d] \subseteq SlotsOf(b, d)
      BY DEF RightVector
    <2>1. vec[b][d] \subseteq SlotsOf(b, d)
      BY DEF RightVector
    <2> QED
      BY <1>2, <2>1
  <1>5. ASSUME NEW b \in Allocators
        PROVE  vecBar'[b] = IF b = a THEN vecBar[b] \union {s} ELSE vecBar[b]
    <2>1. ASSUME NEW n PROVE n \in vecBar'[b] <=> n \in vecBar[b] \/ (b = a /\ n = s)
      <3>1. n \in vecBar[b] <=> \E d \in Classes : n \in vec[b][d]
        BY VecMember
      <3>2. n \in vecBar'[b] <=> \E d \in Classes : n \in vec'[b][d]
        BY VecMember
      <3>3. CASE b = a
        <4>1. \A d \in Classes : n \in vec'[a][d] <=> n \in vec[a][d] \/ (d = c /\ n = s)
          BY <1>2
        <4> QED
          BY <3>1, <3>2, <3>3, <4>1
      <3>4. CASE b # a
        <4>1. \A d \in Classes : vec'[b][d] = vec[b][d]
          BY <1>2, <3>4
        <4> QED
          BY <3>1, <3>2, <3>4, <4>1
      <3> QED
        BY <3>3, <3>4
    <2> QED
      BY <2>1
  <1>6. DOMAIN vecBar = Allocators /\ vecBar' = [b \in Allocators |-> vecBar'[b]]
    BY DEF vecBar
  <1> QED
    BY <1>1, <1>3, <1>5, <1>6

(* Registering the destructor is invisible in PtrReturn.                   *)
LEMMA RegisterStep ==
  ASSUME TypeOK, NEW a \in Allocators, Register(a)
  PROVE  /\ phaseBar' = phaseBar
         /\ phase' \in [Allocators -> {"fresh", "live", "background"} \union Gone]
         /\ \A b \in Allocators : phase'[b] = phase[b] \/ (phase[b] = "fresh" /\ phase'[b] = "live")
  BY DEF TypeOK, Register, phaseBar, Gone

(* What a swap of head_of_list does, whatever the frames below note.       *)
LEMMA SwapStep ==
  ASSUME TypeOK, ListsOK, Promise!IInv, NEW a \in Allocators, NEW fs \in Seq(Frames),
         Len(fs) = Len(frames[a]), \A i \in 1 .. Len(fs) : Rest(fs[i]) = Rest(frames[a][i]),
         Swap(a, fs), UNCHANGED <<next, value, post>>
  PROVE  /\ head' \in [Allocators -> Slots \union {NULL}]
         /\ frames' \in [Allocators -> Seq(Frames)]
         /\ inboxBar' = [inboxBar EXCEPT ![a] = {}]
         /\ batchBar' = [batchBar EXCEPT ![a] = @ \union inboxBar[a]]
         /\ UNCHANGED <<handBar, valueBar>>
         /\ ListsOK'
  <1> DEFINE L == Len(frames[a])
             gs == Append(fs, Frame(head[a]))
  <1>1. /\ head' = [head EXCEPT ![a] = NULL]
        /\ frames' = [frames EXCEPT ![a] = gs]
        /\ L \in Nat /\ Frame(head[a]) \in Frames
    BY DEF Swap, TypeOK, Frame, Frames
  <1>2. /\ gs \in Seq(Frames)
        /\ DOMAIN gs = 1 .. L + 1
        /\ \A i \in 1 .. L : gs[i] = fs[i]
        /\ gs[L + 1] = Frame(head[a])
    BY <1>1
  <1>3. head' \in [Allocators -> Slots \union {NULL}] /\ frames' \in [Allocators -> Seq(Frames)]
    BY <1>1, <1>2 DEF TypeOK
  <1>4. Rest(gs[L + 1]) = head[a] /\ \A i \in 1 .. L : Rest(gs[i]) = Rest(frames[a][i])
    BY <1>2 DEF Rest, Frame
  <1> HIDE DEF gs
  <1>5. inboxBar' = [inboxBar EXCEPT ![a] = {}]
    BY <1>1, ChainNull DEF inboxBar, TypeOK
  <1>6. DOMAIN frames[a] = 1 .. L
    BY DEF TypeOK
  <1>7. ASSUME NEW b \in Allocators
        PROVE  batchBar'[b] = IF b = a THEN batchBar[b] \union inboxBar[a] ELSE batchBar[b]
    <2>1. CASE b # a
      <3>1. frames'[b] = frames[b]
        BY <1>1, <2>1 DEF TypeOK
      <3> QED
        BY <3>1, <2>1 DEF batchBar
    <2>2. CASE b = a
      <3>1. frames'[a] = gs
        BY <1>1 DEF TypeOK
      <3>2. ASSUME NEW n PROVE n \in batchBar'[a] <=> n \in batchBar[a] \union inboxBar[a]
        <4>1. n \in batchBar'[a] <=> \E i \in 1 .. L + 1 : n \in Chain(next, Rest(gs[i]))
          BY <3>1, <1>2, BatchMember
        <4>2. n \in batchBar[a] <=> \E i \in 1 .. L : n \in Chain(next, Rest(frames[a][i]))
          BY <1>6, BatchMember
        <4>3. n \in inboxBar[a] <=> n \in Chain(next, head[a])
          BY DEF inboxBar
        <4> QED
          BY <4>1, <4>2, <4>3, <1>1, <1>4
      <3> QED
        BY <3>2, <2>2
    <2> QED
      BY <2>1, <2>2
  <1>8. batchBar' = [batchBar EXCEPT ![a] = @ \union inboxBar[a]]
    <2>1. DOMAIN batchBar = Allocators /\ batchBar' = [b \in Allocators |-> batchBar'[b]]
      BY DEF batchBar
    <2> QED
      BY <1>7, <2>1
  <1>9. UNCHANGED <<handBar, valueBar>>
    BY DEF handBar, valueBar
  <1>10. (Promise!Nodes)' = Promise!Nodes
    BY <1>5, <1>8, <1>9, NodesMember, BarTypes
  <1>11. NodesFilled' /\ PostsAddressed'
    BY <1>10 DEF ListsOK, NodesFilled, PostsAddressed
  <1>12. Acyclic'
    BY <1>5, <1>8, BarTypes DEF ListsOK, Acyclic
  <1>13. FramesApart'
    <2> SUFFICES ASSUME NEW b \in Allocators, NEW i \in DOMAIN frames'[b], NEW j \in DOMAIN frames'[b], i # j
                 PROVE  Chain(next, Rest(frames'[b][i])) \intersect Chain(next, Rest(frames'[b][j])) = {}
      BY DEF FramesApart
    <2>1. CASE b # a
      <3>1. frames'[b] = frames[b]
        BY <1>1, <2>1 DEF TypeOK
      <3> QED
        BY <3>1 DEF ListsOK, FramesApart
    <2>2. CASE b = a
      <3>1. frames'[a] = gs
        BY <1>1 DEF TypeOK
      <3>2. \A k \in 1 .. L : Chain(next, Rest(gs[k])) \subseteq batchBar[a]
        BY <1>4, <1>6, BatchMember
      <3>3. Chain(next, Rest(gs[L + 1])) = inboxBar[a]
        BY <1>4 DEF inboxBar
      <3>4. inboxBar[a] \intersect batchBar[a] = {}
        BY DEF Promise!IInv, Promise!OnePlace
      <3>5. \A k, l \in 1 .. L : k # l => Chain(next, Rest(gs[k])) \intersect Chain(next, Rest(gs[l])) = {}
        BY <1>4, <1>6 DEF ListsOK, FramesApart
      <3>6. \A k \in DOMAIN gs : k \in 1 .. L \/ k = L + 1
        BY <1>1, <1>2
      <3>7. i \in DOMAIN gs /\ j \in DOMAIN gs /\ frames'[b][i] = gs[i] /\ frames'[b][j] = gs[j]
        BY <3>1, <2>2
      <3>8. CASE i = L + 1 \/ j = L + 1
        BY <3>2, <3>3, <3>4, <3>6, <3>7, <3>8
      <3>9. CASE i # L + 1 /\ j # L + 1
        BY <3>5, <3>6, <3>7, <3>9
      <3> QED
        BY <3>8, <3>9
    <2> QED
      BY <2>1, <2>2
  <1> QED
    BY <1>3, <1>5, <1>8, <1>9, <1>11, <1>12, <1>13 DEF ListsOK

-----------------------------------------------------------------------------
(* The actions, one by one                                                 *)

(* What is to be shown of a step.                                          *)
Simulated == Local' /\ [Promise!Next]_(Promise!vars)

(* PtrReturn does nothing.                                                 *)
LEMMA Stutter ==
  ASSUME UNCHANGED <<phaseBar, carvedBar, vecBar, userBar, inboxBar, batchBar, handBar, valueBar>>, Local'
  PROVE  Simulated
  BY DEF Simulated, Promise!vars

(* A step of PtrReturn that needs only the allocator.                      *)
LEMMA NextByOne ==
  ASSUME Local', NEW a \in Allocators,
         Promise!Take(a) \/ Promise!Exit(a) \/ Promise!FreeAll(a)
  PROVE  Simulated
  BY DEF Simulated, Promise!Next

(* A step of PtrReturn about one slot.                                     *)
LEMMA NextBySlot ==
  ASSUME Local', NEW a \in Allocators, NEW s \in Slots,
         \/ Promise!Allocate(a, s) \/ Promise!FreeLocal(a, s)
         \/ Promise!Post(a, s) \/ Promise!Receive(a, s) \/ Promise!Unload(a, s)
  PROVE  Simulated
  BY DEF Simulated, Promise!Next

(* A remote deallocation: the pointer and the node that carries it.        *)
LEMMA NextByTwo ==
  ASSUME Local', NEW a \in Allocators, NEW s \in Slots, NEW n \in Slots, Promise!FreeRemote(a, s, n)
  PROVE  Simulated
  BY DEF Simulated, Promise!Next

(* A chunk is carved.                                                      *)
LEMMA NextByCarve ==
  ASSUME Local', NEW a \in Allocators, NEW S \in SUBSET Promise!OwnedBy(a), Promise!Carve(a, S)
  PROVE  Simulated
  BY DEF Simulated, Promise!Next

(* What the fields of an operation hold.                                   *)
LEMMA JobTypes ==
  ASSUME TypeOK, NEW a \in Allocators
  PROVE  /\ job[a] \in Jobs
         /\ job[a].kind = "alloc" => job[a].class \in Classes
         /\ job[a].kind = "local" => job[a].slot \in Slots
         /\ job[a].kind = "send" => job[a].slot \in Slots /\ job[a].class = NodeClass
  <1>1. job[a] \in Jobs
    BY DEF TypeOK
  <1> QED
    BY <1>1 DEF Jobs

(* Between two operations nothing is in hand and nothing is swapped out.   *)
LEMMA ReadyIdle ==
  ASSUME NEW a \in Allocators, Ready(a), TypeOK
  PROVE  /\ phase[a] \in {"fresh", "live"} /\ phaseBar[a] = "live"
         /\ job[a].kind = "idle"
         /\ handBar[a] = {} /\ batchBar[a] = {}
  <1>1. phase[a] \in {"fresh", "live"} /\ phaseBar[a] = "live" /\ job[a].kind = "idle" /\ handBar[a] = {}
    BY DEF Ready, phaseBar, Idle, handBar, NoPost, TypeOK
  <1>2. batchBar[a] = {}
    BY BatchMember DEF Ready
  <1> QED
    BY <1>1, <1>2

(* Alloc is Allocate.                                                      *)
LEMMA AllocStep ==
  ASSUME Local, Promise!IInv, NEW a \in Allocators, NEW c \in Demand[a], Alloc(a, c)
  PROVE  Simulated
  <1> USE DEF Local
  <1>1. c \in Classes
    BY ConstantsAssumption
  <1>2. PICK s \in vec[a][c] : vec' = Pop(vec, a, c, s) /\ user' = user \union {s}
    BY DEF Alloc
  <1>3. Ready(a) /\ UNCHANGED <<phase, chunks, head, next, value, job, frames, post, sizes>>
    BY DEF Alloc, memory, threads
  <1>4. /\ vec' \in [Allocators -> [Classes -> SUBSET Slots]]
        /\ RightVector'
        /\ vecBar' = [vecBar EXCEPT ![a] = @ \ {s}]
        /\ s \in vecBar[a] /\ s \in Slots
    BY <1>1, <1>2, PopVec
  <1>5. ListsOK' /\ UNCHANGED <<inboxBar, batchBar, handBar, valueBar>>
    BY <1>3, SameLists
  <1>6. UNCHANGED <<phaseBar, carvedBar>>
    BY <1>3 DEF phaseBar, carvedBar
  <1>7. userBar' = userBar \union {s}
    BY <1>2, <1>3, <1>4, UserMember
  <1>8. \A b \in Allocators : Holds(b) => job[b].slot # s
    BY <1>4, UserMember DEF Holds, Promise!IInv, Promise!OnePlace
  <1>9. HeldOnce'
    BY <1>2, <1>3, <1>8 DEF HeldOnce, Holds
  <1>10. TypeOK' /\ Scheduled'
    BY <1>2, <1>3, <1>4 DEF TypeOK, Scheduled
  <1>11. phaseBar[a] = "live"
    BY <1>3, ReadyIdle
  <1> QED
    BY <1>4, <1>5, <1>6, <1>7, <1>9, <1>10, <1>11, NextBySlot DEF Promise!Allocate

(* Only the operation of one thread changes.                               *)
LEMMA OtherJob ==
  ASSUME TypeOK, NEW a \in Allocators, NEW j \in Jobs, job' = [job EXCEPT ![a] = j]
  PROVE  /\ job' \in [Allocators -> Jobs]
         /\ job'[a] = j
         /\ \A b \in Allocators \ {a} : job'[b] = job[b]
  BY DEF TypeOK

(* In an operation and outside a check, nothing is in hand and nothing is  *)
(* swapped out.                                                            *)
LEMMA InJob ==
  ASSUME TypeOK, NEW a \in Allocators, NEW k, In(a, k)
  PROVE  /\ job[a].kind = k
         /\ frames[a] = <<>> /\ post[a] = NoPost
         /\ handBar[a] = {} /\ batchBar[a] = {}
  <1>1. job[a].kind = k /\ frames[a] = <<>> /\ post[a] = NoPost /\ handBar[a] = {}
    BY DEF In, handBar, NoPost, TypeOK
  <1>2. batchBar[a] = {}
    BY <1>1, BatchMember
  <1> QED
    BY <1>1, <1>2

(* Operations that hold no pointer of the user begin or end.               *)
LEMMA SameUser ==
  ASSUME UNCHANGED user,
         \A b \in Allocators : job'[b] # job[b] =>
           job[b].kind \notin {"local", "send"} /\ job'[b].kind \notin {"local", "send"}
  PROVE  userBar' = userBar
  <1>1. ASSUME NEW s PROVE s \in userBar' <=> s \in userBar
    BY UserMember
  <1> QED
    BY <1>1

(* The thread is in no operation.                                          *)
LEMMA IdleJob == Idle \in Jobs /\ Idle.kind = "idle"
  BY DEF Idle, Jobs

(* AllocDone is Allocate.                                                  *)
LEMMA AllocDoneStep ==
  ASSUME Local, Promise!IInv, NEW a \in Allocators, AllocDone(a)
  PROVE  Simulated
  <1> USE DEF Local
  <1> DEFINE c == job[a].class
  <1>0. job[a].kind = "alloc"
    BY InJob DEF AllocDone
  <1>1. c \in Classes
    BY <1>0, JobTypes
  <1>2. PICK s \in vec[a][c] : vec' = Pop(vec, a, c, s) /\ user' = user \union {s}
    BY DEF AllocDone
  <1>3. job' = [job EXCEPT ![a] = Idle] /\ UNCHANGED <<phase, chunks, head, next, value, frames, post, sizes>>
    BY DEF AllocDone, memory
  <1> HIDE DEF c
  <1>4. /\ vec' \in [Allocators -> [Classes -> SUBSET Slots]]
        /\ RightVector'
        /\ vecBar' = [vecBar EXCEPT ![a] = @ \ {s}]
        /\ s \in vecBar[a] /\ s \in Slots
    BY <1>1, <1>2, PopVec
  <1>5. ListsOK' /\ UNCHANGED <<inboxBar, batchBar, handBar, valueBar>>
    BY <1>3, SameLists
  <1>6. UNCHANGED <<phaseBar, carvedBar>>
    BY <1>3 DEF phaseBar, carvedBar
  <1>7. job' \in [Allocators -> Jobs] /\ job'[a].kind = "idle" /\ \A b \in Allocators \ {a} : job'[b] = job[b]
    BY <1>3, OtherJob, IdleJob
  <1>8. userBar' = userBar \union {s}
    BY <1>0, <1>2, <1>4, <1>7, UserMember
  <1>9. \A b \in Allocators : Holds(b) => job[b].slot # s
    BY <1>4, UserMember DEF Holds, Promise!IInv, Promise!OnePlace
  <1>10. HeldOnce'
    BY <1>2, <1>7, <1>9 DEF HeldOnce, Holds
  <1>11. TypeOK'
    BY <1>2, <1>3, <1>4, <1>7 DEF TypeOK
  <1>12. Scheduled'
    BY <1>3, <1>7 DEF Scheduled
  <1>13. phaseBar[a] = "live"
    BY <1>0 DEF Scheduled, phaseBar
  <1> QED
    BY <1>4, <1>5, <1>6, <1>8, <1>10, <1>11, <1>12, <1>13, NextBySlot DEF Promise!Allocate

(* AllocNone changes nothing in PtrReturn.                                 *)
LEMMA AllocNoneStep ==
  ASSUME Local, Promise!IInv, NEW a \in Allocators, AllocNone(a)
  PROVE  Simulated
  <1> USE DEF Local
  <1>1. job[a].kind = "alloc"
    BY InJob DEF AllocNone
  <1>2. /\ job' = [job EXCEPT ![a] = Idle]
        /\ UNCHANGED <<phase, chunks, vec, user, head, next, value, frames, post, sizes>>
    BY DEF AllocNone, memory
  <1>3. ListsOK' /\ UNCHANGED <<inboxBar, batchBar, handBar, valueBar>>
    BY <1>2, SameLists
  <1>4. UNCHANGED <<phaseBar, carvedBar, vecBar>>
    BY <1>2 DEF phaseBar, carvedBar, vecBar
  <1>5. job' \in [Allocators -> Jobs] /\ job'[a].kind = "idle" /\ \A b \in Allocators \ {a} : job'[b] = job[b]
    BY <1>2, OtherJob, IdleJob
  <1>6. userBar' = userBar
    <2>1. \A b \in Allocators : job'[b] # job[b] =>
           job[b].kind \notin {"local", "send"} /\ job'[b].kind \notin {"local", "send"}
      BY <1>1, <1>5
    <2> QED
      BY <1>2, <2>1, SameUser
  <1>7. HeldOnce'
    BY <1>1, <1>2, <1>5 DEF HeldOnce, Holds
  <1>8. TypeOK' /\ RightVector' /\ Scheduled'
    BY <1>2, <1>5 DEF TypeOK, RightVector, Scheduled
  <1> QED
    BY <1>3, <1>4, <1>6, <1>7, <1>8, Stutter

(* BackgroundSleeps changes nothing in PtrReturn.                          *)
LEMMA BackgroundSleepsStep ==
  ASSUME Local, Promise!IInv, NEW a \in Allocators, BackgroundSleeps(a)
  PROVE  Simulated
  <1> USE DEF Local
  <1>1. job[a].kind = "try"
    BY InJob DEF BackgroundSleeps
  <1>2. /\ job' = [job EXCEPT ![a] = [kind |-> "check"]]
        /\ UNCHANGED <<phase, chunks, vec, user, head, next, value, frames, post, sizes>>
    BY DEF BackgroundSleeps, memory
  <1>3. ListsOK' /\ UNCHANGED <<inboxBar, batchBar, handBar, valueBar>>
    BY <1>2, SameLists
  <1>4. UNCHANGED <<phaseBar, carvedBar, vecBar>>
    BY <1>2 DEF phaseBar, carvedBar, vecBar
  <1>5. job' \in [Allocators -> Jobs] /\ job'[a].kind = "check" /\ \A b \in Allocators \ {a} : job'[b] = job[b]
    <2>1. [kind |-> "check"] \in Jobs
      BY DEF Jobs
    <2> QED
      BY <1>2, <2>1, OtherJob
  <1>6. userBar' = userBar
    <2>1. \A b \in Allocators : job'[b] # job[b] =>
           job[b].kind \notin {"local", "send"} /\ job'[b].kind \notin {"local", "send"}
      BY <1>1, <1>5
    <2> QED
      BY <1>2, <2>1, SameUser
  <1>7. HeldOnce'
    BY <1>1, <1>2, <1>5 DEF HeldOnce, Holds
  <1>8. TypeOK' /\ RightVector'
    BY <1>2, <1>5 DEF TypeOK, RightVector
  <1>9. Scheduled'
    BY <1>1, <1>2, <1>5 DEF Scheduled
  <1> QED
    BY <1>3, <1>4, <1>6, <1>7, <1>8, <1>9, Stutter

(* Extra-large objects are no slots: nothing changes in PtrReturn.         *)
LEMMA ExtraLargeStep ==
  ASSUME Local, Promise!IInv, NEW a \in Allocators,
         \/ AllocExtraLargeNone(a)
         \/ \E x \in XLarge : AllocExtraLarge(a, x) \/ DeallocExtraLarge(a, x)
  PROVE  Simulated
  <1> USE DEF Local
  <1>1. UNCHANGED <<chunks, vec, head, next, value, job, frames, post>>
    BY DEF AllocExtraLargeNone, AllocExtraLarge, DeallocExtraLarge, memory, threads
  <1>2. UNCHANGED phase \/ Register(a)
    BY DEF AllocExtraLargeNone, AllocExtraLarge, DeallocExtraLarge
  <1>3. /\ phaseBar' = phaseBar
        /\ phase' \in [Allocators -> {"fresh", "live", "background"} \union Gone]
        /\ \A b \in Allocators : phase'[b] = phase[b] \/ (phase[b] = "fresh" /\ phase'[b] = "live")
    <2>1. CASE UNCHANGED phase
      BY <2>1 DEF TypeOK, phaseBar
    <2>2. CASE Register(a)
      BY <2>2, RegisterStep
    <2> QED
      BY <1>2, <2>1, <2>2
  <1>4. ListsOK' /\ UNCHANGED <<inboxBar, batchBar, handBar, valueBar>>
    BY <1>1, SameLists
  <1>5. UNCHANGED <<carvedBar, vecBar>>
    BY <1>1 DEF carvedBar, vecBar
  <1>6. user' \subseteq Slots \union XLarge /\ \A s \in Slots : s \in user' <=> s \in user
    BY ConstantsAssumption DEF TypeOK, AllocExtraLargeNone, AllocExtraLarge, DeallocExtraLarge
  <1>7. userBar' = userBar
    BY <1>1, <1>6, UserMember
  <1>8. HeldOnce'
    BY <1>1, <1>6, JobTypes DEF HeldOnce, Holds
  <1>9. sizes' \in [Allocators -> 0 .. MaxSizes]
    <2>1. sizes \in [Allocators -> 0 .. MaxSizes] /\ MaxSizes \in Nat
      BY ConstantsAssumption DEF TypeOK
    <2>2. \/ sizes[a] < MaxSizes /\ sizes' = [sizes EXCEPT ![a] = @ + 1]
          \/ sizes' = [sizes EXCEPT ![a] = IF @ > 0 THEN @ - 1 ELSE @]
      BY DEF AllocExtraLargeNone, AllocExtraLarge, DeallocExtraLarge
    <2> QED
      BY <2>1, <2>2
  <1>10. TypeOK' /\ RightVector'
    BY <1>1, <1>3, <1>6, <1>9 DEF TypeOK, RightVector
  <1>11. Scheduled'
    BY <1>1, <1>3 DEF Scheduled, Gone
  <1> QED
    BY <1>3, <1>4, <1>5, <1>7, <1>8, <1>10, <1>11, Stutter

(* DeallocLocal is FreeLocal.                                              *)
LEMMA DeallocLocalStep ==
  ASSUME Local, Promise!IInv, NEW a \in Allocators, NEW s \in Slots, DeallocLocal(a, s)
  PROVE  Simulated
  <1> USE DEF Local
  <1>1. /\ s \in user /\ Owner[s] = a /\ user' = user \ {s} /\ vec' = Push(vec, a, Class[s], s)
        /\ UNCHANGED <<phase, chunks, head, next, value, job, frames, post, sizes>>
    BY DEF DeallocLocal, IsLocalPtr, memory, threads
  <1>2. Class[s] \in Classes /\ s \in SlotsOf(a, Class[s])
    BY <1>1 DEF Classes, SlotsOf
  <1>3. /\ vec' \in [Allocators -> [Classes -> SUBSET Slots]]
        /\ RightVector'
        /\ vecBar' = [vecBar EXCEPT ![a] = @ \union {s}]
    BY <1>1, <1>2, PushVec
  <1>4. ListsOK' /\ UNCHANGED <<inboxBar, batchBar, handBar, valueBar>>
    BY <1>1, SameLists
  <1>5. UNCHANGED <<phaseBar, carvedBar>>
    BY <1>1 DEF phaseBar, carvedBar
  <1>6. \A b \in Allocators : Holds(b) => job[b].slot # s
    BY <1>1 DEF HeldOnce
  <1>7. userBar' = userBar \ {s} /\ s \in userBar
    <2>1. ASSUME NEW n PROVE n \in userBar' <=> n \in userBar \ {s}
      BY <1>1, <1>6, UserMember DEF Holds
    <2> QED
      BY <1>1, <2>1, UserMember
  <1>8. HeldOnce'
    BY <1>1 DEF HeldOnce, Holds
  <1>9. TypeOK' /\ Scheduled'
    BY <1>1, <1>3 DEF TypeOK, Scheduled
  <1>10. phaseBar[a] = "live"
    BY ReadyIdle DEF DeallocLocal
  <1> QED
    BY <1>1, <1>3, <1>4, <1>5, <1>7, <1>8, <1>9, <1>10, NextBySlot DEF Promise!FreeLocal

(* DeallocLocalDone is FreeLocal: the pointer was with the operation and   *)
(* no one else.                                                            *)
LEMMA DeallocLocalDoneStep ==
  ASSUME Local, Promise!IInv, NEW a \in Allocators, DeallocLocalDone(a)
  PROVE  Simulated
  <1> USE DEF Local
  <1> DEFINE s == job[a].slot
  <1>1. /\ job[a].kind = "local" /\ job' = [job EXCEPT ![a] = Idle] /\ vec' = Push(vec, a, Class[s], s)
        /\ UNCHANGED <<phase, chunks, user, head, next, value, frames, post, sizes>>
    BY InJob DEF DeallocLocalDone, memory
  <1>2. s \in Slots /\ Owner[s] = a /\ s \notin user
    BY <1>1, JobTypes DEF HeldOnce, Holds
  <1>3. \A b \in Allocators \ {a} : Holds(b) => job[b].slot # s
    BY <1>1 DEF HeldOnce, Holds
  <1>4. s \in userBar
    BY <1>1, UserMember
  <1>5. \A n : n # s => (n \in userBar <=> \/ n \in user /\ n \in Slots
                                           \/ \E b \in Allocators \ {a} : Holds(b) /\ job[b].slot = n)
    BY UserMember DEF Holds
  <1> HIDE DEF s
  <1>6. Class[s] \in Classes /\ s \in SlotsOf(a, Class[s])
    BY <1>2 DEF Classes, SlotsOf
  <1>7. /\ vec' \in [Allocators -> [Classes -> SUBSET Slots]]
        /\ RightVector'
        /\ vecBar' = [vecBar EXCEPT ![a] = @ \union {s}]
    BY <1>1, <1>6, PushVec
  <1>8. ListsOK' /\ UNCHANGED <<inboxBar, batchBar, handBar, valueBar>>
    BY <1>1, SameLists
  <1>9. UNCHANGED <<phaseBar, carvedBar>>
    BY <1>1 DEF phaseBar, carvedBar
  <1>10. job' \in [Allocators -> Jobs] /\ job'[a].kind = "idle" /\ \A b \in Allocators \ {a} : job'[b] = job[b]
    BY <1>1, OtherJob, IdleJob
  <1>11. userBar' = userBar \ {s}
    <2>1. ASSUME NEW n PROVE n \in userBar' <=> n \in userBar \ {s}
      <3>1. n \in userBar' <=> \/ n \in user /\ n \in Slots
                               \/ \E b \in Allocators \ {a} : Holds(b) /\ job[b].slot = n
        BY <1>1, <1>10, UserMember DEF Holds
      <3> QED
        BY <3>1, <1>2, <1>3, <1>5
    <2> QED
      BY <2>1
  <1>12. HeldOnce'
    BY <1>1, <1>10 DEF HeldOnce, Holds
  <1>13. TypeOK'
    BY <1>1, <1>7, <1>10 DEF TypeOK
  <1>14. Scheduled'
    BY <1>1, <1>10 DEF Scheduled
  <1>15. phaseBar[a] = "live"
    BY <1>1 DEF Scheduled, phaseBar
  <1> QED
    BY <1>2, <1>4, <1>7, <1>8, <1>9, <1>11, <1>12, <1>13, <1>14, <1>15, NextBySlot DEF Promise!FreeLocal

(* CarveChunk is Carve.                                                    *)
LEMMA CarveChunkStep ==
  ASSUME Local, Promise!IInv, NEW a \in Allocators, CarveChunk(a)
  PROVE  Simulated
  <1> USE DEF Local
  <1> DEFINE c == job[a].class
  <1>1. /\ job[a].kind \in {"alloc", "send"} /\ vec[a][c] = {} /\ c \notin chunks[a]
        /\ chunks' = [chunks EXCEPT ![a] = @ \union {c}]
        /\ vec' = [vec EXCEPT ![a][c] = SlotsOf(a, c)]
        /\ UNCHANGED <<phase, user, head, next, value, job, frames, post, sizes>>
    BY InJob DEF CarveChunk, memory, threads
  <1>2. c \in Classes
    BY <1>1, JobTypes DEF Classes
  <1> HIDE DEF c
  <1>3. \A b \in Allocators : \A d \in Classes :
          vec'[b][d] = IF b = a /\ d = c THEN SlotsOf(a, c) ELSE vec[b][d]
    BY <1>1, <1>2 DEF TypeOK
  <1>4. RightVector'
    <2> SUFFICES ASSUME NEW b \in Allocators, NEW d \in Classes PROVE vec'[b][d] \subseteq SlotsOf(b, d)
      BY DEF RightVector
    <2>1. vec[b][d] \subseteq SlotsOf(b, d)
      BY DEF RightVector
    <2> QED
      BY <1>3, <2>1
  <1>5. vecBar' = [vecBar EXCEPT ![a] = @ \union SlotsOf(a, c)]
    <2>1. ASSUME NEW b \in Allocators, NEW n
          PROVE  n \in vecBar'[b] <=> n \in vecBar[b] \/ (b = a /\ n \in SlotsOf(a, c))
      <3>1. n \in vecBar[b] <=> \E d \in Classes : n \in vec[b][d]
        BY VecMember
      <3>2. n \in vecBar'[b] <=> \E d \in Classes : n \in vec'[b][d]
        BY VecMember
      <3>3. \A d \in Classes : n \in vec'[b][d] <=> n \in vec[b][d] \/ (b = a /\ d = c /\ n \in SlotsOf(a, c))
        BY <1>1, <1>3
      <3> QED
        BY <1>2, <3>1, <3>2, <3>3
    <2>2. \A b \in Allocators : vecBar'[b] = IF b = a THEN vecBar[b] \union SlotsOf(a, c) ELSE vecBar[b]
      BY <2>1
    <2>3. DOMAIN vecBar = Allocators /\ vecBar' = [b \in Allocators |-> vecBar'[b]]
      BY DEF vecBar
    <2> QED
      BY <2>2, <2>3
  <1>6. carvedBar' = carvedBar \union SlotsOf(a, c) /\ SlotsOf(a, c) \intersect carvedBar = {}
    BY <1>1, ConstantsAssumption DEF carvedBar, SlotsOf, TypeOK
  <1>7. ListsOK' /\ UNCHANGED <<inboxBar, batchBar, handBar, valueBar>>
    BY <1>1, SameLists
  <1>8. UNCHANGED <<phaseBar, userBar>>
    BY <1>1 DEF phaseBar, userBar, Pending
  <1>9. HeldOnce' /\ Scheduled'
    BY <1>1 DEF HeldOnce, Holds, Scheduled
  <1>10. TypeOK'
    <2>1. SlotsOf(a, c) \subseteq Slots
      BY DEF SlotsOf
    <2>2. vec' \in [Allocators -> [Classes -> SUBSET Slots]]
      BY <1>1, <1>2, <2>1 DEF TypeOK
    <2>3. chunks' \in [Allocators -> SUBSET Classes]
      BY <1>1, <1>2 DEF TypeOK
    <2> QED
      BY <1>1, <2>2, <2>3 DEF TypeOK
  <1>11. phaseBar[a] # "freed"
    BY <1>1 DEF Scheduled, phaseBar
  <1>12. SlotsOf(a, c) \in SUBSET Promise!OwnedBy(a)
    BY DEF SlotsOf, Promise!OwnedBy
  <1> QED
    BY <1>4, <1>5, <1>6, <1>7, <1>8, <1>9, <1>10, <1>11, <1>12, NextByCarve DEF Promise!Carve

(* DestructorMoves and DestructorPanicking are Exit.                       *)
LEMMA DestructorStep ==
  ASSUME Local, Promise!IInv, NEW a \in Allocators, DestructorMoves(a) \/ DestructorPanicking(a)
  PROVE  Simulated
  <1> USE DEF Local
  <1>1. /\ phase[a] = "live" /\ phaseBar[a] = "live"
        /\ job[a].kind = "idle" /\ frames[a] = <<>> /\ post[a] = NoPost
        /\ UNCHANGED <<chunks, vec, user, head, next, value, frames, post, sizes>>
    BY ReadyIdle DEF DestructorMoves, DestructorPanicking, Ready, memory, threads
  <1>2. \/ phase' = [phase EXCEPT ![a] = "background"] /\ job' = [job EXCEPT ![a] = [kind |-> "check"]]
        \/ phase' = [phase EXCEPT ![a] = "abandoned"] /\ job' = job
    BY DEF DestructorMoves, DestructorPanicking, threads
  <1>3. phaseBar' = [phaseBar EXCEPT ![a] = "exited"]
    BY <1>1, <1>2 DEF phaseBar, TypeOK
  <1>4. /\ job' \in [Allocators -> Jobs] /\ \A b \in Allocators \ {a} : job'[b] = job[b]
        /\ job'[a].kind = "idle" \/ (job'[a].kind = "check" /\ phase'[a] = "background")
    <2>1. [kind |-> "check"] \in Jobs
      BY DEF Jobs
    <2>2. CASE phase' = [phase EXCEPT ![a] = "background"] /\ job' = [job EXCEPT ![a] = [kind |-> "check"]]
      <3>1. phase'[a] = "background"
        BY <2>2 DEF TypeOK
      <3> QED
        BY <2>1, <2>2, <3>1, OtherJob
    <2>3. CASE job' = job
      BY <1>1, <2>3 DEF TypeOK
    <2> QED
      BY <1>2, <2>2, <2>3
  <1>5. UNCHANGED <<vecBar, carvedBar>>
    BY <1>1 DEF vecBar, carvedBar
  <1>6. ListsOK' /\ UNCHANGED <<inboxBar, batchBar, handBar, valueBar>>
    BY <1>1, SameLists
  <1>7. userBar' = userBar
    <2>1. \A b \in Allocators : job'[b] # job[b] =>
           job[b].kind \notin {"local", "send"} /\ job'[b].kind \notin {"local", "send"}
      BY <1>1, <1>4
    <2> QED
      BY <1>1, <2>1, SameUser
  <1>8. HeldOnce'
    BY <1>1, <1>4 DEF HeldOnce, Holds
  <1>9. /\ phase' \in [Allocators -> {"fresh", "live", "background"} \union Gone]
        /\ \A b \in Allocators \ {a} : phase'[b] = phase[b]
    BY <1>2 DEF TypeOK, Gone
  <1>10. TypeOK' /\ RightVector'
    BY <1>1, <1>4, <1>9 DEF TypeOK, RightVector
  <1>11. Scheduled'
    BY <1>1, <1>4, <1>9 DEF Scheduled
  <1> QED
    BY <1>1, <1>3, <1>5, <1>6, <1>7, <1>8, <1>10, <1>11, NextByOne DEF Promise!Exit

(* The comparison of the counts is a comparison of the sets: what the      *)
(* vectors hold is of the right class, so that no slot is missing.         *)
LEMMA CountsSuffice ==
  ASSUME TypeOK, RightVector, NEW a \in Allocators, MayBeFreed(a), NEW s \in carvedBar, Owner[s] = a
  PROVE  s \in vecBar[a]
  <1>1. s \in Slots /\ Class[s] \in chunks[a] /\ Class[s] \in Classes
    BY DEF carvedBar, Classes
  <1>2. SlotsOf(a, Class[s]) \subseteq Slots /\ s \in SlotsOf(a, Class[s])
    BY <1>1 DEF SlotsOf
  <1>3. IsFiniteSet(SlotsOf(a, Class[s]))
    BY <1>2, FS_Subset, ConstantsAssumption
  <1>4. vec[a][Class[s]] \in SUBSET SlotsOf(a, Class[s])
    BY <1>1 DEF RightVector
  <1>5. Cardinality(vec[a][Class[s]]) = Cardinality(SlotsOf(a, Class[s]))
    BY <1>1 DEF MayBeFreed
  <1>6. vec[a][Class[s]] = SlotsOf(a, Class[s])
    BY <1>3, <1>4, <1>5, FS_Subset
  <1> QED
    BY <1>1, <1>2, <1>6, VecMember

(* TryFreeOk is FreeAll; when an extra-large size keeps the memory it is   *)
(* Exit, or nothing in the background thread.                              *)
LEMMA TryFreeOkStep ==
  ASSUME Local, Promise!IInv, NEW a \in Allocators, DestructorFrees(a) \/ BackgroundFrees(a)
  PROVE  Simulated
  <1> USE DEF Local
  <1>1. TryFreeOk(a) /\ MayBeFreed(a)
    BY DEF DestructorFrees, BackgroundFrees, TryFreeOk
  <1>2. /\ job[a].kind \in {"idle", "try"} /\ frames[a] = <<>> /\ post[a] = NoPost
        /\ batchBar[a] = {} /\ handBar[a] = {}
        /\ phase[a] \in {"live", "background"}
    <2>1. CASE DestructorFrees(a)
      BY <2>1, ReadyIdle DEF DestructorFrees, Ready
    <2>2. CASE BackgroundFrees(a)
      BY <2>2, InJob DEF BackgroundFrees, Scheduled
    <2> QED
      BY <2>1, <2>2
  <1>3. job' = [job EXCEPT ![a] = Idle] /\ UNCHANGED <<user, head, next, value, frames, post, sizes>>
    BY <1>1 DEF TryFreeOk, memory
  <1>4. job' \in [Allocators -> Jobs] /\ job'[a].kind = "idle" /\ \A b \in Allocators \ {a} : job'[b] = job[b]
    BY <1>3, OtherJob, IdleJob
  <1>5. ListsOK' /\ UNCHANGED <<inboxBar, batchBar, handBar, valueBar>>
    BY <1>3, SameLists
  <1>6. userBar' = userBar
    <2>1. \A b \in Allocators : job'[b] # job[b] =>
           job[b].kind \notin {"local", "send"} /\ job'[b].kind \notin {"local", "send"}
      BY <1>2, <1>4
    <2> QED
      BY <1>3, <2>1, SameUser
  <1>7. HeldOnce'
    BY <1>2, <1>3, <1>4 DEF HeldOnce, Holds
  <1>8. /\ phase' \in [Allocators -> {"fresh", "live", "background"} \union Gone]
        /\ \A b \in Allocators \ {a} : phase'[b] = phase[b]
    BY <1>1 DEF TryFreeOk, TypeOK, Gone
  <1>9. Scheduled'
    BY <1>2, <1>3, <1>4, <1>8 DEF Scheduled
  <1>10. CASE phase' = [phase EXCEPT ![a] = "leaked"] /\ UNCHANGED <<chunks, vec>>
    <2>1. UNCHANGED <<vecBar, carvedBar>>
      BY <1>10 DEF vecBar, carvedBar
    <2>2. phaseBar' = [phaseBar EXCEPT ![a] = "exited"] /\ phaseBar[a] \in {"live", "exited"}
      BY <1>2, <1>10 DEF phaseBar, TypeOK
    <2>3. TypeOK' /\ RightVector'
      BY <1>3, <1>4, <1>8, <1>10 DEF TypeOK, RightVector
    <2>4. CASE phaseBar[a] = "live"
      BY <1>5, <1>6, <1>7, <1>9, <2>1, <2>2, <2>3, <2>4, NextByOne DEF Promise!Exit
    <2>5. CASE phaseBar[a] = "exited"
      <3>1. phaseBar' = phaseBar
        BY <2>2, <2>5 DEF phaseBar
      <3> QED
        BY <1>5, <1>6, <1>7, <1>9, <2>1, <2>3, <3>1, Stutter
    <2> QED
      BY <2>2, <2>4, <2>5
  <1>11. CASE /\ phase' = [phase EXCEPT ![a] = "freed"]
              /\ chunks' = [chunks EXCEPT ![a] = {}]
              /\ vec' = [vec EXCEPT ![a] = [c \in Classes |-> {}]]
    <2>1. phaseBar' = [phaseBar EXCEPT ![a] = "freed"] /\ phaseBar[a] # "freed"
      BY <1>2, <1>11 DEF phaseBar, TypeOK
    <2>2. carvedBar' = carvedBar \ Promise!OwnedBy(a)
      BY <1>11, ConstantsAssumption DEF carvedBar, TypeOK, Promise!OwnedBy
    <2>3. \A b \in Allocators : \A d \in Classes : vec'[b][d] = IF b = a THEN {} ELSE vec[b][d]
      BY <1>11 DEF TypeOK
    <2>4. vecBar' = [vecBar EXCEPT ![a] = {}]
      <3>1. ASSUME NEW b \in Allocators, NEW n
            PROVE  n \in vecBar'[b] <=> b # a /\ n \in vecBar[b]
        <4>1. n \in vecBar[b] <=> \E d \in Classes : n \in vec[b][d]
          BY VecMember
        <4>2. n \in vecBar'[b] <=> \E d \in Classes : n \in vec'[b][d]
          BY VecMember
        <4> QED
          BY <2>3, <4>1, <4>2
      <3>2. \A b \in Allocators : vecBar'[b] = IF b = a THEN {} ELSE vecBar[b]
        BY <3>1
      <3>3. DOMAIN vecBar = Allocators /\ vecBar' = [b \in Allocators |-> vecBar'[b]]
        BY DEF vecBar
      <3> QED
        BY <3>2, <3>3
    <2>5. RightVector'
      <3> SUFFICES ASSUME NEW b \in Allocators, NEW d \in Classes PROVE vec'[b][d] \subseteq SlotsOf(b, d)
        BY DEF RightVector
      <3>1. vec[b][d] \subseteq SlotsOf(b, d)
        BY DEF RightVector
      <3> QED
        BY <2>3, <3>1
    <2>6. TypeOK'
      <3>1. vec' \in [Allocators -> [Classes -> SUBSET Slots]] /\ chunks' \in [Allocators -> SUBSET Classes]
        BY <1>11 DEF TypeOK
      <3> QED
        BY <1>3, <1>4, <1>8, <3>1 DEF TypeOK
    <2>7. Promise!OwnedBy(a) \intersect carvedBar \subseteq vecBar[a]
      BY <1>1, CountsSuffice DEF Promise!OwnedBy
    <2> QED
      BY <1>2, <1>5, <1>6, <1>7, <1>9, <2>1, <2>2, <2>4, <2>5, <2>6, <2>7, NextByOne DEF Promise!FreeAll
  <1> QED
    BY <1>1, <1>10, <1>11 DEF TryFreeOk

(* The operations that begin with a check: only the list is taken over.    *)
LEMMA CheckStep ==
  ASSUME Local, Promise!IInv, NEW a \in Allocators, NEW fs \in Seq(Frames),
         Len(fs) = Len(frames[a]), \A i \in 1 .. Len(fs) : Rest(fs[i]) = Rest(frames[a][i]),
         Swap(a, fs), UNCHANGED <<chunks, vec, next, value, post, sizes>>,
         phase[a] \notin Gone, UNCHANGED <<phaseBar, userBar>>,
         phase' \in [Allocators -> {"fresh", "live", "background"} \union Gone],
         user' \subseteq Slots \union XLarge, job' \in [Allocators -> Jobs],
         Scheduled', HeldOnce'
  PROVE  Simulated
  <1> USE DEF Local
  <1>1. /\ head' \in [Allocators -> Slots \union {NULL}]
        /\ frames' \in [Allocators -> Seq(Frames)]
        /\ inboxBar' = [inboxBar EXCEPT ![a] = {}]
        /\ batchBar' = [batchBar EXCEPT ![a] = @ \union inboxBar[a]]
        /\ UNCHANGED <<handBar, valueBar>>
        /\ ListsOK'
    BY SwapStep
  <1>2. UNCHANGED <<vecBar, carvedBar>>
    BY DEF vecBar, carvedBar
  <1>3. TypeOK' /\ RightVector'
    BY <1>1 DEF TypeOK, RightVector
  <1>4. phaseBar[a] # "freed"
    BY DEF phaseBar, Gone, TypeOK
  <1> QED
    BY <1>1, <1>2, <1>3, <1>4, NextByOne DEF Promise!Take

(* The frames of a thread that is in no check.                             *)
LEMMA EmptyFrames ==
  ASSUME NEW a \in Allocators, frames[a] = <<>>
  PROVE  /\ <<>> \in Seq(Frames)
         /\ Len(<<>>) = Len(frames[a])
         /\ \A i \in 1 .. Len(<<>>) : Rest(<<>>[i]) = Rest(frames[a][i])
  OBVIOUS

(* GrowVec is Take: the nested check takes the list beside what the outer  *)
(* checks have still to do.                                                *)
LEMMA GrowVecStep ==
  ASSUME Local, Promise!IInv, NEW a \in Allocators, GrowVec(a)
  PROVE  Simulated
  <1> USE DEF Local
  <1> DEFINE L == Len(frames[a])
             fs == SetTop(a, [Top(a) EXCEPT !.grown = TRUE])[a]
  <1>1. /\ frames[a] # <<>> /\ frames[a] \in Seq(Frames) /\ L \in 1 .. L /\ Top(a) = frames[a][L]
        /\ Top(a) \in Frames
    BY DEF GrowVec, Checking, Top, TypeOK
  <1>2. fs = [frames[a] EXCEPT ![L] = [frames[a][L] EXCEPT !.grown = TRUE]]
    BY <1>1 DEF SetTop, TypeOK
  <1>3. /\ [frames[a][L] EXCEPT !.grown = TRUE] \in Frames
        /\ Rest([frames[a][L] EXCEPT !.grown = TRUE]) = Rest(frames[a][L])
    BY <1>1 DEF Frames, Rest
  <1>4. Swap(a, fs) /\ UNCHANGED <<phase, chunks, vec, user, next, value, job, post, sizes>>
    BY DEF GrowVec, memory
  <1> HIDE DEF fs
  <1>5. fs \in Seq(Frames) /\ Len(fs) = L /\ \A i \in 1 .. L : Rest(fs[i]) = Rest(frames[a][i])
    <2>1. fs \in Seq(Frames) /\ Len(fs) = L
      BY <1>1, <1>2, <1>3
    <2>2. \A i \in 1 .. L : fs[i] = IF i = L THEN [frames[a][L] EXCEPT !.grown = TRUE] ELSE frames[a][i]
      BY <1>1, <1>2
    <2> QED
      BY <1>3, <2>1, <2>2
  <1>6. UNCHANGED <<phaseBar, userBar>>
    BY <1>4 DEF phaseBar, userBar, Pending
  <1>7. HeldOnce'
    BY <1>4 DEF HeldOnce, Holds
  <1>8. phase[a] \notin Gone
    BY <1>1 DEF Scheduled
  <1>9. \A b \in Allocators \ {a} : frames'[b] = frames[b]
    BY <1>4 DEF Swap, TypeOK
  <1>10. Scheduled'
    BY <1>4, <1>8, <1>9 DEF Scheduled
  <1>11. TypeOK
    OBVIOUS
  <1> QED
    BY <1>4, <1>5, <1>6, <1>7, <1>8, <1>10, <1>11, CheckStep DEF TypeOK

(* The slow path of an operation is Take.                                  *)
LEMMA SlowStep ==
  ASSUME Local, Promise!IInv, NEW a \in Allocators, NEW j \in Jobs,
         frames[a] = <<>>, phase[a] \in {"fresh", "live"}, Slow(a, j),
         \/ job[a].kind \in {"idle", "alloc"} /\ j.kind = "alloc"
         \/ job[a].kind = "send" /\ j.kind = "send" /\ j.slot = job[a].slot
  PROVE  Simulated
  <1> USE DEF Local
  <1>1. /\ job' = [job EXCEPT ![a] = j] /\ Swap(a, <<>>) /\ Register(a)
        /\ UNCHANGED <<chunks, vec, user, next, value, post, sizes>>
    BY DEF Slow, memory
  <1>2. /\ phaseBar' = phaseBar
        /\ phase' \in [Allocators -> {"fresh", "live", "background"} \union Gone]
        /\ \A b \in Allocators : phase'[b] = phase[b] \/ (phase[b] = "fresh" /\ phase'[b] = "live")
    BY <1>1, RegisterStep
  <1>3. job' \in [Allocators -> Jobs] /\ job'[a] = j /\ \A b \in Allocators \ {a} : job'[b] = job[b]
    BY <1>1, OtherJob
  <1>4. userBar' = userBar
    <2>1. ASSUME NEW b \in Allocators, NEW s
          PROVE  job'[b].kind \in {"local", "send"} /\ job'[b].slot = s
                   <=> job[b].kind \in {"local", "send"} /\ job[b].slot = s
      BY <1>3
    <2>2. ASSUME NEW s PROVE s \in userBar' <=> s \in userBar
      BY <1>1, <2>1, UserMember
    <2> QED
      BY <2>2
  <1>5. \A b \in Allocators : Holds(b)' <=> Holds(b)
    BY <1>3 DEF Holds
  <1>6. \A b \in Allocators : Holds(b) => job'[b].slot = job[b].slot /\ job'[b].kind = job[b].kind
    BY <1>3 DEF Holds
  <1>7. HeldOnce'
    BY <1>1, <1>5, <1>6 DEF HeldOnce
  <1>8. \A b \in Allocators \ {a} : frames'[b] = frames[b]
    BY <1>1 DEF Swap, TypeOK
  <1>9. Scheduled'
    BY <1>1, <1>2, <1>3, <1>8 DEF Scheduled, Gone
  <1>10. phase[a] \notin Gone
    BY DEF Gone
  <1>11. user' \subseteq Slots \union XLarge
    BY <1>1 DEF TypeOK
  <1> QED
    BY <1>1, <1>2, <1>3, <1>4, <1>7, <1>9, <1>10, <1>11, EmptyFrames, CheckStep

(* AllocSlow is Take.                                                      *)
LEMMA AllocSlowStep ==
  ASSUME Local, Promise!IInv, NEW a \in Allocators, NEW c \in Demand[a], AllocSlow(a, c)
  PROVE  Simulated
  <1> DEFINE j == [kind |-> "alloc", class |-> c, again |-> FALSE]
  <1>1. c \in Classes
    BY ConstantsAssumption
  <1>2. j \in Jobs /\ j.kind = "alloc"
    BY <1>1 DEF Jobs
  <1>3. Ready(a) /\ Slow(a, j)
    BY DEF AllocSlow
  <1>4. frames[a] = <<>> /\ phase[a] \in {"fresh", "live"} /\ job[a].kind = "idle"
    BY <1>3, ReadyIdle DEF Ready, Local
  <1> HIDE DEF j
  <1> QED
    BY <1>2, <1>3, <1>4, SlowStep

(* CheckAgain is Take.                                                     *)
LEMMA CheckAgainStep ==
  ASSUME Local, Promise!IInv, NEW a \in Allocators, CheckAgain(a)
  PROVE  Simulated
  <1> DEFINE j == [job[a] EXCEPT !.again = TRUE]
  <1> USE DEF Local
  <1>1. Slow(a, j) /\ frames[a] = <<>> /\ job[a].kind \in {"alloc", "send"}
    BY InJob DEF CheckAgain
  <1>2. job[a] \in Jobs
    BY JobTypes
  <1>3. job[a] \in [kind : {"alloc"}, class : Classes, again : BOOLEAN]
           \union [kind : {"send"}, slot : Slots, class : {NodeClass}, again : BOOLEAN]
    BY <1>1, <1>2 DEF Jobs
  <1>4. j \in Jobs /\ j.kind = job[a].kind /\ (job[a].kind = "send" => j.slot = job[a].slot)
    BY <1>3 DEF Jobs
  <1>5. phase[a] \in {"fresh", "live"}
    BY <1>1 DEF Scheduled
  <1> HIDE DEF j
  <1> QED
    BY <1>1, <1>4, <1>5, SlowStep

(* BackgroundCheck is Take.                                                *)
LEMMA BackgroundCheckStep ==
  ASSUME Local, Promise!IInv, NEW a \in Allocators, BackgroundCheck(a)
  PROVE  Simulated
  <1> USE DEF Local
  <1>1. /\ job[a].kind = "check" /\ frames[a] = <<>>
        /\ job' = [job EXCEPT ![a] = [kind |-> "try"]] /\ Swap(a, <<>>)
        /\ UNCHANGED <<phase, chunks, vec, user, next, value, post, sizes>>
    BY InJob DEF BackgroundCheck, memory
  <1>2. phase[a] = "background" /\ phase[a] \notin Gone
    BY <1>1 DEF Scheduled, Gone
  <1>3. job' \in [Allocators -> Jobs] /\ job'[a].kind = "try" /\ \A b \in Allocators \ {a} : job'[b] = job[b]
    <2>1. [kind |-> "try"] \in Jobs
      BY DEF Jobs
    <2> QED
      BY <1>1, <2>1, OtherJob
  <1>4. userBar' = userBar
    <2>1. \A b \in Allocators : job'[b] # job[b] =>
           job[b].kind \notin {"local", "send"} /\ job'[b].kind \notin {"local", "send"}
      BY <1>1, <1>3
    <2> QED
      BY <1>1, <2>1, SameUser
  <1>5. HeldOnce'
    BY <1>1, <1>3 DEF HeldOnce, Holds
  <1>6. \A b \in Allocators \ {a} : frames'[b] = frames[b]
    BY <1>1 DEF Swap, TypeOK
  <1>7. Scheduled'
    BY <1>1, <1>2, <1>3, <1>6 DEF Scheduled
  <1>8. phaseBar' = phaseBar
    BY <1>1 DEF phaseBar
  <1>9. /\ user' \subseteq Slots \union XLarge
        /\ phase' \in [Allocators -> {"fresh", "live", "background"} \union Gone]
    BY <1>1 DEF TypeOK
  <1> QED
    BY <1>1, <1>2, <1>3, <1>4, <1>5, <1>7, <1>8, <1>9, EmptyFrames, CheckStep

(* The user's pointer passes to the operation that deallocates it.         *)
LEMMA HandOver ==
  ASSUME TypeOK, HeldOnce, NEW a \in Allocators, NEW s \in Slots, NEW j \in Jobs,
         s \in user, job[a].kind = "idle", user' = user \ {s}, job' = [job EXCEPT ![a] = j],
         j.kind \in {"local", "send"}, j.slot = s, Owner[s] = a <=> j.kind = "local"
  PROVE  /\ userBar' = userBar
         /\ HeldOnce'
         /\ job' \in [Allocators -> Jobs] /\ job'[a] = j /\ \A b \in Allocators \ {a} : job'[b] = job[b]
  <1>1. job' \in [Allocators -> Jobs] /\ job'[a] = j /\ \A b \in Allocators \ {a} : job'[b] = job[b]
    BY OtherJob
  <1>2. ASSUME NEW n PROVE n \in userBar' <=> n \in userBar
    <2>1. CASE n = s
      BY <1>1, <2>1, UserMember
    <2>2. CASE n # s
      <3>1. ASSUME NEW b \in Allocators
            PROVE  job'[b].kind \in {"local", "send"} /\ job'[b].slot = n
                     <=> job[b].kind \in {"local", "send"} /\ job[b].slot = n
        BY <1>1, <2>2
      <3> QED
        BY <2>2, <3>1, UserMember
    <2> QED
      BY <2>1, <2>2
  <1>3. \A b \in Allocators : Holds(b) => b # a /\ job[b].slot # s
    BY DEF HeldOnce, Holds
  <1>4. \A b \in Allocators \ {a} : Holds(b)' <=> Holds(b)
    BY <1>1 DEF Holds
  <1>5. HeldOnce'
    <2> SUFFICES ASSUME NEW b \in Allocators, Holds(b)'
                 PROVE  /\ job'[b].slot \notin user'
                        /\ Owner[job'[b].slot] = b <=> job'[b].kind = "local"
                        /\ \A d \in Allocators \ {b} : Holds(d)' => job'[d].slot # job'[b].slot
      BY DEF HeldOnce
    <2>1. CASE b = a
      BY <1>1, <1>3, <1>4, <2>1
    <2>2. CASE b # a
      BY <1>1, <1>3, <1>4, <2>2 DEF HeldOnce
    <2> QED
      BY <2>1, <2>2
  <1> QED
    BY <1>1, <1>2, <1>5

(* DeallocLocalGrow and DeallocNonLocalSlow are Take: the deallocation     *)
(* itself comes later.                                                     *)
LEMMA DeallocGrowStep ==
  ASSUME Local, Promise!IInv, NEW a \in Allocators, NEW s \in Slots,
         DeallocLocalGrow(a, s) \/ DeallocNonLocalSlow(a, s)
  PROVE  Simulated
  <1> USE DEF Local
  <1>1. /\ Ready(a) /\ s \in user /\ user' = user \ {s} /\ Swap(a, <<>>)
        /\ UNCHANGED <<chunks, vec, next, value, post, sizes>>
    BY DEF DeallocLocalGrow, DeallocNonLocalSlow, memory
  <1>2. /\ phase[a] \in {"fresh", "live"} /\ phaseBar[a] = "live" /\ job[a].kind = "idle" /\ frames[a] = <<>>
        /\ phase[a] \notin Gone
    BY <1>1, ReadyIdle DEF Ready, Gone
  <1>3. PICK j \in Jobs : /\ job' = [job EXCEPT ![a] = j]
                          /\ j.kind \in {"local", "send"} /\ j.slot = s
                          /\ Owner[s] = a <=> j.kind = "local"
    <2>1. CASE DeallocLocalGrow(a, s)
      <3>1. [kind |-> "local", slot |-> s] \in Jobs
        BY DEF Jobs
      <3> QED
        BY <2>1, <3>1 DEF DeallocLocalGrow, IsLocalPtr
    <2>2. CASE DeallocNonLocalSlow(a, s)
      <3>1. [kind |-> "send", slot |-> s, class |-> NodeClass, again |-> FALSE] \in Jobs
        BY DEF Jobs
      <3> QED
        BY <2>2, <3>1 DEF DeallocNonLocalSlow, IsLocalPtr
    <2> QED
      BY <2>1, <2>2
  <1>4. /\ phaseBar' = phaseBar
        /\ phase' \in [Allocators -> {"fresh", "live", "background"} \union Gone]
        /\ \A b \in Allocators : phase'[b] = phase[b] \/ (phase[b] = "fresh" /\ phase'[b] = "live")
    <2>1. CASE UNCHANGED phase
      BY <2>1 DEF phaseBar, TypeOK
    <2>2. CASE Register(a)
      BY <2>2, RegisterStep
    <2> QED
      BY <2>1, <2>2 DEF DeallocLocalGrow, DeallocNonLocalSlow
  <1>5. /\ userBar' = userBar /\ HeldOnce'
        /\ job' \in [Allocators -> Jobs] /\ job'[a] = j /\ \A b \in Allocators \ {a} : job'[b] = job[b]
    BY <1>1, <1>2, <1>3, HandOver
  <1>6. \A b \in Allocators \ {a} : frames'[b] = frames[b]
    BY <1>1 DEF Swap, TypeOK
  <1>7. Scheduled'
    BY <1>1, <1>2, <1>3, <1>4, <1>5, <1>6 DEF Scheduled, Gone
  <1>8. user' \subseteq Slots \union XLarge
    BY <1>1 DEF TypeOK
  <1> QED
    BY <1>1, <1>2, <1>4, <1>5, <1>7, <1>8, EmptyFrames, CheckStep

(* The node a thread is about to push.                                     *)
LEMMA PostTypes ==
  ASSUME TypeOK, NEW a \in Allocators
  PROVE  /\ post[a] = NoPost => handBar[a] = {}
         /\ post[a] # NoPost => /\ post[a] \in Posts /\ post[a].node \in Slots /\ post[a].to \in Allocators
                                /\ handBar[a] = {post[a].node}
  <1>1. post[a] \in Posts \union {NoPost}
    BY DEF TypeOK
  <1>2. handBar[a] = {post[a].node} \ {NULL}
    BY DEF handBar
  <1> QED
    BY <1>1, <1>2, ConstantsAssumption DEF Posts, NoPost

(* A load of the head, or a failed compare-exchange.                       *)
LEMMA SeenStep ==
  ASSUME Local, Promise!IInv, NEW a \in Allocators, LoadHead(a) \/ CompareExchangeErr(a)
  PROVE  Simulated
  <1> USE DEF Local
  <1>1. /\ post[a] # NoPost
        /\ post' = [post EXCEPT ![a].seen = head[post[a].to]]
        /\ UNCHANGED <<phase, chunks, vec, user, head, next, value, job, frames, sizes>>
    BY DEF LoadHead, CompareExchangeErr, memory
  <1>2. post[a] \in Posts /\ post[a].to \in Allocators /\ head[post[a].to] \in Slots \union {NULL}
    BY <1>1, PostTypes DEF TypeOK
  <1>3. /\ post'[a] = [post[a] EXCEPT !.seen = head[post[a].to]]
        /\ \A b \in Allocators \ {a} : post'[b] = post[b]
        /\ DOMAIN post' = Allocators
    BY <1>1 DEF TypeOK
  <1>4. post'[a] \in Posts /\ post'[a].node = post[a].node /\ post'[a].to = post[a].to
    BY <1>2, <1>3 DEF Posts
  <1>5. post' \in [Allocators -> Posts \union {NoPost}]
    BY <1>1, <1>3, <1>4 DEF TypeOK
  <1>6. \A b \in Allocators :
          post'[b].node = post[b].node /\ (post'[b] # NoPost => post[b] # NoPost /\ post'[b].to = post[b].to)
    BY <1>1, <1>3, <1>4
  <1>7. UNCHANGED <<phaseBar, carvedBar, vecBar, userBar, inboxBar, batchBar, valueBar>>
    BY <1>1 DEF phaseBar, carvedBar, vecBar, userBar, Pending, inboxBar, batchBar, valueBar
  <1>8. UNCHANGED handBar
    BY <1>6 DEF handBar
  <1>9. (Promise!Nodes)' = Promise!Nodes
    BY <1>7, <1>8, NodesMember
  <1>10. NodesFilled' /\ Acyclic' /\ FramesApart'
    BY <1>1, <1>7, <1>9 DEF ListsOK, NodesFilled, Acyclic, FramesApart
  <1>11. PostsAddressed'
    BY <1>1, <1>6 DEF ListsOK, PostsAddressed
  <1>12. TypeOK' /\ RightVector' /\ HeldOnce'
    BY <1>1, <1>5 DEF TypeOK, RightVector, HeldOnce, Holds
  <1>13. Scheduled'
    BY <1>1, <1>6 DEF Scheduled
  <1> QED
    BY <1>7, <1>8, <1>10, <1>11, <1>12, <1>13, Stutter DEF ListsOK

(* Writing the field of a node that is in no chain.                        *)
LEMMA ChainApart ==
  ASSUME NEW nx \in [Slots -> Slots \union {NULL}], NEW ny \in [Slots -> Slots \union {NULL}], NEW n,
         \A k \in Slots \ {n} : ny[k] = nx[k],
         NEW x \in Slots \union {NULL}, n \notin Chain(nx, x)
  PROVE  /\ Chain(ny, x) = Chain(nx, x)
         /\ \A m \in Chain(nx, x) : ny[m] = nx[m] /\ Chain(ny, nx[m]) = Chain(nx, nx[m])
  <1>1. Chain(nx, x) \subseteq Slots
    BY ChainMember
  <1>2. \A m \in Chain(nx, x) : ny[m] = nx[m]
    BY <1>1
  <1>3. Chain(ny, x) = Chain(nx, x)
    BY <1>2, ChainFrame
  <1>4. ASSUME NEW m \in Chain(nx, x)
        PROVE  Chain(ny, nx[m]) = Chain(nx, nx[m])
    <2>1. Chain(nx, nx[m]) \subseteq Chain(nx, x)
      BY ChainTail
    <2>2. nx[m] \in Slots \union {NULL}
      BY <1>1
    <2> QED
      BY <1>2, <2>1, <2>2, ChainFrame
  <1> QED
    BY <1>2, <1>3, <1>4

(* CompareExchangeOk is Post: the head that was read is still the head, so *)
(* the new list is the node before the whole old list.                     *)
LEMMA CompareExchangeOkStep ==
  ASSUME Local, Promise!IInv, NEW a \in Allocators, CompareExchangeOk(a)
  PROVE  Simulated
  <1> USE DEF Local
  <1> DEFINE n == post[a].node
             to == post[a].to
  <1>1. /\ post[a] # NoPost
        /\ next' = [next EXCEPT ![n] = head[to]]
        /\ head' = [head EXCEPT ![to] = n]
        /\ post' = [post EXCEPT ![a] = NoPost]
        /\ UNCHANGED <<phase, chunks, vec, user, value, job, frames, sizes>>
    BY DEF CompareExchangeOk
  <1>2. n \in Slots /\ to \in Allocators /\ handBar[a] = {n} /\ head[to] \in Slots \union {NULL}
    BY <1>1, PostTypes DEF TypeOK
  <1>3. n \in Promise!Nodes
    BY <1>2, NodesMember
  <1>4. \A b \in Allocators : n \notin inboxBar[b] /\ n \notin batchBar[b]
    BY <1>2 DEF Promise!IInv, Promise!OnePlace
  <1>5. to = Owner[value[n].ptr] /\ value[n].ptr # NULL /\ valueBar[n] = value[n].ptr
    BY <1>1, <1>2, <1>3 DEF ListsOK, PostsAddressed, NodesFilled, valueBar
  <1> HIDE DEF n, to
  <1>6. /\ next \in [Slots -> Slots \union {NULL}] /\ next' \in [Slots -> Slots \union {NULL}]
        /\ next'[n] = head[to] /\ \A k \in Slots \ {n} : next'[k] = next[k]
    BY <1>1, <1>2 DEF TypeOK
  <1>7. ASSUME NEW b \in Allocators
        PROVE  /\ Chain(next', head[b]) = Chain(next, head[b])
               /\ \A m \in inboxBar[b] : next'[m] = next[m] /\ Chain(next', next[m]) = Chain(next, next[m])
    <2>1. n \notin Chain(next, head[b]) /\ head[b] \in Slots \union {NULL}
      BY <1>4, BarTypes
    <2>2. /\ Chain(next', head[b]) = Chain(next, head[b])
          /\ \A m \in Chain(next, head[b]) :
               next'[m] = next[m] /\ Chain(next', next[m]) = Chain(next, next[m])
      BY <1>6, <2>1, ChainApart
    <2> QED
      BY <2>2, BarTypes
  <1>8. ASSUME NEW b \in Allocators, NEW i \in DOMAIN frames[b]
        PROVE  /\ Chain(next', Rest(frames[b][i])) = Chain(next, Rest(frames[b][i]))
               /\ \A m \in Chain(next, Rest(frames[b][i])) :
                    next'[m] = next[m] /\ Chain(next', next[m]) = Chain(next, next[m])
    <2>1. n \notin Chain(next, Rest(frames[b][i])) /\ Rest(frames[b][i]) \in Slots \union {NULL}
      BY <1>4, BarTypes, BatchMember
    <2> QED
      BY <1>6, <2>1, ChainApart
  <1>9. inboxBar' = [inboxBar EXCEPT ![to] = @ \union {n}]
    <2>1. Chain(next', n) = {n} \union Chain(next', head[to])
      BY <1>2, <1>6, ChainUnfold
    <2>2. \A b \in Allocators : head'[b] = IF b = to THEN n ELSE head[b]
      BY <1>1, <1>2 DEF TypeOK
    <2>3. \A b \in Allocators :
            Chain(next', head'[b]) = IF b = to THEN inboxBar[b] \union {n} ELSE inboxBar[b]
      <3>1. \A b \in Allocators : Chain(next', head[b]) = inboxBar[b]
        BY <1>7, BarTypes
      <3> QED
        BY <1>2, <2>1, <2>2, <3>1
    <2>4. inboxBar' = [b \in Allocators |-> Chain(next', head'[b])] /\ DOMAIN inboxBar = Allocators
      BY DEF inboxBar
    <2> QED
      BY <2>3, <2>4
  <1>10. batchBar' = batchBar
    <2>1. ASSUME NEW b \in Allocators, NEW m PROVE m \in batchBar'[b] <=> m \in batchBar[b]
      <3>1. m \in batchBar[b] <=> \E i \in DOMAIN frames[b] : m \in Chain(next, Rest(frames[b][i]))
        BY BatchMember
      <3>2. m \in batchBar'[b] <=> \E i \in DOMAIN frames[b] : m \in Chain(next', Rest(frames[b][i]))
        BY <1>1, BatchMember
      <3> QED
        BY <1>8, <3>1, <3>2
    <2>2. \A b \in Allocators : batchBar'[b] = batchBar[b]
      BY <2>1
    <2>3. batchBar' = [b \in Allocators |-> batchBar'[b]] /\ batchBar = [b \in Allocators |-> batchBar[b]]
      BY DEF batchBar
    <2> QED
      BY <2>2, <2>3
  <1>11. handBar' = [handBar EXCEPT ![a] = @ \ {n}]
    <2>1. \A b \in Allocators : post'[b] = IF b = a THEN NoPost ELSE post[b]
      BY <1>1 DEF TypeOK
    <2>2. \A b \in Allocators : {post'[b].node} \ {NULL} = IF b = a THEN handBar[b] \ {n} ELSE handBar[b]
      BY <1>2, <2>1, BarTypes DEF NoPost
    <2>3. handBar' = [b \in Allocators |-> {post'[b].node} \ {NULL}] /\ DOMAIN handBar = Allocators
      BY DEF handBar
    <2> QED
      BY <2>2, <2>3
  <1>12. UNCHANGED <<phaseBar, carvedBar, vecBar, userBar, valueBar>>
    BY <1>1 DEF phaseBar, carvedBar, vecBar, userBar, Pending, valueBar
  <1>13. NodesFilled'
    <2>1. ASSUME NEW m PROVE m \in (Promise!Nodes)' => m \in Promise!Nodes
      BY <1>3, <1>9, <1>10, <1>11, BarTypes, NodesMember
    <2> QED
      BY <1>1, <2>1 DEF ListsOK, NodesFilled
  <1>14. PostsAddressed'
    BY <1>1 DEF ListsOK, PostsAddressed, TypeOK
  <1>15. Acyclic'
    <2> SUFFICES ASSUME NEW b \in Allocators, NEW m \in inboxBar'[b] \union batchBar'[b]
                 PROVE  m \notin Chain(next', next'[m])
      BY DEF Acyclic
    <2>1. CASE m = n
      BY <1>2, <1>4, <1>6, <1>7, <2>1, BarTypes
    <2>2. CASE m \in inboxBar[b]
      BY <1>7, <2>2 DEF ListsOK, Acyclic
    <2>3. CASE m \in batchBar[b]
      <3>1. PICK i \in DOMAIN frames[b] : m \in Chain(next, Rest(frames[b][i]))
        BY <2>3, BatchMember
      <3>2. next'[m] = next[m] /\ Chain(next', next[m]) = Chain(next, next[m])
        BY <1>8, <3>1
      <3> QED
        BY <2>3, <3>2 DEF ListsOK, Acyclic
    <2> QED
      BY <1>9, <1>10, <2>1, <2>2, <2>3, BarTypes
  <1>16. FramesApart'
    <2>1. ASSUME NEW b \in Allocators, NEW i \in DOMAIN frames[b], NEW j \in DOMAIN frames[b], i # j
          PROVE  Chain(next', Rest(frames[b][i])) \intersect Chain(next', Rest(frames[b][j])) = {}
      <3>1. Chain(next, Rest(frames[b][i])) \intersect Chain(next, Rest(frames[b][j])) = {}
        BY <2>1 DEF ListsOK, FramesApart
      <3> QED
        BY <1>8, <3>1
    <2> QED
      BY <1>1, <2>1 DEF FramesApart
  <1>17. TypeOK'
    <2>1. head' \in [Allocators -> Slots \union {NULL}] /\ post' \in [Allocators -> Posts \union {NoPost}]
      BY <1>1, <1>2 DEF TypeOK
    <2> QED
      BY <1>1, <1>6, <2>1 DEF TypeOK
  <1>18. RightVector' /\ HeldOnce'
    BY <1>1 DEF RightVector, HeldOnce, Holds
  <1>19. Scheduled'
    BY <1>1 DEF Scheduled, TypeOK
  <1> QED
    BY <1>2, <1>5, <1>9, <1>10, <1>11, <1>12, <1>13, <1>14, <1>15, <1>16, <1>17, <1>18, <1>19, NextBySlot
    DEF Promise!Post, ListsOK

(* The innermost check of a thread.                                        *)
LEMMA CheckingTop ==
  ASSUME TypeOK, NEW a \in Allocators, Checking(a)
  PROVE  /\ frames[a] \in Seq(Frames) /\ Len(frames[a]) \in 1 .. Len(frames[a])
         /\ DOMAIN frames[a] = 1 .. Len(frames[a])
         /\ Top(a) = frames[a][Len(frames[a])] /\ Top(a) \in Frames
         /\ frames[a] # <<>> /\ post[a] = NoPost
  BY DEF Checking, Top, TypeOK

(* Advance changes nothing in PtrReturn: the copy of next is what the      *)
(* frame has still to do.                                                  *)
LEMMA AdvanceStep ==
  ASSUME Local, Promise!IInv, NEW a \in Allocators, Advance(a)
  PROVE  Simulated
  <1> USE DEF Local
  <1> DEFINE L == Len(frames[a])
  <1>1. /\ Checking(a) /\ Top(a).handled
        /\ UNCHANGED <<phase, chunks, vec, user, head, next, value, job, post, sizes>>
    BY DEF Advance, memory
  <1>2. /\ frames[a] \in Seq(Frames) /\ L \in 1 .. L /\ DOMAIN frames[a] = 1 .. L
        /\ Top(a) = frames[a][L] /\ Top(a) \in Frames /\ frames[a] # <<>>
    BY <1>1, CheckingTop
  <1>3. frames' = [frames EXCEPT ![a][L] = Frame(Top(a).next)]
    BY DEF Advance, SetTop, Following
  <1>4. Frame(Top(a).next) \in Frames /\ Rest(Frame(Top(a).next)) = Rest(frames[a][L])
    BY <1>1, <1>2 DEF Frame, Frames, Rest
  <1>5. frames' \in [Allocators -> Seq(Frames)]
    <2>1. [frames[a] EXCEPT ![L] = Frame(Top(a).next)] \in Seq(Frames)
      BY <1>2, <1>4
    <2>2. frames' = [frames EXCEPT ![a] = [frames[a] EXCEPT ![L] = Frame(Top(a).next)]]
      BY <1>3 DEF TypeOK
    <2> QED
      BY <2>1, <2>2 DEF TypeOK
  <1>6. \A b \in Allocators : /\ DOMAIN frames'[b] = DOMAIN frames[b]
                              /\ \A i \in DOMAIN frames[b] : Rest(frames'[b][i]) = Rest(frames[b][i])
                              /\ frames'[b] # <<>> => frames[b] # <<>>
    BY <1>2, <1>3, <1>4 DEF TypeOK
  <1>7. batchBar' = batchBar
    BY <1>1, <1>6 DEF batchBar
  <1>8. UNCHANGED <<phaseBar, carvedBar, vecBar, userBar, inboxBar, handBar, valueBar>>
    BY <1>1 DEF phaseBar, carvedBar, vecBar, userBar, Pending, inboxBar, handBar, valueBar
  <1>9. (Promise!Nodes)' = Promise!Nodes
    BY <1>7, <1>8, NodesMember
  <1>10. NodesFilled' /\ PostsAddressed' /\ Acyclic'
    BY <1>1, <1>7, <1>8, <1>9 DEF ListsOK, NodesFilled, PostsAddressed, Acyclic
  <1>11. FramesApart'
    BY <1>1, <1>6 DEF ListsOK, FramesApart
  <1>12. TypeOK' /\ RightVector' /\ HeldOnce'
    BY <1>1, <1>5 DEF TypeOK, RightVector, HeldOnce, Holds
  <1>13. Scheduled'
    BY <1>1, <1>6 DEF Scheduled
  <1> QED
    BY <1>7, <1>8, <1>10, <1>11, <1>12, <1>13, Stutter DEF ListsOK

(* EndCheck changes nothing in PtrReturn: the chain of the innermost check *)
(* is empty.                                                               *)
LEMMA EndCheckStep ==
  ASSUME Local, Promise!IInv, NEW a \in Allocators, EndCheck(a)
  PROVE  Simulated
  <1> USE DEF Local
  <1> DEFINE L == Len(frames[a])
             gs == SubSeq(frames[a], 1, L - 1)
  <1>1. /\ Checking(a) /\ Top(a).cur = NULL
        /\ UNCHANGED <<phase, chunks, vec, user, head, next, value, job, post, sizes>>
    BY DEF EndCheck, memory
  <1>2. /\ frames[a] \in Seq(Frames) /\ L \in 1 .. L /\ DOMAIN frames[a] = 1 .. L
        /\ Top(a) = frames[a][L] /\ Top(a) \in Frames /\ frames[a] # <<>>
    BY <1>1, CheckingTop
  <1>3. Rest(frames[a][L]) = NULL
    BY <1>1, <1>2 DEF Rest, Frames
  <1>4. gs \in Seq(Frames) /\ DOMAIN gs = 1 .. L - 1 /\ \A i \in 1 .. L - 1 : gs[i] = frames[a][i]
    BY <1>2
  <1>5. frames' = [frames EXCEPT ![a] = gs]
    BY DEF EndCheck
  <1> HIDE DEF gs
  <1>6. frames'[a] = gs /\ \A b \in Allocators \ {a} : frames'[b] = frames[b]
    BY <1>5 DEF TypeOK
  <1>7. batchBar' = batchBar
    <2>1. ASSUME NEW b \in Allocators, NEW m PROVE m \in batchBar'[b] <=> m \in batchBar[b]
      <3>1. m \in batchBar[b] <=> \E i \in DOMAIN frames[b] : m \in Chain(next, Rest(frames[b][i]))
        BY BatchMember
      <3>2. m \in batchBar'[b] <=> \E i \in DOMAIN frames'[b] : m \in Chain(next, Rest(frames'[b][i]))
        BY <1>1, BatchMember
      <3>3. CASE b = a
        <4>1. m \notin Chain(next, Rest(frames[a][L]))
          BY <1>3, ChainNull
        <4>2. \A i \in 1 .. L : i = L \/ i \in 1 .. L - 1
          BY <1>2
        <4>3. \A i \in 1 .. L - 1 : i \in 1 .. L
          BY <1>2
        <4> QED
          BY <1>2, <1>4, <1>6, <3>1, <3>2, <3>3, <4>1, <4>2, <4>3
      <3>4. CASE b # a
        BY <1>6, <3>1, <3>2, <3>4
      <3> QED
        BY <3>3, <3>4
    <2>2. \A b \in Allocators : batchBar'[b] = batchBar[b]
      BY <2>1
    <2>3. batchBar' = [b \in Allocators |-> batchBar'[b]] /\ batchBar = [b \in Allocators |-> batchBar[b]]
      BY DEF batchBar
    <2> QED
      BY <2>2, <2>3
  <1>8. UNCHANGED <<phaseBar, carvedBar, vecBar, userBar, inboxBar, handBar, valueBar>>
    BY <1>1 DEF phaseBar, carvedBar, vecBar, userBar, Pending, inboxBar, handBar, valueBar
  <1>9. (Promise!Nodes)' = Promise!Nodes
    BY <1>7, <1>8, NodesMember
  <1>10. NodesFilled' /\ PostsAddressed' /\ Acyclic'
    BY <1>1, <1>7, <1>8, <1>9 DEF ListsOK, NodesFilled, PostsAddressed, Acyclic
  <1>11. FramesApart'
    <2>1. \A b \in Allocators : \A i \in DOMAIN frames'[b] :
            i \in DOMAIN frames[b] /\ frames'[b][i] = frames[b][i]
      BY <1>2, <1>4, <1>6
    <2> QED
      BY <1>1, <2>1 DEF ListsOK, FramesApart
  <1>12. TypeOK' /\ RightVector' /\ HeldOnce'
    BY <1>1, <1>4, <1>5 DEF TypeOK, RightVector, HeldOnce, Holds
  <1>13. Scheduled'
    BY <1>1, <1>2, <1>6 DEF Scheduled
  <1> QED
    BY <1>7, <1>8, <1>10, <1>11, <1>12, <1>13, Stutter DEF ListsOK

(* The node at the cursor leaves the chain of the innermost check.         *)
LEMMA LeaveFrame ==
  ASSUME TypeOK, ListsOK, Promise!IInv, NEW a \in Allocators, Checking(a), NEW n, n = Top(a).cur,
         n # NULL, ~Top(a).handled,
         frames' = SetTop(a, [Frame(n) EXCEPT !.next = next[n], !.handled = TRUE]),
         next' \in [Slots -> Slots \union {NULL}], \A k \in Slots \ {n} : next'[k] = next[k], head' = head
  PROVE  /\ n \in Slots /\ n \in batchBar[a]
         /\ frames' \in [Allocators -> Seq(Frames)]
         /\ \A b \in Allocators : frames'[b] # <<>> => frames[b] # <<>>
         /\ inboxBar' = inboxBar
         /\ batchBar' = [batchBar EXCEPT ![a] = @ \ {n}]
         /\ Acyclic' /\ FramesApart'
  <1> DEFINE L == Len(frames[a])
             f == [Frame(n) EXCEPT !.next = next[n], !.handled = TRUE]
  <1>1. /\ frames[a] \in Seq(Frames) /\ L \in 1 .. L /\ DOMAIN frames[a] = 1 .. L
        /\ Top(a) = frames[a][L] /\ Top(a) \in Frames
    BY CheckingTop
  <1>2. n \in Slots /\ Rest(frames[a][L]) = n /\ next[n] \in Slots \union {NULL}
    BY <1>1 DEF Frames, Rest, TypeOK
  <1>3. f \in Frames /\ Rest(f) = next[n]
    BY <1>2 DEF Frame, Frames, Rest
  <1>4. frames' = [frames EXCEPT ![a][L] = f]
    BY DEF SetTop
  <1> HIDE DEF f
  <1>5. frames' \in [Allocators -> Seq(Frames)]
    <2>1. [frames[a] EXCEPT ![L] = f] \in Seq(Frames)
      BY <1>1, <1>3
    <2>2. frames' = [frames EXCEPT ![a] = [frames[a] EXCEPT ![L] = f]]
      BY <1>4 DEF TypeOK
    <2> QED
      BY <2>1, <2>2 DEF TypeOK
  <1>6. \A b \in Allocators : /\ DOMAIN frames'[b] = DOMAIN frames[b]
                              /\ \A i \in DOMAIN frames[b] :
                                   frames'[b][i] = IF b = a /\ i = L THEN f ELSE frames[b][i]
                              /\ frames'[b] # <<>> => frames[b] # <<>>
    <2>1. frames'[a] = [frames[a] EXCEPT ![L] = f] /\ \A b \in Allocators \ {a} : frames'[b] = frames[b]
      BY <1>4 DEF TypeOK
    <2>2. /\ DOMAIN frames'[a] = DOMAIN frames[a]
          /\ \A i \in DOMAIN frames[a] : frames'[a][i] = IF i = L THEN f ELSE frames[a][i]
      BY <1>1, <2>1
    <2>3. frames[a] # <<>>
      BY CheckingTop
    <2> QED
      BY <2>1, <2>2, <2>3
  <1>7. next \in [Slots -> Slots \union {NULL}]
    BY DEF TypeOK
  <1>8. Chain(next, n) = {n} \union Chain(next, next[n])
    BY <1>2, <1>7, ChainUnfold
  <1>9. n \in batchBar[a]
    BY <1>1, <1>2, <1>8, BatchMember
  <1>10. n \notin Chain(next, next[n])
    BY <1>9 DEF ListsOK, Acyclic
  <1>11. \A b \in Allocators : n \notin inboxBar[b] /\ (b # a => n \notin batchBar[b])
    BY <1>9 DEF Promise!IInv, Promise!OnePlace
  <1>12. \A i \in DOMAIN frames[a] : i # L => n \notin Chain(next, Rest(frames[a][i]))
    BY <1>1, <1>2, <1>8 DEF ListsOK, FramesApart
  (* None of the chains of the next state has the node in it.              *)
  <1>13. ASSUME NEW b \in Allocators, NEW i \in DOMAIN frames[b]
         PROVE  /\ n \notin Chain(next, Rest(frames'[b][i])) /\ Rest(frames'[b][i]) \in Slots \union {NULL}
                /\ Chain(next, Rest(frames'[b][i])) \subseteq Chain(next, Rest(frames[b][i]))
                /\ Chain(next, Rest(frames[b][i])) \subseteq Chain(next, Rest(frames'[b][i])) \union {n}
    <2>1. CASE b = a /\ i = L
      BY <1>2, <1>3, <1>6, <1>8, <1>10, <2>1
    <2>2. CASE b = a /\ i # L
      BY <1>6, <1>12, <2>2, BarTypes
    <2>3. CASE b # a
      BY <1>6, <1>11, <2>3, BarTypes, BatchMember
    <2> QED
      BY <2>1, <2>2, <2>3
  <1>14. ASSUME NEW b \in Allocators, NEW i \in DOMAIN frames[b]
         PROVE  /\ Chain(next', Rest(frames'[b][i])) = Chain(next, Rest(frames'[b][i]))
                /\ \A m \in Chain(next, Rest(frames'[b][i])) :
                     next'[m] = next[m] /\ Chain(next', next[m]) = Chain(next, next[m])
    BY <1>7, <1>13, ChainApart
  <1>15. ASSUME NEW b \in Allocators
         PROVE  /\ Chain(next', head[b]) = Chain(next, head[b])
                /\ \A m \in inboxBar[b] : next'[m] = next[m] /\ Chain(next', next[m]) = Chain(next, next[m])
    <2>1. n \notin Chain(next, head[b]) /\ head[b] \in Slots \union {NULL}
      BY <1>11, BarTypes
    <2>2. /\ Chain(next', head[b]) = Chain(next, head[b])
          /\ \A m \in Chain(next, head[b]) :
               next'[m] = next[m] /\ Chain(next', next[m]) = Chain(next, next[m])
      BY <1>7, <2>1, ChainApart
    <2> QED
      BY <2>2, BarTypes
  <1>16. inboxBar' = inboxBar
    BY <1>15 DEF inboxBar
  <1>17. ASSUME NEW b \in Allocators, NEW m
         PROVE  m \in batchBar'[b] <=> m \in batchBar[b] /\ ~(b = a /\ m = n)
    <2>1. m \in batchBar[b] <=> \E i \in DOMAIN frames[b] : m \in Chain(next, Rest(frames[b][i]))
      BY BatchMember
    <2>2. m \in batchBar'[b] <=> \E i \in DOMAIN frames[b] : m \in Chain(next, Rest(frames'[b][i]))
      BY <1>6, <1>14, BatchMember
    <2>3. m = n => m \notin batchBar'[b]
      BY <1>13, <2>2
    <2>4. b # a => m # n \/ m \notin batchBar[b]
      BY <1>11
    <2>5. m # n => (m \in batchBar'[b] <=> m \in batchBar[b])
      BY <1>13, <2>1, <2>2
    <2> QED
      BY <2>3, <2>4, <2>5
  <1>18. batchBar' = [batchBar EXCEPT ![a] = @ \ {n}]
    <2>1. \A b \in Allocators : batchBar'[b] = IF b = a THEN batchBar[b] \ {n} ELSE batchBar[b]
      BY <1>17
    <2>2. batchBar' = [b \in Allocators |-> batchBar'[b]] /\ DOMAIN batchBar = Allocators
      BY DEF batchBar
    <2> QED
      BY <2>1, <2>2
  <1>19. Acyclic'
    <2> SUFFICES ASSUME NEW b \in Allocators, NEW m \in inboxBar'[b] \union batchBar'[b]
                 PROVE  m \notin Chain(next', next'[m])
      BY DEF Acyclic
    <2>1. CASE m \in inboxBar[b]
      BY <1>15, <2>1 DEF ListsOK, Acyclic
    <2>2. CASE m \in batchBar'[b]
      <3>1. PICK i \in DOMAIN frames[b] : m \in Chain(next, Rest(frames'[b][i]))
        BY <1>6, <1>14, <2>2, BatchMember
      <3>2. next'[m] = next[m] /\ Chain(next', next[m]) = Chain(next, next[m])
        BY <1>14, <3>1
      <3>3. m \in batchBar[b]
        BY <1>17, <2>2
      <3> QED
        BY <3>2, <3>3 DEF ListsOK, Acyclic
    <2> QED
      BY <1>16, <2>1, <2>2
  <1>20. FramesApart'
    <2> SUFFICES ASSUME NEW b \in Allocators, NEW i \in DOMAIN frames'[b], NEW j \in DOMAIN frames'[b], i # j
                 PROVE  Chain(next', Rest(frames'[b][i])) \intersect Chain(next', Rest(frames'[b][j])) = {}
      BY DEF FramesApart
    <2>0. i \in DOMAIN frames[b] /\ j \in DOMAIN frames[b]
      BY <1>6
    <2>1. Chain(next, Rest(frames[b][i])) \intersect Chain(next, Rest(frames[b][j])) = {}
      BY <2>0 DEF ListsOK, FramesApart
    <2>2. /\ Chain(next', Rest(frames'[b][i])) \subseteq Chain(next, Rest(frames[b][i]))
          /\ Chain(next', Rest(frames'[b][j])) \subseteq Chain(next, Rest(frames[b][j]))
      <3>1. /\ Chain(next', Rest(frames'[b][i])) = Chain(next, Rest(frames'[b][i]))
            /\ Chain(next', Rest(frames'[b][j])) = Chain(next, Rest(frames'[b][j]))
        BY <1>14, <2>0
      <3>2. /\ Chain(next, Rest(frames'[b][i])) \subseteq Chain(next, Rest(frames[b][i]))
            /\ Chain(next, Rest(frames'[b][j])) \subseteq Chain(next, Rest(frames[b][j]))
        BY <1>13, <2>0
      <3> QED
        BY <3>1, <3>2
    <2> QED
      BY <2>1, <2>2
  <1> QED
    BY <1>2, <1>5, <1>6, <1>9, <1>16, <1>18, <1>19, <1>20

(* KeepNode is Receive.                                                    *)
LEMMA KeepNodeStep ==
  ASSUME Local, Promise!IInv, NEW a \in Allocators, KeepNode(a)
  PROVE  Simulated
  <1> USE DEF Local
  <1> DEFINE n == Top(a).cur
  <1>1. /\ Checking(a) /\ n = Top(a).cur /\ n # NULL /\ ~Top(a).handled /\ value[n].ptr = n
        /\ vec' = Push(vec, a, NodeClass, n)
        /\ frames' = SetTop(a, [Frame(n) EXCEPT !.next = next[n], !.handled = TRUE])
        /\ value' = [value EXCEPT ![n] = Blank]
        /\ next' = [next EXCEPT ![n] = NULL]
        /\ UNCHANGED <<phase, chunks, user, head, job, post, sizes>>
    BY DEF KeepNode
  <1> HIDE DEF n
  <1>2. next' \in [Slots -> Slots \union {NULL}] /\ \A k \in Slots \ {n} : next'[k] = next[k]
    BY <1>1 DEF TypeOK
  <1>3. /\ n \in Slots /\ n \in batchBar[a]
        /\ frames' \in [Allocators -> Seq(Frames)]
        /\ \A b \in Allocators : frames'[b] # <<>> => frames[b] # <<>>
        /\ inboxBar' = inboxBar
        /\ batchBar' = [batchBar EXCEPT ![a] = @ \ {n}]
        /\ Acyclic' /\ FramesApart'
    BY <1>1, <1>2, LeaveFrame
  <1>4. n \in Promise!Nodes
    BY <1>3, NodesMember
  <1>5. valueBar[n] = n /\ Owner[n] = a
    <2>1. valueBar[n] = n
      BY <1>1, <1>3 DEF valueBar
    <2> QED
      BY <1>3, <2>1 DEF Promise!IInv, Promise!Addressed
  <1>6. n \in SlotsOf(a, NodeClass) /\ NodeClass \in Classes
    BY <1>3, <1>4, <1>5 DEF ListsOK, NodesFilled, SlotsOf, Classes
  <1>7. /\ vec' \in [Allocators -> [Classes -> SUBSET Slots]]
        /\ RightVector'
        /\ vecBar' = [vecBar EXCEPT ![a] = @ \union {n}]
    BY <1>1, <1>6, PushVec
  <1>8. /\ value' \in [Slots -> [ptr : Slots \union {NULL}, offset : Classes \union {Random}]]
        /\ value'[n] = Blank /\ \A k \in Slots \ {n} : value'[k] = value[k]
    BY <1>1, <1>3 DEF TypeOK, Blank, NonLocalPtrData
  <1>9. valueBar' = valueBar
    <2>1. Blank.ptr = NULL
      BY DEF Blank, NonLocalPtrData
    <2> QED
      BY <1>1, <1>8, <2>1 DEF valueBar
  <1>10. UNCHANGED <<phaseBar, carvedBar, userBar, handBar>>
    BY <1>1 DEF phaseBar, carvedBar, userBar, Pending, handBar
  <1>11. \A b \in Allocators : n \notin inboxBar[b] /\ n \notin handBar[b] /\ (b # a => n \notin batchBar[b])
    BY <1>3 DEF Promise!IInv, Promise!OnePlace
  <1>12. \A m : m \in (Promise!Nodes)' => m \in Promise!Nodes /\ m # n
    BY <1>3, <1>10, <1>11, BarTypes, NodesMember
  <1>13. NodesFilled'
    <2>1. Promise!Nodes \subseteq Slots
      BY BarTypes, NodesMember
    <2> QED
      BY <1>8, <1>12, <2>1 DEF ListsOK, NodesFilled
  <1>14. PostsAddressed'
    <2>1. ASSUME NEW b \in Allocators, post[b] # NoPost
          PROVE  post[b].node \in Slots \ {n}
      BY <1>11, <2>1, PostTypes
    <2> QED
      BY <1>1, <1>8, <2>1 DEF ListsOK, PostsAddressed
  <1>15. TypeOK' /\ HeldOnce'
    BY <1>1, <1>2, <1>3, <1>7, <1>8 DEF TypeOK, HeldOnce, Holds
  <1>16. Scheduled'
    BY <1>1, <1>3 DEF Scheduled
  <1> QED
    BY <1>3, <1>5, <1>7, <1>9, <1>10, <1>13, <1>14, <1>15, <1>16, NextBySlot DEF Promise!Receive, ListsOK

(* A node is filled and about to be pushed.                                *)
LEMMA FillNode ==
  ASSUME TypeOK, NEW a \in Allocators, post[a] = NoPost, NEW n \in Slots, NEW to \in Allocators,
         NEW p \in Slots, NEW o \in Classes \union {Random},
         value'[n] = NonLocalPtrData(p, o), \A k \in Slots \ {n} : value'[k] = value[k],
         value' = [k \in Slots |-> value'[k]],
         post' = [b \in Allocators |-> post'[b]],
         post'[a] = AddNewNodePtr(n, to), \A b \in Allocators \ {a} : post'[b] = post[b]
  PROVE  /\ value' \in [Slots -> [ptr : Slots \union {NULL}, offset : Classes \union {Random}]]
         /\ value'[n].ptr = p /\ value'[n].offset = o /\ \A k \in Slots \ {n} : value'[k] = value[k]
         /\ valueBar' = [valueBar EXCEPT ![n] = p]
         /\ post' \in [Allocators -> Posts \union {NoPost}]
         /\ post'[a].node = n /\ post'[a].to = to /\ \A b \in Allocators \ {a} : post'[b] = post[b]
         /\ handBar' = [handBar EXCEPT ![a] = @ \union {n}]
  <1>1. /\ value' \in [Slots -> [ptr : Slots \union {NULL}, offset : Classes \union {Random}]]
        /\ value'[n].ptr = p /\ value'[n].offset = o /\ \A k \in Slots \ {n} : value'[k] = value[k]
    <2>1. /\ NonLocalPtrData(p, o) \in [ptr : Slots \union {NULL}, offset : Classes \union {Random}]
          /\ NonLocalPtrData(p, o).ptr = p /\ NonLocalPtrData(p, o).offset = o
      BY DEF NonLocalPtrData
    <2>2. \A k \in Slots : value[k] \in [ptr : Slots \union {NULL}, offset : Classes \union {Random}]
      BY DEF TypeOK
    <2>3. \A k \in Slots : value'[k] \in [ptr : Slots \union {NULL}, offset : Classes \union {Random}]
      BY <2>1, <2>2
    <2>4. value' \in [Slots -> [ptr : Slots \union {NULL}, offset : Classes \union {Random}]]
      BY <2>3
    <2> QED
      BY <2>1, <2>4
  <1>2. valueBar' = [valueBar EXCEPT ![n] = p]
    BY <1>1, ConstantsAssumption DEF valueBar
  <1>3. AddNewNodePtr(n, to) \in Posts /\ AddNewNodePtr(n, to).node = n /\ AddNewNodePtr(n, to).to = to
    BY DEF AddNewNodePtr, Posts
  <1>4. /\ post' \in [Allocators -> Posts \union {NoPost}]
        /\ post'[a].node = n /\ post'[a].to = to /\ \A b \in Allocators \ {a} : post'[b] = post[b]
    BY <1>3 DEF TypeOK
  <1>5. handBar' = [handBar EXCEPT ![a] = @ \union {n}]
    <2>1. \A b \in Allocators : {post'[b].node} \ {NULL} = IF b = a THEN handBar[b] \union {n} ELSE handBar[b]
      BY <1>4, PostTypes, BarTypes, ConstantsAssumption
    <2>2. handBar' = [b \in Allocators |-> {post'[b].node} \ {NULL}] /\ DOMAIN handBar = Allocators
      BY DEF handBar
    <2> QED
      BY <2>1, <2>2
  <1> QED
    BY <1>1, <1>2, <1>4, <1>5

(* ReturnNode is Unload.                                                   *)
LEMMA ReturnNodeStep ==
  ASSUME Local, Promise!IInv, NEW a \in Allocators, ReturnNode(a)
  PROVE  Simulated
  <1> USE DEF Local
  <1> DEFINE n == Top(a).cur
             s == value[n].ptr
  <1>1. /\ Checking(a) /\ n = Top(a).cur /\ n # NULL /\ ~Top(a).handled /\ value[n].ptr # n
        /\ vec' = Push(vec, a, value[n].offset, value[n].ptr)
        /\ value' = [value EXCEPT ![n] = NonLocalPtrData(n, Random)]
        /\ frames' = SetTop(a, [Frame(n) EXCEPT !.next = next[n], !.handled = TRUE])
        /\ post' = [post EXCEPT ![a] = AddNewNodePtr(n, Owner[n])]
        /\ UNCHANGED <<phase, chunks, user, head, next, job, sizes>>
    BY DEF ReturnNode
  <1> HIDE DEF n
  <1>2. next' \in [Slots -> Slots \union {NULL}] /\ \A k \in Slots \ {n} : next'[k] = next[k]
    BY <1>1 DEF TypeOK
  <1>3. /\ n \in Slots /\ n \in batchBar[a]
        /\ frames' \in [Allocators -> Seq(Frames)]
        /\ \A b \in Allocators : frames'[b] # <<>> => frames[b] # <<>>
        /\ inboxBar' = inboxBar
        /\ batchBar' = [batchBar EXCEPT ![a] = @ \ {n}]
        /\ Acyclic' /\ FramesApart'
    BY <1>1, <1>2, LeaveFrame
  <1>4. n \in Promise!Nodes
    BY <1>3, NodesMember
  <1>5. s \in Slots /\ valueBar[n] = s /\ s # n /\ Owner[s] = a /\ value[n].offset = Class[s]
    <2>1. s # NULL /\ value[n].offset = Class[s]
      BY <1>1, <1>4 DEF ListsOK, NodesFilled
    <2>2. s \in Slots /\ valueBar[n] = s
      BY <1>3, <2>1 DEF valueBar, TypeOK
    <2> QED
      BY <1>1, <1>3, <2>1, <2>2 DEF Promise!IInv, Promise!Addressed
  <1> HIDE DEF s
  <1>6. s \in SlotsOf(a, Class[s]) /\ Class[s] \in Classes /\ vec' = Push(vec, a, Class[s], s)
    BY <1>1, <1>5 DEF SlotsOf, Classes, s
  <1>7. /\ vec' \in [Allocators -> [Classes -> SUBSET Slots]]
        /\ RightVector'
        /\ vecBar' = [vecBar EXCEPT ![a] = @ \union {s}]
    BY <1>6, PushVec
  <1>8. post[a] = NoPost /\ Owner[n] \in Allocators /\ n # NULL
    BY <1>1, <1>3, OwnerAssumption, ConstantsAssumption DEF Checking
  <1>11. /\ value' \in [Slots -> [ptr : Slots \union {NULL}, offset : Classes \union {Random}]]
         /\ value'[n].ptr = n /\ value'[n].offset = Random /\ \A k \in Slots \ {n} : value'[k] = value[k]
         /\ valueBar' = [valueBar EXCEPT ![n] = n]
         /\ post' \in [Allocators -> Posts \union {NoPost}]
         /\ post'[a].node = n /\ post'[a].to = Owner[n] /\ \A b \in Allocators \ {a} : post'[b] = post[b]
         /\ handBar' = [handBar EXCEPT ![a] = @ \union {n}]
    <2>1. TypeOK /\ Random \in Classes \union {Random} /\ n \in Slots
      BY <1>3
    <2>2. /\ value'[n] = NonLocalPtrData(n, Random) /\ \A k \in Slots \ {n} : value'[k] = value[k]
          /\ value' = [k \in Slots |-> value'[k]] /\ post' = [b \in Allocators |-> post'[b]]
          /\ post'[a] = AddNewNodePtr(n, Owner[n]) /\ \A b \in Allocators \ {a} : post'[b] = post[b]
      BY <1>1, <2>1 DEF TypeOK
    <2> QED
      BY <1>8, <2>1, <2>2, FillNode
  <1>12. UNCHANGED <<phaseBar, carvedBar, userBar>>
    BY <1>1 DEF phaseBar, carvedBar, userBar, Pending
  <1>13. \A b \in Allocators : n \notin handBar[b]
    BY <1>3 DEF Promise!IInv, Promise!OnePlace
  <1>14. NodesFilled'
    <2>1. \A m : m \in (Promise!Nodes)' => m \in Promise!Nodes
      BY <1>3, <1>4, <1>11, BarTypes, NodesMember
    <2>2. Promise!Nodes \subseteq Slots
      BY BarTypes, NodesMember
    <2>3. ASSUME NEW m \in (Promise!Nodes)'
          PROVE  /\ Class[m] = NodeClass /\ value'[m].ptr # NULL
                 /\ value'[m].ptr # m => value'[m].offset = Class[value'[m].ptr]
      <3>1. CASE m = n
        BY <1>1, <1>4, <1>8, <1>11, <3>1 DEF ListsOK, NodesFilled
      <3>2. CASE m # n
        BY <1>11, <2>1, <2>2, <3>2 DEF ListsOK, NodesFilled
      <3> QED
        BY <3>1, <3>2
    <2> QED
      BY <2>3 DEF NodesFilled
  <1>15. PostsAddressed'
    <2> SUFFICES ASSUME NEW b \in Allocators, post'[b] # NoPost
                 PROVE  post'[b].to = Owner[value'[post'[b].node].ptr]
      BY DEF PostsAddressed
    <2>1. CASE b = a
      BY <1>8, <1>11, <2>1
    <2>2. CASE b # a
      <3>1. post'[b] = post[b] /\ post[b].node \in Slots \ {n}
        BY <1>11, <1>13, <2>2, PostTypes
      <3> QED
        BY <1>11, <3>1 DEF ListsOK, PostsAddressed
    <2> QED
      BY <2>1, <2>2
  <1>16. TypeOK' /\ HeldOnce'
    <2>1. TypeOK'
      BY <1>1, <1>2, <1>3, <1>7, <1>11 DEF TypeOK
    <2>2. HeldOnce'
      BY <1>1 DEF HeldOnce, Holds
    <2> QED
      BY <2>1, <2>2
  <1>17. Scheduled'
    BY <1>1, <1>3, <1>11 DEF Scheduled, Checking
  <1> QED
    BY <1>3, <1>5, <1>7, <1>8, <1>11, <1>12, <1>14, <1>15, <1>16, <1>17, NextBySlot
    DEF Promise!Unload, ListsOK

(* The two ways to deallocate another allocator's pointer: at once, or     *)
(* when a node has been allocated for it.                                  *)
LEMMA SendStep ==
  ASSUME Local, Promise!IInv, NEW a \in Allocators, NEW s \in Slots,
         NEW n \in vec[a][NodeClass], SendIn(a, n, s),
         s \in userBar, userBar' = userBar \ {s}, Owner[s] # a, phase[a] \in {"fresh", "live"},
         frames[a] = <<>>, post[a] = NoPost,
         HeldOnce', job' \in [Allocators -> Jobs], job'[a].kind = "idle",
         \A b \in Allocators \ {a} : job'[b] = job[b],
         user' \subseteq user, UNCHANGED <<phase, chunks, head, next, frames, sizes>>
  PROVE  Simulated
  <1> USE DEF Local
  <1>1. NodeClass \in Classes /\ Class[s] \in Classes
    BY DEF Classes
  <1>2. /\ vec' = Pop(vec, a, NodeClass, n)
        /\ value' = [value EXCEPT ![n] = NonLocalPtrData(s, Class[s])]
        /\ post' = [post EXCEPT ![a] = AddNewNodePtr(n, Owner[s])]
    BY DEF SendIn
  <1>3. /\ vec' \in [Allocators -> [Classes -> SUBSET Slots]]
        /\ RightVector'
        /\ vecBar' = [vecBar EXCEPT ![a] = @ \ {n}]
        /\ n \in vecBar[a] /\ n \in Slots
    BY <1>1, <1>2, PopVec
  <1>4. Owner[s] \in Allocators /\ Class[n] = NodeClass /\ s # NULL
    BY <1>1, OwnerAssumption, ConstantsAssumption DEF RightVector, SlotsOf
  <1>5. /\ value' \in [Slots -> [ptr : Slots \union {NULL}, offset : Classes \union {Random}]]
        /\ value'[n].ptr = s /\ value'[n].offset = Class[s] /\ \A k \in Slots \ {n} : value'[k] = value[k]
        /\ valueBar' = [valueBar EXCEPT ![n] = s]
        /\ post' \in [Allocators -> Posts \union {NoPost}]
        /\ post'[a].node = n /\ post'[a].to = Owner[s] /\ \A b \in Allocators \ {a} : post'[b] = post[b]
        /\ handBar' = [handBar EXCEPT ![a] = @ \union {n}]
    <2>1. TypeOK /\ Class[s] \in Classes \union {Random} /\ n \in Slots
      BY <1>1, <1>3
    <2>2. /\ value'[n] = NonLocalPtrData(s, Class[s]) /\ \A k \in Slots \ {n} : value'[k] = value[k]
          /\ value' = [k \in Slots |-> value'[k]] /\ post' = [b \in Allocators |-> post'[b]]
          /\ post'[a] = AddNewNodePtr(n, Owner[s]) /\ \A b \in Allocators \ {a} : post'[b] = post[b]
      BY <1>2, <2>1 DEF TypeOK
    <2> QED
      BY <1>4, <2>1, <2>2, FillNode
  <1>6. UNCHANGED <<phaseBar, carvedBar, inboxBar, batchBar>>
    BY DEF phaseBar, carvedBar, inboxBar, batchBar
  <1>7. n \notin Promise!Nodes
    BY <1>3 DEF Promise!IInv, Promise!OnePlace
  <1>8. NodesFilled'
    <2>1. \A m : m \in (Promise!Nodes)' => m = n \/ m \in Promise!Nodes
      BY <1>5, <1>6, BarTypes, NodesMember
    <2>2. Promise!Nodes \subseteq Slots
      BY BarTypes, NodesMember
    <2>3. ASSUME NEW m \in (Promise!Nodes)'
          PROVE  /\ Class[m] = NodeClass /\ value'[m].ptr # NULL
                 /\ value'[m].ptr # m => value'[m].offset = Class[value'[m].ptr]
      <3>1. CASE m = n
        BY <1>4, <1>5, <3>1
      <3>2. CASE m # n
        BY <1>5, <2>1, <2>2, <3>2 DEF ListsOK, NodesFilled
      <3> QED
        BY <3>1, <3>2
    <2> QED
      BY <2>3 DEF NodesFilled
  <1>9. PostsAddressed'
    <2> SUFFICES ASSUME NEW b \in Allocators, post'[b] # NoPost
                 PROVE  post'[b].to = Owner[value'[post'[b].node].ptr]
      BY DEF PostsAddressed
    <2>1. CASE b = a
      BY <1>5, <2>1
    <2>2. CASE b # a
      <3>1. post'[b] = post[b]
        BY <1>5, <2>2
      <3>2. post[b].node \in Slots /\ post[b].node # n
        BY <1>7, <3>1, PostTypes, NodesMember
      <3> QED
        BY <1>5, <3>1, <3>2 DEF ListsOK, PostsAddressed
    <2> QED
      BY <2>1, <2>2
  <1>10. Acyclic' /\ FramesApart'
    BY <1>6 DEF ListsOK, Acyclic, FramesApart
  <1>11. TypeOK'
    BY <1>3, <1>5 DEF TypeOK
  <1>12. Scheduled'
    BY <1>5 DEF Scheduled, Gone
  <1>13. phaseBar[a] = "live"
    BY DEF phaseBar
  <1> QED
    BY <1>3, <1>5, <1>6, <1>8, <1>9, <1>10, <1>11, <1>12, <1>13, NextByTwo DEF Promise!FreeRemote, ListsOK

(* DeallocNonLocal is FreeRemote.                                          *)
LEMMA DeallocNonLocalStep ==
  ASSUME Local, Promise!IInv, NEW a \in Allocators, NEW s \in Slots, DeallocNonLocal(a, s)
  PROVE  Simulated
  <1> USE DEF Local
  <1>1. /\ Ready(a) /\ s \in user /\ Owner[s] # a /\ user' = user \ {s}
        /\ UNCHANGED <<phase, chunks, head, next, job, frames, sizes>>
    BY DEF DeallocNonLocal, IsLocalPtr
  <1>2. PICK n \in vec[a][NodeClass] : SendIn(a, n, s)
    BY DEF DeallocNonLocal
  <1>3. /\ phase[a] \in {"fresh", "live"} /\ job[a].kind = "idle" /\ frames[a] = <<>> /\ post[a] = NoPost
    BY <1>1, ReadyIdle DEF Ready
  <1>4. \A b \in Allocators : Holds(b) => job[b].slot # s
    BY <1>1 DEF HeldOnce
  <1>5. userBar' = userBar \ {s} /\ s \in userBar
    <2>1. ASSUME NEW m PROVE m \in userBar' <=> m \in userBar \ {s}
      BY <1>1, <1>4, UserMember DEF Holds
    <2> QED
      BY <1>1, <2>1, UserMember
  <1>6. HeldOnce'
    BY <1>1 DEF HeldOnce, Holds
  <1>7. /\ job' \in [Allocators -> Jobs] /\ job'[a].kind = "idle"
        /\ \A b \in Allocators \ {a} : job'[b] = job[b]
        /\ user' \subseteq user
    BY <1>1, <1>3 DEF TypeOK
  <1> QED
    BY <1>1, <1>2, <1>3, <1>5, <1>6, <1>7, SendStep

(* DeallocNonLocalDone is FreeRemote.                                      *)
LEMMA DeallocNonLocalDoneStep ==
  ASSUME Local, Promise!IInv, NEW a \in Allocators, DeallocNonLocalDone(a)
  PROVE  Simulated
  <1> USE DEF Local
  <1> DEFINE s == job[a].slot
  <1>1. /\ job[a].kind = "send" /\ frames[a] = <<>> /\ post[a] = NoPost
        /\ job' = [job EXCEPT ![a] = Idle]
        /\ UNCHANGED <<phase, chunks, user, head, next, frames, sizes>>
    BY InJob DEF DeallocNonLocalDone
  <1>2. PICK n \in vec[a][NodeClass] : SendIn(a, n, s)
    BY DEF DeallocNonLocalDone
  <1>3. s \in Slots /\ Owner[s] # a /\ s \notin user
    BY <1>1, JobTypes DEF HeldOnce, Holds
  <1>4. \A b \in Allocators \ {a} : Holds(b) => job[b].slot # s
    BY <1>1 DEF HeldOnce, Holds
  <1>5. s \in userBar
    BY <1>1, UserMember
  <1>6. \A m : m # s => (m \in userBar <=> \/ m \in user /\ m \in Slots
                                           \/ \E b \in Allocators \ {a} : Holds(b) /\ job[b].slot = m)
    BY UserMember DEF Holds
  <1> HIDE DEF s
  <1>7. job' \in [Allocators -> Jobs] /\ job'[a].kind = "idle" /\ \A b \in Allocators \ {a} : job'[b] = job[b]
    BY <1>1, OtherJob, IdleJob
  <1>8. userBar' = userBar \ {s}
    <2>1. ASSUME NEW m PROVE m \in userBar' <=> m \in userBar \ {s}
      <3>1. m \in userBar' <=> \/ m \in user /\ m \in Slots
                               \/ \E b \in Allocators \ {a} : Holds(b) /\ job[b].slot = m
        BY <1>1, <1>7, UserMember DEF Holds
      <3> QED
        BY <3>1, <1>3, <1>4, <1>6
    <2> QED
      BY <2>1
  <1>9. HeldOnce'
    BY <1>1, <1>7 DEF HeldOnce, Holds
  <1>10. phase[a] \in {"fresh", "live"} /\ user' \subseteq user
    BY <1>1 DEF Scheduled
  <1> QED
    BY <1>1, <1>2, <1>3, <1>5, <1>7, <1>8, <1>9, <1>10, SendStep

-----------------------------------------------------------------------------
(* Every step simulates a step, or a stuttering step, of PtrReturn.        *)

(* What the program does of its own accord.                                *)
LEMMA ProgramStep ==
  ASSUME Local, Promise!IInv, NEW a \in Allocators, Program(a)
  PROVE  Simulated
  <1>1. CASE \E c \in Demand[a] : Alloc(a, c)
    BY <1>1, AllocStep
  <1>2. CASE \E c \in Demand[a] : AllocSlow(a, c)
    BY <1>2, AllocSlowStep
  <1>3. CASE \E s \in Slots : DeallocLocal(a, s)
    BY <1>3, DeallocLocalStep
  <1>4. CASE \E s \in Slots : DeallocLocalGrow(a, s) \/ DeallocNonLocalSlow(a, s)
    BY <1>4, DeallocGrowStep
  <1>5. CASE \E s \in Slots : DeallocNonLocal(a, s)
    BY <1>5, DeallocNonLocalStep
  <1>6. CASE AllocExtraLargeNone(a) \/ \E x \in XLarge : AllocExtraLarge(a, x) \/ DeallocExtraLarge(a, x)
    BY <1>6, ExtraLargeStep
  <1>7. CASE DestructorFrees(a)
    BY <1>7, TryFreeOkStep
  <1>8. CASE DestructorMoves(a) \/ DestructorPanicking(a)
    BY <1>8, DestructorStep
  <1> QED
    BY <1>1, <1>2, <1>3, <1>4, <1>5, <1>6, <1>7, <1>8 DEF Program

(* What follows once an operation has begun.                               *)
LEMMA OperationStep ==
  ASSUME Local, Promise!IInv, NEW a \in Allocators, Operation(a)
  PROVE  Simulated
  BY SeenStep, CompareExchangeOkStep, GrowVecStep, KeepNodeStep, ReturnNodeStep, AdvanceStep, EndCheckStep,
     CheckAgainStep, CarveChunkStep, AllocDoneStep, AllocNoneStep, DeallocLocalDoneStep,
     DeallocNonLocalDoneStep, BackgroundCheckStep, TryFreeOkStep, BackgroundSleepsStep DEF Operation

(* Steps that change nothing.                                              *)
LEMMA StutterStep ==
  ASSUME Local, UNCHANGED vars
  PROVE  Simulated
  <1>1. UNCHANGED <<phase, chunks, vec, user, head, next, value, job, frames, post, sizes>>
    BY DEF vars
  <1>2. UNCHANGED <<phaseBar, carvedBar, vecBar, userBar>>
    BY <1>1 DEF phaseBar, carvedBar, vecBar, userBar, Pending
  <1>3. ListsOK' /\ UNCHANGED <<inboxBar, batchBar, handBar, valueBar>>
    BY <1>1, SameLists DEF Local
  <1>4. TypeOK' /\ RightVector' /\ Scheduled' /\ HeldOnce'
    BY <1>1 DEF Local, TypeOK, RightVector, Scheduled, HeldOnce, Holds
  <1> QED
    BY <1>2, <1>3, <1>4, Stutter DEF Local

(* The invariant is inductive, and under it every step is one of PtrReturn *)
(* or none.                                                                *)
LEMMA StepSimulated ==
  ASSUME IInv, [Next]_vars
  PROVE  IInv' /\ [Promise!Next]_(Promise!vars)
  <1>1. Local /\ Promise!IInv
    BY DEF IInv, Local, ListsOK
  <1>2. Simulated
    <2>1. CASE Next
      BY <1>1, <2>1, ProgramStep, OperationStep DEF Next
    <2>2. CASE UNCHANGED vars
      BY <1>1, <2>2, StutterStep
    <2> QED
      BY <2>1, <2>2
  <1>3. Local' /\ [Promise!Next]_(Promise!vars)
    BY <1>2 DEF Simulated
  <1>4. (Promise!IInv)'
    BY <1>1, <1>3, AbstractStep
  <1> QED
    BY <1>3, <1>4 DEF IInv, Local, ListsOK

(* The initial states, in both specifications.                             *)
LEMMA InitSimulated == Init => IInv /\ Promise!Init
  <1> SUFFICES ASSUME Init PROVE IInv /\ Promise!Init
    OBVIOUS
  <1>1. TypeOK
    <2>1. Idle \in Jobs /\ <<>> \in Seq(Frames) /\ 0 \in 0 .. MaxSizes
      BY IdleJob, ConstantsAssumption
    <2>2. Blank \in [ptr : Slots \union {NULL}, offset : Classes \union {Random}]
      BY DEF Blank, NonLocalPtrData
    <2> QED
      BY <2>1, <2>2 DEF Init, TypeOK
  <1>2. \A a \in Allocators : inboxBar[a] = {} /\ batchBar[a] = {} /\ handBar[a] = {} /\ vecBar[a] = {}
    <2>1. \A a \in Allocators : inboxBar[a] = {}
      BY ChainNull DEF Init, inboxBar
    <2>2. ASSUME NEW a \in Allocators, NEW n PROVE n \notin batchBar[a] /\ n \notin vecBar[a]
      BY BatchMember, VecMember DEF Init
    <2>3. \A a \in Allocators : handBar[a] = {}
      BY DEF Init, handBar, NoPost
    <2> QED
      BY <2>1, <2>2, <2>3
  <1>3. ASSUME NEW s PROVE s \notin userBar
    BY UserMember DEF Init, Idle
  <1>4. Promise!Init
    <2>1. /\ vecBar = [a \in Allocators |-> vecBar[a]] /\ inboxBar = [a \in Allocators |-> inboxBar[a]]
          /\ batchBar = [a \in Allocators |-> batchBar[a]] /\ handBar = [a \in Allocators |-> handBar[a]]
      BY DEF vecBar, inboxBar, batchBar, handBar
    <2>2. /\ vecBar = [a \in Allocators |-> {}] /\ inboxBar = [a \in Allocators |-> {}]
          /\ batchBar = [a \in Allocators |-> {}] /\ handBar = [a \in Allocators |-> {}]
      BY <1>2, <2>1
    <2>3. phaseBar = [a \in Allocators |-> "live"] /\ carvedBar = {}
      BY OwnerAssumption, ConstantsAssumption DEF Init, phaseBar, carvedBar
    <2>4. valueBar = [s \in Slots |-> s]
      BY DEF Init, valueBar, Blank, NonLocalPtrData
    <2>5. userBar = {}
      BY <1>3
    <2> QED
      BY <2>2, <2>3, <2>4, <2>5 DEF Promise!Init
  <1>5. Promise!Nodes = {}
    BY <1>2, NodesMember
  <1>6. Promise!IInv
    BY <1>4, <1>5 DEF Promise!Init, Promise!IInv, Promise!TypeOK, Promise!OnePlace, Promise!NothingLost,
       Promise!Addressed, Promise!Existing, Promise!OwnedBy, Promise!Phases
  <1>7. NodesFilled /\ PostsAddressed /\ Acyclic /\ FramesApart
    BY <1>2, <1>5 DEF NodesFilled, PostsAddressed, Acyclic, FramesApart, Init
  <1>8. RightVector /\ Scheduled /\ HeldOnce
    BY DEF Init, RightVector, Scheduled, HeldOnce, Holds, Idle
  <1> QED
    BY <1>1, <1>4, <1>6, <1>7, <1>8 DEF IInv

(* Nothing of a freed allocator exists, and everything a thread can reach  *)
(* exists.                                                                 *)
LEMMA IInvSafe == IInv => NoUseAfterFree
  <1> SUFFICES ASSUME IInv, NEW a \in Allocators, phase[a] = "freed"
               PROVE  /\ head[a] = NULL
                      /\ \A b \in Allocators :
                           /\ post[b] # NoPost => a \notin {post[b].to, Owner[post[b].node]}
                           /\ \A n \in inboxBar[b] \union batchBar[b] :
                                a \notin {Owner[n], Owner[value[n].ptr]}
                      /\ \A s \in userBar : Owner[s] # a
    BY DEF NoUseAfterFree
  <1>1. TypeOK /\ NodesFilled /\ PostsAddressed /\ Promise!Existing /\ Promise!Addressed
    BY DEF IInv, Promise!IInv
  <1>2. phaseBar[a] = "freed"
    BY <1>1 DEF phaseBar
  <1>3. \A s \in carvedBar : Owner[s] # a
    BY <1>1, <1>2 DEF Promise!Existing, Promise!OwnedBy, carvedBar
  <1>4. ASSUME NEW n \in Promise!Nodes
        PROVE  Owner[n] # a /\ Owner[value[n].ptr] # a /\ valueBar[n] = value[n].ptr
    <2>1. n \in carvedBar /\ valueBar[n] \in carvedBar
      BY <1>1 DEF Promise!Existing
    <2>2. valueBar[n] = value[n].ptr
      BY <1>1, <2>1 DEF NodesFilled, valueBar, carvedBar
    <2> QED
      BY <1>3, <2>1, <2>2
  <1>5. head[a] = NULL
    <2> SUFFICES ASSUME head[a] # NULL PROVE FALSE
      OBVIOUS
    <2>1. head[a] \in inboxBar[a]
      BY <1>1, ChainMember DEF TypeOK, inboxBar
    <2>2. head[a] \in Promise!Nodes
      BY <2>1, NodesMember
    <2> QED
      BY <1>1, <1>4, <2>1, <2>2 DEF Promise!Addressed
  <1>6. ASSUME NEW b \in Allocators, post[b] # NoPost
        PROVE  a \notin {post[b].to, Owner[post[b].node]}
    <2>1. post[b].node \in Promise!Nodes
      BY <1>1, <1>6, PostTypes, NodesMember
    <2> QED
      BY <1>1, <1>4, <1>6, <2>1 DEF PostsAddressed
  <1>7. ASSUME NEW b \in Allocators, NEW n \in inboxBar[b] \union batchBar[b]
        PROVE  a \notin {Owner[n], Owner[value[n].ptr]}
    <2>1. n \in Promise!Nodes
      BY <1>7, NodesMember
    <2> QED
      BY <1>4, <2>1
  <1>8. \A s \in userBar : Owner[s] # a
    BY <1>1, <1>3 DEF Promise!Existing
  <1> QED
    BY <1>5, <1>6, <1>7, <1>8

(* The inductive invariant holds: chains end, the chains of nested checks  *)
(* are apart, a node says where it goes and what it carries, a pointer     *)
(* whose deallocation has begun is in one thread's hands, and the lists    *)
(* read as sets satisfy the invariant of PtrReturn.                        *)
THEOREM Invariance == Spec => []IInv
  <1>1. Init => IInv
    BY InitSimulated
  <1>2. IInv /\ [Next]_vars => IInv'
    BY StepSimulated
  <1> QED
    BY <1>1, <1>2, PTL DEF Spec

(* Every variable, with the operation, the frames and the call of          *)
(* add_new_node_ptr of every thread, has its type.                         *)
THEOREM TypeCorrect == Spec => []TypeOK
  <1>1. IInv => TypeOK
    BY DEF IInv
  <1> QED
    BY <1>1, Invariance, PTL

(* LockFreeNonLocalPtrManager and its users implement PtrReturn, for any   *)
(* allocators, slots, size classes and depth of nested checks: no race on  *)
(* head_of_list between loads, compare-exchanges and swaps loses,          *)
(* duplicates or misdelivers a node.                                       *)
THEOREM Refinement == Spec => KeepsPromise
  <1>1. Init => Promise!Init
    BY InitSimulated
  <1>2. IInv /\ [Next]_vars => [Promise!Next]_(Promise!vars)
    BY StepSimulated
  <1> QED
    BY <1>1, <1>2, Invariance, PTL DEF Spec, KeepsPromise, Promise!Spec

(* A slot of any allocator is free, with the program, a node on its way or *)
(* carried by one node, and never two of these: whatever the races on      *)
(* head_of_list and the nesting of checks, a pointer handed out by         *)
(* try_alloc is exclusive.                                                 *)
THEOREM Conservation == Spec => []OnePlace
  <1>1. IInv => OnePlace
    BY DEF IInv, Promise!IInv, OnePlace
  <1> QED
    BY <1>1, Invariance, PTL

(* A slot that was carved and not unmapped can still be found: no push,    *)
(* swap or walk through a list loses one.                                  *)
THEOREM Completeness == Spec => []NothingLost
  <1>1. IInv => NothingLost
    BY DEF IInv, Promise!IInv, NothingLost
  <1> QED
    BY <1>1, Invariance, PTL

(* What is in an allocator's list, or in a chain it has swapped out, goes  *)
(* back to that allocator, and its vectors hold only slots of its chunks.  *)
THEOREM Delivery == Spec => []Addressed
  <1>1. IInv => Addressed
    BY DEF IInv, Promise!IInv, Addressed
  <1> QED
    BY <1>1, Invariance, PTL

(* Whatever is held, listed or carried lies in a chunk that exists, and    *)
(* nothing of an allocator exists once try_free_all_memory unmapped it.    *)
THEOREM Confinement == Spec => []Existing
  <1>1. IInv => Existing
    BY DEF IInv, Promise!IInv, Existing
  <1> QED
    BY <1>1, Invariance, PTL

(* No thread reads or writes memory of an allocator whose regions          *)
(* try_free_all_memory has unmapped, through a list, a swapped-out chain,  *)
(* the node in its hand, the manager it pushes to or a pointer of the      *)
(* program.                                                                *)
THEOREM Safety == Spec => []NoUseAfterFree
  BY Invariance, IInvSafe, PTL

(* A pointer comes back to the vector of its own class in its own          *)
(* allocator, whichever thread deallocated it.                             *)
THEOREM RightClass == Spec => []RightVector
  <1>1. IInv => RightVector
    BY DEF IInv
  <1> QED
    BY <1>1, Invariance, PTL
=============================================================================
