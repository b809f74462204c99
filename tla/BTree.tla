-------------------------------- MODULE BTree --------------------------------
(***************************************************************************)
(* SelfAllocatedBTreeMap, the map from extra-large sizes to the number of  *)
(* blocks in use, with its nodes in memory: keys, values, edges and the    *)
(* links to the parents.  An insertion that needs memory for a node is a   *)
(* frame of op while it waits for it: the allocator may fail there.        *)
(*                                                                         *)
(* A handle is a node with an index, counted from 0 as in the code.        *)
(***************************************************************************)
EXTENDS Naturals, SequencesExt

CONSTANTS B,           \* half of the edges of a full node (6 in the code)
          Keys,        \* extra-large sizes
          Copies,      \* most blocks in use of each
          Programs,    \* bounds what programs do: sizes allocated first, in order
                       \* (load), and sizes that come and go from then on (loose)
          Nodes,       \* addresses of nodes
          Unused       \* memory that is not a node

ASSUME BTreeAssumption ==
  /\ B \in Nat \ {0, 1}
  /\ Keys \subseteq Nat
  /\ Copies \in [Keys -> Nat \ {0}]
  /\ \A p \in Programs : p.load \in Seq(Keys) /\ p.loose \subseteq Keys
  /\ Nodes \subseteq Nat \ {0}

VARIABLES nodes,      \* memory of nodes
          root,       \* None or the root node
          length,
          counted,    \* allocated_memory: two sizes, and how many nodes of each
          program,    \* what is left of load, and loose
          op,         \* the insertion in progress, if any
          panicked    \* an allocation for the map has failed

Used == {n \in Nodes : nodes[n] # Unused}

vars == <<nodes, root, length, counted, program, op, panicked>>

None == 0

CAPACITY == 2 * B - 1
MIN_LEN == B - 1
KV_IDX_CENTER == B - 1

(* size_of of the two kinds of nodes for usize keys and values; both are   *)
(* sizes of objects, so real_size returns them as they are.                *)
LEAF_SIZE == 192
INTERNAL_SIZE == 288
SizeAt(height) == IF height = 0 THEN LEAF_SIZE ELSE INTERNAL_SIZE

(* LeafNode and InternalNode, as new leaves them.                          *)
NewNode(height) ==
  [height |-> height, keys |-> <<>>, vals |-> <<>>, edges |-> <<>>,
   parent |-> None, parent_idx |-> 0]

At(node, idx) == [node |-> node, idx |-> idx]

LenOf(m, n) == Len(m[n].keys)
Child(m, n, i) == m[n].edges[i + 1]

(* A range of edges; a leaf has none.                                      *)
Edges(edges, first, last) == IF edges = <<>> THEN <<>> ELSE SubSeq(edges, first, last)

Parent(m, n) == At(m[n].parent, m[n].parent_idx)     \* ascend

-----------------------------------------------------------------------------
(* SelfAllocatedMemory                                                     *)

NotCounted == <<[size |-> 0, number |-> 0], [size |-> 0, number |-> 0]>>

IncForSize(c, size) ==
  LET i == IF c[1].size = size THEN 1
           ELSE IF c[2].size = size THEN 2
           ELSE IF c[1].size = 0 THEN 1 ELSE 2
  IN [c EXCEPT ![i] = [size |-> size, number |-> @.number + 1]]

(* Mistaken: one of the two counters, whatever the size.                   *)
DecForSizeSecond(c, size) == [c EXCEPT ![2].number = @ - 1]
DecForSizeFirst(c, size) == [c EXCEPT ![1].number = @ - 1]

DecForSize(c, size) ==
  [c EXCEPT ![IF c[1].size = size THEN 1 ELSE 2].number = @ - 1]

Dealloc(m, n) == [m EXCEPT ![n] = Unused]

-----------------------------------------------------------------------------
(* Nodes                                                                   *)

(* correct_childrens_parent_links                                          *)
CorrectLinks(m, n, range) ==
  FoldSet(LAMBDA i, links : [links EXCEPT ![Child(m, n, i)].parent = n,
                                          ![Child(m, n, i)].parent_idx = i],
          m, range)

(* Mistaken: an insertion to the right of the middle goes one too far.     *)
SplitPointSkips(i) ==
  CASE i < B - 1 -> [middle |-> KV_IDX_CENTER - 1, right |-> FALSE, idx |-> i]
    [] i = B - 1 -> [middle |-> KV_IDX_CENTER, right |-> FALSE, idx |-> i]
    [] i = B     -> [middle |-> KV_IDX_CENTER, right |-> TRUE, idx |-> 1]
    [] i > B     -> [middle |-> KV_IDX_CENTER + 1, right |-> TRUE,
                     idx |-> i - (KV_IDX_CENTER + 2)]

(* splitpoint: the middle pair of a full node for an insertion at edge i,  *)
(* and where the insertion goes then.                                      *)
SplitPoint(i) ==
  CASE i < B - 1 -> [middle |-> KV_IDX_CENTER - 1, right |-> FALSE, idx |-> i]
    [] i = B - 1 -> [middle |-> KV_IDX_CENTER, right |-> FALSE, idx |-> i]
    [] i = B     -> [middle |-> KV_IDX_CENTER, right |-> TRUE, idx |-> 0]
    [] i > B     -> [middle |-> KV_IDX_CENTER + 1, right |-> TRUE,
                     idx |-> i - (KV_IDX_CENTER + 2)]

(* Mistaken: the children behind the new one keep their old index.         *)
InsertFitFewLinks(m, n, i, k, v, edge) ==
  LET kvs == [m EXCEPT ![n].keys = InsertAt(@, i + 1, k), ![n].vals = InsertAt(@, i + 1, v)] IN
  IF edge = None THEN kvs
  ELSE CorrectLinks([kvs EXCEPT ![n].edges = InsertAt(@, i + 2, edge)], n, {i + 1})

(* insert_fit                                                              *)
InsertFit(m, n, i, k, v, edge) ==
  LET kvs == [m EXCEPT ![n].keys = InsertAt(@, i + 1, k), ![n].vals = InsertAt(@, i + 1, v)] IN
  IF edge = None THEN kvs
  ELSE CorrectLinks([kvs EXCEPT ![n].edges = InsertAt(@, i + 2, edge)],
                    n, i + 1 .. LenOf(kvs, n))

(* split: the middle pair goes up,                                         *)
SplitKv(m, n, mid) == [key |-> m[n].keys[mid + 1], val |-> m[n].vals[mid + 1]]

(* and what follows it moves to the node new.                              *)
Split(m, n, mid, new) ==
  LET old == m[n]
      moved == [NewNode(old.height) EXCEPT
                  !.keys = SubSeq(old.keys, mid + 2, Len(old.keys)),
                  !.vals = SubSeq(old.vals, mid + 2, Len(old.vals)),
                  !.edges = Edges(old.edges, mid + 2, Len(old.edges))]
      kept == [old EXCEPT !.keys = SubSeq(@, 1, mid), !.vals = SubSeq(@, 1, mid),
                          !.edges = Edges(@, 1, mid + 1)]
      both == [m EXCEPT ![n] = kept, ![new] = moved]
  IN IF old.height = 0 THEN both
     ELSE CorrectLinks(both, new, 0 .. Len(moved.keys))

(* BalancingContext: the pair of the parent between two neighbours.        *)
Context(m, p, i) ==
  [parent |-> p, idx |-> i, left |-> Child(m, p, i), right |-> Child(m, p, i + 1)]

(* choose_parent_kv, for a node with a parent: the left neighbour, if any. *)
ChooseParentKv(m, n) ==
  LET e == Parent(m, n) IN
  IF e.idx > 0 THEN Context(m, e.node, e.idx - 1) ELSE Context(m, e.node, e.idx)

CanMerge(m, c) == LenOf(m, c.left) + 1 + LenOf(m, c.right) <= CAPACITY

(* Two neighbours l and r with the pair i of their parent p between them.  *)
Joined(l, p, i, r) ==
  [l EXCEPT !.keys = @ \o <<p.keys[i + 1]>> \o r.keys,
            !.vals = @ \o <<p.vals[i + 1]>> \o r.vals,
            !.edges = @ \o r.edges]

(* do_merge: the left neighbour takes the pair and all of the right one.   *)
DoMerge(m, c) ==
  LET l == m[c.left]
      r == m[c.right]
      p == m[c.parent]
      merged == [m EXCEPT
        ![c.left] = Joined(l, p, c.idx, r),
        ![c.parent].keys = RemoveAt(@, c.idx + 1),
        ![c.parent].vals = RemoveAt(@, c.idx + 1),
        ![c.parent].edges = RemoveAt(@, c.idx + 2)]
      linked == CorrectLinks(merged, c.parent, c.idx + 1 .. Len(p.keys) - 1)
  IN Dealloc(IF p.height > 1
             THEN CorrectLinks(linked, c.left,
                               Len(l.keys) + 1 .. Len(l.keys) + 1 + Len(r.keys))
             ELSE linked, c.right)

(* bulk_steal_left: the last pairs of the left neighbour go, through the   *)
(* parent, to the right one.                                               *)
BulkStealLeft(m, c, count) ==
  LET l == m[c.left]
      p == m[c.parent]
      new_len == Len(l.keys) - count
      moved == [m EXCEPT
        ![c.left].keys = SubSeq(@, 1, new_len),
        ![c.left].vals = SubSeq(@, 1, new_len),
        ![c.left].edges = Edges(@, 1, new_len + 1),
        ![c.parent].keys[c.idx + 1] = l.keys[new_len + 1],
        ![c.parent].vals[c.idx + 1] = l.vals[new_len + 1],
        ![c.right].keys = SubSeq(l.keys, new_len + 2, Len(l.keys))
                            \o <<p.keys[c.idx + 1]>> \o @,
        ![c.right].vals = SubSeq(l.vals, new_len + 2, Len(l.vals))
                            \o <<p.vals[c.idx + 1]>> \o @,
        ![c.right].edges = Edges(l.edges, new_len + 2, Len(l.edges)) \o @]
  IN IF l.height = 0 THEN moved
     ELSE CorrectLinks(moved, c.right, 0 .. LenOf(moved, c.right))

(* bulk_steal_right, its mirror image.                                     *)
BulkStealRight(m, c, count) ==
  LET r == m[c.right]
      p == m[c.parent]
      old_len == LenOf(m, c.left)
      moved == [m EXCEPT
        ![c.left].keys = @ \o <<p.keys[c.idx + 1]>> \o SubSeq(r.keys, 1, count - 1),
        ![c.left].vals = @ \o <<p.vals[c.idx + 1]>> \o SubSeq(r.vals, 1, count - 1),
        ![c.left].edges = @ \o Edges(r.edges, 1, count),
        ![c.parent].keys[c.idx + 1] = r.keys[count],
        ![c.parent].vals[c.idx + 1] = r.vals[count],
        ![c.right].keys = SubSeq(@, count + 1, Len(@)),
        ![c.right].vals = SubSeq(@, count + 1, Len(@)),
        ![c.right].edges = Edges(@, count + 1, Len(@))]
  IN IF r.height = 0 THEN moved
     ELSE CorrectLinks(
            CorrectLinks(moved, c.left, old_len + 1 .. old_len + count),
            c.right, 0 .. LenOf(moved, c.right))

-----------------------------------------------------------------------------
(* Search and navigation                                                   *)

(* find_key_index: the first key that is not below k, or the last edge.    *)
FindKeyIndex(keys, k) ==
  LET i == SelectInSeq(keys, LAMBDA key : key >= k)
  IN [found |-> i # 0 /\ keys[i] = k, idx |-> IF i = 0 THEN Len(keys) ELSE i - 1]

(* search_tree: the pair with key k, or the edge of a leaf where it would  *)
(* be inserted.                                                            *)
RECURSIVE SearchTree(_, _, _)
SearchTree(m, n, k) ==
  LET i == FindKeyIndex(m[n].keys, k)
  IN IF i.found \/ m[n].height = 0 THEN [found |-> i.found, at |-> At(n, i.idx)]
     ELSE SearchTree(m, Child(m, n, i.idx), k)

RECURSIVE FirstLeafEdge(_, _)
FirstLeafEdge(m, n) ==
  IF m[n].height = 0 THEN At(n, 0) ELSE FirstLeafEdge(m, Child(m, n, 0))

RECURSIVE LastLeafEdge(_, _)
LastLeafEdge(m, n) ==
  IF m[n].height = 0 THEN At(n, LenOf(m, n)) ELSE LastLeafEdge(m, Child(m, n, LenOf(m, n)))

(* next_kv: upwards while the edge is the last of its node.                *)
RECURSIVE NextKv(_, _)
NextKv(m, e) ==
  IF e.node = None \/ e.idx < LenOf(m, e.node) THEN e ELSE NextKv(m, Parent(m, e.node))

NextLeafEdge(m, kv) ==
  IF m[kv.node].height = 0 THEN At(kv.node, kv.idx + 1)
  ELSE FirstLeafEdge(m, Child(m, kv.node, kv.idx + 1))

(* Iter: as many pairs as it is told, from edge e on.                      *)
RECURSIVE IterFrom(_, _, _)
IterFrom(m, e, remaining) ==
  LET kv == NextKv(m, e) IN
  IF remaining = 0 \/ kv.node = None THEN <<>>
  ELSE <<<<m[kv.node].keys[kv.idx + 1], m[kv.node].vals[kv.idx + 1]>>>>
         \o IterFrom(m, NextLeafEdge(m, kv), remaining - 1)

Iter == IF root = None THEN <<>> ELSE IterFrom(nodes, FirstLeafEdge(nodes, root), length)

-----------------------------------------------------------------------------
(* Removal                                                                 *)

(* Mistaken: the value stays.                                              *)
ReplaceKey(m, at, k, v) == [m EXCEPT ![at.node].keys[at.idx + 1] = k]

ReplaceKv(m, at, k, v) ==
  [m EXCEPT ![at.node].keys[at.idx + 1] = k, ![at.node].vals[at.idx + 1] = v]

(* merge_tracking_child_edge: where edge idx of node n is after the merge. *)
MergedEdge(m, c, n, idx) ==
  At(c.left, IF c.right = n THEN LenOf(m, c.left) + 1 + idx ELSE idx)

(* Mistaken: the pair that came in before the edge is forgotten.           *)
StolenEdgeStale(c, n, idx) == At(n, idx)

(* steal_left and steal_right: where it is after the steal.                *)
StolenEdge(c, n, idx) == At(n, IF c.right = n THEN 1 + idx ELSE idx)

(* remove_leaf_kv: the pair leaves its leaf, and a leaf that becomes too   *)
(* short merges with a neighbour or takes a pair from it.  pos tracks the  *)
(* edge where the pair was.                                                *)
RemoveLeafKv(m, kv) ==
  LET n == kv.node
      out == [m EXCEPT ![n].keys = RemoveAt(@, kv.idx + 1), ![n].vals = RemoveAt(@, kv.idx + 1)]
      c == ChooseParentKv(out, n)
      short == LenOf(out, n) < MIN_LEN /\ out[n].parent # None
      merge == short /\ CanMerge(out, c)
  IN [nodes |-> IF merge THEN DoMerge(out, c)
                ELSE IF ~short THEN out
                ELSE IF c.right = n THEN BulkStealLeft(out, c, 1) ELSE BulkStealRight(out, c, 1),
      pos |-> IF merge THEN MergedEdge(out, c, n, kv.idx)
              ELSE IF short THEN StolenEdge(c, n, kv.idx) ELSE kv,
      merged |-> merge,
      fix |-> IF short THEN c.parent ELSE None]

(* fix_node_and_affected_ancestors, with fix_node_through_parent as its    *)
(* step: a merge shrinks the parent, which is fixed next; emptied says     *)
(* that the root has no pair left.                                         *)
RECURSIVE FixAncestors(_, _, _)
FixAncestors(m, c, n) ==
  LET x == ChooseParentKv(m, n)
      done == [nodes |-> m, counted |-> c, emptied |-> FALSE]
  IN IF n = None \/ LenOf(m, n) >= MIN_LEN THEN done
     ELSE IF m[n].parent = None THEN [done EXCEPT !.emptied = LenOf(m, n) = 0]
     ELSE IF CanMerge(m, x)
     THEN FixAncestors(DoMerge(m, x), DecForSize(c, INTERNAL_SIZE), x.parent)
     ELSE [done EXCEPT !.nodes = IF x.right = n
                                 THEN BulkStealLeft(m, x, MIN_LEN - LenOf(m, n))
                                 ELSE BulkStealRight(m, x, MIN_LEN - LenOf(m, n))]

(* remove_kv_tracking: a pair of an internal node is replaced by the one   *)
(* before it, which leaves its leaf; after merges and steals the pair to   *)
(* replace is the next one from there.                                     *)
RemoveKv(m, c, at) ==
  LET inner == m[at.node].height > 0
      last == LastLeafEdge(m, Child(m, at.node, at.idx))
      kv == IF inner THEN At(last.node, last.idx - 1) ELSE at
      leaf == RemoveLeafKv(m, kv)
      fixed == FixAncestors(leaf.nodes, IF leaf.merged THEN DecForSize(c, LEAF_SIZE) ELSE c,
                            leaf.fix)
  IN IF ~inner THEN fixed
     ELSE [fixed EXCEPT !.nodes = ReplaceKv(@, NextKv(@, leaf.pos),
                                            m[kv.node].keys[kv.idx + 1],
                                            m[kv.node].vals[kv.idx + 1])]

(* pop_internal_level: the only child of the root n takes its place.       *)
PopInternalLevel(m, n) == Dealloc([m EXCEPT ![Child(m, n, 0)].parent = None], n)

(* IntoIter: the walk that releases each node when it leaves the last edge *)
(* (deallocating_next), and after the last pair the nodes from there up    *)
(* (deallocating_end).  The result is what it leaves behind.               *)
RECURSIVE DyingNext(_, _, _)
DyingNext(m, e, remaining) ==
  IF e.node = None THEN m
  ELSE IF remaining > 0 /\ e.idx < LenOf(m, e.node)
  THEN DyingNext(m, NextLeafEdge(m, e), remaining - 1)
  ELSE DyingNext(Dealloc(m, e.node), Parent(m, e.node), remaining)

-----------------------------------------------------------------------------
Init ==
  /\ nodes = [n \in Nodes |-> Unused]
  /\ root = None
  /\ length = 0
  /\ counted = NotCounted
  /\ program \in Programs
  /\ op = <<>>
  /\ panicked = FALSE

Top == Last(op)
Running(pc) == op # <<>> /\ Top.pc = pc /\ ~panicked
Goto(frame) == op' = Append(Front(op), frame)
Return == op' = Front(op)

(* Memory for a node; which one makes no difference.                       *)
FreeNode == Min(Nodes \ Used)

(* The operation in progress waits for the memory of a node.               *)
Allocating ==
  \/ Running("first") \/ Running("top")
  \/ Running("insert") /\ LenOf(nodes, Top.at.node) = CAPACITY

(* alloc_extra_large: entry, and and_modify when the size is there.        *)
AndModify(k) ==
  /\ root # None
  /\ LET s == SearchTree(nodes, root, k) IN
       /\ s.found
       /\ nodes[s.at.node].vals[s.at.idx + 1] < Copies[k]
       /\ nodes' = [nodes EXCEPT ![s.at.node].vals[s.at.idx + 1] = @ + 1]
  /\ UNCHANGED <<root, length, counted, op, panicked>>

(* or_insert when it is not: done if the leaf has room, and otherwise up   *)
(* to where it needs memory for a node.                                    *)
OrInsert(k) ==
  /\ LET s == SearchTree(nodes, root, k)
         fits == root # None /\ LenOf(nodes, s.at.node) < CAPACITY
     IN /\ root # None => ~s.found
        /\ nodes' = IF fits THEN InsertFit(nodes, s.at.node, s.at.idx, k, 1, None) ELSE nodes
        /\ length' = IF fits THEN length + 1 ELSE length
        /\ op' = IF fits THEN op
                 ELSE IF root = None THEN Append(op, [pc |-> "first", key |-> k, val |-> 1])
                 ELSE Append(op, [pc |-> "insert", at |-> s.at, key |-> k, val |-> 1,
                                  edge |-> None])
  /\ UNCHANGED <<root, counted, panicked>>

AllocExtraLarge(k) ==
  /\ op = <<>> /\ ~panicked
  /\ IF program.load = <<>> THEN k \in program.loose ELSE k = Head(program.load)
  /\ program' = [program EXCEPT !.load = IF @ = <<>> THEN @ ELSE Tail(@)]
  /\ AndModify(k) \/ OrInsert(k)

(* VacantEntry::insert without a handle.                                   *)
InsertFirst ==
  /\ Running("first")
  /\ LET n == FreeNode IN
       /\ nodes' = [nodes EXCEPT ![n] = [NewNode(0) EXCEPT !.keys = <<Top.key>>,
                                                  !.vals = <<Top.val>>]]
       /\ root' = n
  /\ length' = 1
  /\ counted' = IncForSize(counted, LEAF_SIZE)
  /\ Return
  /\ UNCHANGED <<program, panicked>>

(* insert_recursing, when the parent of a node that was split has room.    *)
InsertFits ==
  /\ Running("insert")
  /\ LenOf(nodes, Top.at.node) < CAPACITY
  /\ nodes' = InsertFit(nodes, Top.at.node, Top.at.idx, Top.key, Top.val, Top.edge)
  /\ length' = length + 1
  /\ Return
  /\ UNCHANGED <<root, counted, program, panicked>>

(* insert_recursing, when it is full: split, insert into one of the two,   *)
(* and go on with the middle pair in the parent, or above the root.        *)
InsertSplits ==
  /\ Running("insert")
  /\ LenOf(nodes, Top.at.node) = CAPACITY
  /\ LET n == Top.at.node
         new == FreeNode
         s == SplitPoint(Top.at.idx)
         split == Split(nodes, n, s.middle, new)
         rest == SplitKv(nodes, n, s.middle) @@ [edge |-> new]
     IN /\ nodes' = InsertFit(split, IF s.right THEN new ELSE n, s.idx,
                              Top.key, Top.val, Top.edge)
        /\ counted' = IncForSize(counted, SizeAt(nodes[n].height))
        /\ IF nodes[n].parent = None THEN Goto([pc |-> "top"] @@ rest)
           ELSE Goto([pc |-> "insert", at |-> Parent(nodes, n)] @@ rest)
  /\ UNCHANGED <<root, length, program, panicked>>

(* push_internal_level, and push of the pair and the right half.           *)
PushInternalLevel ==
  /\ Running("top")
  /\ LET n == FreeNode
         level == [NewNode(nodes[root].height + 1) EXCEPT
                     !.keys = <<Top.key>>, !.vals = <<Top.val>>, !.edges = <<root, Top.edge>>]
     IN /\ nodes' = CorrectLinks([nodes EXCEPT ![n] = level], n, 0 .. 1)
        /\ root' = n
  /\ length' = length + 1
  /\ counted' = IncForSize(counted, INTERNAL_SIZE)
  /\ Return
  /\ UNCHANGED <<program, panicked>>

(* The memory cannot be had: every one of these ends in expect.            *)
NodeFails ==
  /\ Allocating
  /\ panicked' = TRUE
  /\ UNCHANGED <<nodes, root, length, counted, program, op>>

Idle == program.load = <<>> /\ op = <<>> /\ ~panicked

(* dealloc_extra_large when other blocks of the size remain.               *)
DeallocOne(k) ==
  /\ Idle /\ k \in program.loose /\ root # None
  /\ LET s == SearchTree(nodes, root, k) IN
       /\ s.found
       /\ nodes[s.at.node].vals[s.at.idx + 1] > 1
       /\ nodes' = [nodes EXCEPT ![s.at.node].vals[s.at.idx + 1] = @ - 1]
  /\ UNCHANGED <<root, length, counted, program, op, panicked>>

(* dealloc_extra_large of the last block: the count becomes 0, and         *)
(* remove_kv takes the pair away and pops a root that has become empty.    *)
DeallocLast(k) ==
  /\ Idle /\ k \in program.loose /\ root # None
  /\ LET s == SearchTree(nodes, root, k)
         out == RemoveKv(nodes, counted, s.at)
     IN /\ s.found
        /\ nodes[s.at.node].vals[s.at.idx + 1] = 1
        /\ IF out.emptied
           THEN /\ nodes' = PopInternalLevel(out.nodes, root)
                /\ root' = Child(out.nodes, root, 0)
                /\ counted' = DecForSize(out.counted, INTERNAL_SIZE)
           ELSE /\ nodes' = out.nodes
                /\ counted' = out.counted
                /\ UNCHANGED root
  /\ length' = length - 1
  /\ UNCHANGED <<program, op, panicked>>

(* clear, which the tests use: the fields are reset, then the walk.        *)
Clear ==
  /\ Idle /\ root # None
  /\ nodes' = DyingNext(nodes, FirstLeafEdge(nodes, root), length)
  /\ root' = None
  /\ length' = 0
  /\ counted' = NotCounted
  /\ UNCHANGED <<program, op, panicked>>

(* force_become_null: all memory of the allocator, in which the nodes are, *)
(* is about to be unmapped.  try_free_all_memory comes here only when no   *)
(* size is left.                                                           *)
ForceBecomeNull ==
  /\ Idle /\ root # None /\ length = 0
  /\ nodes' = [n \in Nodes |-> Unused]
  /\ root' = None
  /\ length' = 0
  /\ counted' = NotCounted
  /\ UNCHANGED <<program, op, panicked>>

Next ==
  \/ \E k \in Keys : AllocExtraLarge(k) \/ DeallocOne(k) \/ DeallocLast(k)
  \/ InsertFirst \/ InsertFits \/ InsertSplits \/ PushInternalLevel \/ NodeFails
  \/ Clear \/ ForceBecomeNull

Spec == Init /\ [][Next]_vars

-----------------------------------------------------------------------------
AtRest == op = <<>> /\ ~panicked

NodeType ==
  [height : Nat, keys : Seq(Keys), vals : Seq(Nat), edges : Seq(Nodes),
   parent : Nodes \union {None}, parent_idx : Nat]

(* The state of the map has the types of its fields, and a node has as     *)
(* many values as keys and, above the leaves, one edge more.               *)
TypeOK ==
  /\ DOMAIN nodes = Nodes
  /\ \A n \in Used :
       /\ nodes[n] \in NodeType
       /\ Len(nodes[n].vals) = LenOf(nodes, n)
       /\ Len(nodes[n].edges) = IF nodes[n].height = 0 THEN 0 ELSE LenOf(nodes, n) + 1
  /\ root \in Used \union {None}
  /\ length \in Nat
  /\ \A i \in 1 .. 2 : counted[i] \in [size : {0, LEAF_SIZE, INTERNAL_SIZE}, number : Nat]
  /\ panicked \in BOOLEAN

(* What the map stands for: the pairs in nodes and those on their way.     *)
Pairs(keys, vals) == {<<keys[i], vals[i]>> : i \in DOMAIN keys}
Contents ==
  UNION {Pairs(nodes[n].keys, nodes[n].vals) : n \in Used}
    \union {<<f.key, f.val>> : f \in Range(op)}

Map == INSTANCE SizeMap WITH
         map <- Contents,
         MaxUsed <- CHOOSE n \in Range(Copies) : \A x \in Range(Copies) : x <= n

(* The tree implements the map its users see: through splits, merges and   *)
(* steals no pair is lost, doubled or mixed up with the value of another,  *)
(* at any step.                                                            *)
KeepsMap == Map!Spec

(* Every operation has its effect on the size it is called for, when it is *)
(* called: what an insertion moves on its way up changes no count, and     *)
(* after a steal or a merge has moved the pair to remove,                  *)
(* remove_internal_kv still finds it and replaces no other.                *)
RightSize ==
  [][\A k \in Keys :
       /\ AllocExtraLarge(k) => Map!Record(k)
       /\ DeallocOne(k) \/ DeallocLast(k) => Map!Forget(k)
       /\ op # <<>> => UNCHANGED Contents]_vars

RECURSIVE Subtree(_)
Subtree(n) == {n} \union UNION {Subtree(c) : c \in Range(nodes[n].edges)}

(* The invariants that map.rs and node.rs state of a tree, when no         *)
(* operation is in progress: uniform height, lengths between MIN_LEN and   *)
(* CAPACITY below the root, and every link to a parent names the edge that *)
(* leads to the node.                                                      *)
Balanced ==
  AtRest /\ root # None =>
    /\ nodes[root].parent = None
    /\ nodes[root].height > 0 => LenOf(nodes, root) > 0
    /\ \A n \in Subtree(root) :
         /\ LenOf(nodes, n) <= CAPACITY
         /\ n # root => LenOf(nodes, n) >= MIN_LEN
         /\ nodes[n].height > 0 =>
              \A i \in 0 .. LenOf(nodes, n) :
                /\ nodes[Child(nodes, n, i)].height = nodes[n].height - 1
                /\ Parent(nodes, Child(nodes, n, i)) = At(n, i)

(* Iteration, which follows links to parents and counts with length,       *)
(* yields each size in use once, in ascending order, and the search for a  *)
(* size finds it exactly when it is in use: InfoForSizeIter and the entry  *)
(* API see the same map.                                                   *)
IterInOrder ==
  AtRest =>
    LET pairs == Iter
        sizes == {e[1] : e \in Contents}
    IN /\ Len(pairs) = length
       /\ Range(pairs) = Contents
       /\ \A i \in 1 .. Len(pairs) - 1 : pairs[i][1] < pairs[i + 1][1]
       /\ root # None => {k \in Keys : SearchTree(nodes, root, k).found} = sizes

(* allocated_memory, from which try_free_all_memory knows what of the      *)
(* memory in use is its own, counts the nodes of each size while a tree    *)
(* exists, and when no operation is in progress all of these are reached   *)
(* from the root: no node leaks.                                           *)
NodesAccounted ==
  /\ root # None =>
       \A size \in {LEAF_SIZE, INTERNAL_SIZE} :
         Cardinality({n \in Used : SizeAt(nodes[n].height) = size}) =
           LET at == {i \in 1 .. 2 : counted[i].size = size}
           IN IF at = {} THEN 0 ELSE counted[CHOOSE i \in at : TRUE].number
  /\ AtRest => Used = IF root = None THEN {} ELSE Subtree(root)
=============================================================================
