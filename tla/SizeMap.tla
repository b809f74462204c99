------------------------------- MODULE SizeMap -------------------------------
(***************************************************************************)
(* What a thread-local allocator expects of allocated_large_sizes: how     *)
(* many blocks of each extra-large size it has in use.                     *)
(***************************************************************************)
EXTENDS Naturals

CONSTANTS Keys,     \* extra-large sizes
          MaxUsed   \* bound on the number of blocks of a size

VARIABLE map   \* pairs of a size and the number of blocks, which is not 0

Init == map = {}

Absent(k) == \A e \in map : e[1] # k

(* entry(size).and_modify(+ 1).or_insert(1)                                *)
Record(k) ==
  \/ Absent(k) /\ map' = map \union {<<k, 1>>}
  \/ \E n \in 1 .. MaxUsed - 1 :
       <<k, n>> \in map /\ map' = (map \ {<<k, n>>}) \union {<<k, n + 1>>}

(* entry(size).and_modify(- 1), and remove(size) when it was the last.     *)
Forget(k) ==
  \/ <<k, 1>> \in map /\ map' = map \ {<<k, 1>>}
  \/ \E n \in 2 .. MaxUsed :
       <<k, n>> \in map /\ map' = (map \ {<<k, n>>}) \union {<<k, n - 1>>}

Clear == map' = {}

Next == (\E k \in Keys : Record(k) \/ Forget(k)) \/ Clear

Spec == Init /\ [][Next]_map
=============================================================================
