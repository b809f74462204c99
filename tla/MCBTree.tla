------------------------------- MODULE MCBTree -------------------------------
(* Constants for BTree.                                                    *)
EXTENDS BTree

MCCopies == [k \in Keys |-> IF k = 3 THEN 2 ELSE 1]

Upwards(n) == [i \in 1 .. n |-> i]

(* Anything with a few sizes; and trees with three levels, from which a    *)
(* part on the left or on the right is taken away and put back.            *)
MCPrograms ==
  {[load |-> <<>>, loose |-> 1 .. 7],
   [load |-> Upwards(14), loose |-> 1 .. 6],
   [load |-> Upwards(14), loose |-> 7 .. 12]}
=============================================================================
