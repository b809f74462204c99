----------------------------- MODULE UsedObjects -----------------------------
(***************************************************************************)
(* UsedObjectsFixed: numbers of objects by size, in an array sorted by     *)
(* size that lives on the stack, because it is filled while the allocator  *)
(* must not allocate.                                                      *)
(***************************************************************************)
EXTENDS Naturals, Sequences

NewUsedObjects == <<>>

(* binary_search: the index of the size, or else the one to insert it at   *)
(* (indices start at 0 in the code and at 1 here).                         *)
BinarySearch(arr, real_size) ==
  LET ranges == (1 .. Len(arr) + 1) \X (1 .. Len(arr) + 1)
      search[range \in ranges] ==
        LET low == range[1]
            high == range[2]
            mid == (low + high) \div 2 IN
        IF low >= high THEN [found |-> FALSE, at |-> low]
        ELSE IF arr[mid].size < real_size THEN search[<<mid + 1, high>>]
        ELSE IF arr[mid].size > real_size THEN search[<<low, mid>>]
        ELSE [found |-> TRUE, at |-> mid]
  IN search[<<1, Len(arr) + 1>>]

(* Mistaken: the sizes from there on are not moved up.                     *)
WriteOverNeighbour(arr, hit, real_size, n) ==
  IF hit.found THEN [arr EXCEPT ![hit.at].number = @ + n]
  ELSE SubSeq(arr, 1, hit.at - 1) \o <<[number |-> n, size |-> real_size]>>
       \o SubSeq(arr, hit.at + 1, Len(arr))

(* write_used_number_and_size                                              *)
WriteAt(arr, hit, real_size, n) ==
  IF hit.found THEN [arr EXCEPT ![hit.at].number = @ + n]
  ELSE SubSeq(arr, 1, hit.at - 1) \o <<[number |-> n, size |-> real_size]>>
       \o SubSeq(arr, hit.at, Len(arr))
WriteUsedNumberAndSize(arr, real_size, n) ==
  IF real_size = 0 \/ n = 0 THEN arr
  ELSE WriteAt(arr, BinarySearch(arr, real_size), real_size, n)

(* find_size, with 0 for a size that is not there.                         *)
NumberAt(arr, hit) == IF hit.found THEN arr[hit.at].number ELSE 0
FindSize(arr, real_size) == NumberAt(arr, BinarySearch(arr, real_size))
=============================================================================
