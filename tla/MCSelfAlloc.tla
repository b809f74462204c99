----------------------------- MODULE MCSelfAlloc ------------------------------
(***************************************************************************)
(* Constants for SelfAlloc: both chunk tables are of a large size, as in   *)
(* the code (8 is above COMMON_SIZE_MAX), and a State has a class of its   *)
(* own.  Its size is that of its class in self_alloc, and less than that   *)
(* in self_alloc_stride.                                                   *)
(***************************************************************************)
EXTENDS SelfAlloc

TableSizes == [c \in {"common", "large"} |-> 8]

(* A State is of a class that the allocator asks for nothing else of: not  *)
(* for the non-local pointer manager, nor for a table, nor for the buffer  *)
(* of a vector.  It is so in the code: with regions of 32 MB a State has   *)
(* about 14400 bytes and the class of 14848, the tables are smaller, and   *)
(* buffers are powers of two rounded up to a class.                        *)
ASSUME StateSizeApart ==
  RecommendedSize(SIZE_OF_STATE) \notin
    {SIZE_OF_NLPM} \union {SizeOfTable[c] : c \in Classes}
      \union {RecommendedSize(NextPowerOfTwo(n)) : n \in 1 .. 24}
=============================================================================
