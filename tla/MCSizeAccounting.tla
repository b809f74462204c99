-------------------------- MODULE MCSizeAccounting ---------------------------
(* Instances of SizeAccounting: classes are sizes of objects.              *)
EXTENDS SizeAccounting

Common == 64 * 1024   \* COMMON_CHUNK_SIZE
Large == 512 * 1024   \* LARGE_CHUNK_SIZE
MCChunkSize == [c \in Classes |-> IF c <= 1024 THEN Common ELSE Large]
MCElemSize == [c \in Classes |-> c]
=============================================================================
