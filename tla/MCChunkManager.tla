--------------------------- MODULE MCChunkManager ----------------------------
(* Instances of ChunkManager; regions are interchangeable.                 *)
EXTENDS ChunkManager
Symmetry == Permutations(Regions)
=============================================================================
