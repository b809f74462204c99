-------------------------------- MODULE Sizes --------------------------------
(***************************************************************************)
(* sizes/: from the size a program asks for to the vector of free objects  *)
(* it is served from and the size of the objects in it.  The functions are *)
(* evaluated for one size after the other.                                 *)
(***************************************************************************)
EXTENDS Naturals, Sequences, FiniteSetsExt

CONSTANTS Starts,    \* where the walk through the sizes begins
          Stride,    \* its step
          LastSize   \* and its bound

ASSUME WalkAssumption ==
  Starts \subseteq 1 .. LastSize /\ Stride \in Nat \ {0} /\ LastSize \in Nat

VARIABLE size   \* the size asked for

COMMON_SIZE_MAX == 1024
LARGE_SIZE_MAX == 100 * 1024
LARGE_CHUNK_SIZE == 512 * 1024

(* SizeClass::define                                                       *)
Define(n) == IF n <= COMMON_SIZE_MAX THEN "Common"
             ELSE IF n <= LARGE_SIZE_MAX THEN "Large" ELSE "ExtraLarge"

(* common_size_to_index: (size - 1) >> 3                                   *)
CommonSizeToIndex(n) == (n - 1) \div 8

(* Mistaken: size in place of size - 1.                                    *)
FindLargeSlotIdOfSize(n) ==
  LET b == CHOOSE k \in 4 .. 29 : 2^k <= n /\ n < 2^(k + 1)
  IN 16 * b + ((n \div 2^(b - 4)) % 16)

(* Four bits after the leading one of size - 1.                            *)
FindLargeSlotId(n) ==
  LET b == CHOOSE k \in 4 .. 29 : 2^k <= n - 1 /\ n - 1 < 2^(k + 1)
  IN 16 * b + (((n - 1) \div 2^(b - 4)) % 16)

FIRST_ID == 160

(* LARGE_SIZES_FOR_ID from FIRST_ID on.                                    *)
LargeSizesForId == <<
  1088, 1152, 1216, 1280, 1344, 1408, 1472, 1536, 1600, 1664, 1728, 1792, 1856, 1920,
  1984, 2048, 2176, 2304, 2432, 2560, 2688, 2816, 2944, 3072, 3200, 3328, 3456, 3584,
  3712, 3840, 3968, 4096, 4352, 4608, 4864, 5120, 5376, 5632, 5888, 6144, 6400, 6656,
  6912, 7168, 7424, 7680, 7936, 8192, 8704, 9216, 9728, 10240, 10752, 11264, 11776,
  12288, 12800, 13312, 13824, 14336, 14848, 15360, 15872, 16384, 17408, 18432, 19456,
  20480, 21504, 22528, 23552, 24576, 25600, 26624, 28672, 28672, 30720, 30720, 32768,
  32768, 34816, 36864, 38912, 43008, 43008, 47104, 47104, 51200, 51200, 57344, 57344,
  57344, 65536, 65536, 65536, 65536, 73728, 73728, 86016, 86016, 86016, 102400, 102400,
  102400, 102400 >>

LARGE_SIZES_FOR_ID(id) == LargeSizesForId[id - FIRST_ID + 1]

(* LOOKUP_TABLE from FIRST_ID on.                                          *)
LookupTable ==
  [i \in 1 .. 75 |-> i - 1] \o
  <<74, 75, 75, 76, 76, 77, 78, 79, 80, 80, 81, 81, 82, 82, 83, 83, 83, 84, 84, 84,
    84, 85, 85, 86, 86, 86, 87, 87, 87, 87>>

LOOKUP_TABLE(id) == LookupTable[id - FIRST_ID + 1]

(* The distinct entries of LARGE_SIZES_FOR_ID, in their order; indices     *)
(* begin at 0 in the code.                                                 *)
FirstOfRun == {i \in DOMAIN LargeSizesForId :
                 i = 1 \/ LargeSizesForId[i] # LargeSizesForId[i - 1]}
(* Mistaken: the first run is skipped.                                     *)
RealLargeSizesFromSecond(idx) ==
  LargeSizesForId[CHOOSE i \in FirstOfRun : Cardinality({j \in FirstOfRun : j < i}) = idx + 1]
REAL_LARGE_SIZES(idx) ==
  LargeSizesForId[CHOOSE i \in FirstOfRun : Cardinality({j \in FirstOfRun : j < i}) = idx]

IsPowerOfTwo(n) == \E k \in 0 .. 29 : 2^k = n

(* large_size_to_id_and_real_size: powers of two are looked up in a table  *)
(* of their own and served exactly.                                        *)
LargeSizeToIdAndRealSize(n) ==
  LET id == FindLargeSlotId(n) IN
  IF IsPowerOfTwo(n) THEN <<id, n>> ELSE <<id, LARGE_SIZES_FOR_ID(id)>>

(* Mistaken: multiples of 8 are rounded up too.                            *)
RecommendedSizeNext(n) ==
  CASE Define(n) = "Common" -> (n \div 8 + 1) * 8
    [] Define(n) = "Large" -> LargeSizeToIdAndRealSize(n)[2]
    [] OTHER -> n

RecommendedSize(n) ==
  CASE Define(n) = "Common" -> ((n + 7) \div 8) * 8
    [] Define(n) = "Large" -> LargeSizeToIdAndRealSize(n)[2]
    [] OTHER -> n

(* The vector an object of size n is taken from and goes back to, as       *)
(* alloc_common/alloc_large and dealloc_common/dealloc_large find it.      *)
VectorOf(n) ==
  CASE Define(n) = "Common" -> <<"Common", CommonSizeToIndex(n)>>
    [] Define(n) = "Large" -> <<"Large", LOOKUP_TABLE(LargeSizeToIdAndRealSize(n)[1])>>
    [] OTHER -> <<"ExtraLarge", n>>

(* The size of the objects that InfoForSizeIter reckons with.              *)
SizeOfElem(v) ==
  CASE v[1] = "Common" -> (v[2] + 1) * 8
    [] v[1] = "Large" -> REAL_LARGE_SIZES(v[2])
    [] OTHER -> v[2]

Init == size \in Starts
Walk == size + Stride <= LastSize /\ size' = size + Stride
Next == Walk
Spec == Init /\ [][Next]_size

-----------------------------------------------------------------------------
(* The objects of a vector are all of one size, the one the statistics     *)
(* divide the chunk by, and as large as any request served from it: sizes  *)
(* that reach a vector by the power-of-two shortcut and by the tables are  *)
(* carved, counted and handed out alike.                                   *)
OneSizePerVector ==
  /\ SizeOfElem(VectorOf(size)) = RecommendedSize(size)
  /\ RecommendedSize(size) >= size

(* The allocator's own vectors ask for the recommended size and give that  *)
(* size back: it leads to the same vector, and recommends itself.          *)
RoundingIsStable ==
  LET n == RecommendedSize(size) IN
  /\ VectorOf(n) = VectorOf(size)
  /\ RecommendedSize(n) = n

(* Against the definition: among the slot sizes with four bits after the   *)
(* leading one, LARGE_SIZES_FOR_ID chooses the largest that yields as many *)
(* objects per chunk as the smallest one that fits.                        *)
SlotSizes == {2^b + (q + 1) * 2^(b - 4) : b \in 10 .. 16, q \in 0 .. 15}
BestSlot(n) ==
  LET fit == Min({s \in SlotSizes : s >= n})
  IN Max({s \in SlotSizes : /\ s <= LARGE_SIZE_MAX
                            /\ LARGE_CHUNK_SIZE \div s = LARGE_CHUNK_SIZE \div fit})
TablesAreOptimal ==
  Define(size) = "Large" => RecommendedSize(size) = BestSlot(size)
=============================================================================
