--------------------------- MODULE SelfAllocProofs ---------------------------
(***************************************************************************)
(* SelfAlloc, for every value of its constants: how the calls nest, what   *)
(* the States they hold may be used for, and what a panic comes from.      *)
(*                                                                         *)
(* Base is the inductive invariant: the types, with what each call on the  *)
(* stack knows of the State it works on (StackOK), what a call may find    *)
(* that another returned to it (Answers), and a region for each State of a *)
(* chain (Regionwise).  A lemma for each step shows that it is kept.       *)
(***************************************************************************)
EXTENDS SelfAlloc, UsedObjectsProofs, SequenceTheorems

-----------------------------------------------------------------------------
(* Types                                                                   *)

Ptr == Nat \ {0}
OwnSizes == Sizes \union {SIZE_OF_STATE}

VecSet == [ptr : Nat, cap : Nat, items : Seq(Ptr)]
UsedSet == [size : OwnSizes, ptr : Ptr, slots : Nat]
StateSet == [region : Ptr, at : Nat, used : [Classes -> Seq(UsedSet)], free : [Classes -> Seq(Ptr)]]
TaskSet == [v : Vectors, slot : {<<>>} \union (Classes \X Nat), add : Nat, counted : BOOLEAN]
RetSet == [ptr : Nat, grew : BOOLEAN, err : BOOLEAN]

ReserveSet ==
  [f : {"reserve"}, at : {"test", "got", "retry", "freed"}, v : Vectors, add : Nat,
   put : Seq(Ptr), st : Nat, counted : BOOLEAN, min_cap : Nat, cap : Nat]
AllocSet ==
  [f : {"alloc"}, at : {"pop", "check", "split", "putback", "extended", "have", "pushed", "carved",
                        "slow", "handled"},
   size : Sizes, st : Nat, counted : BOOLEAN, own : BOOLEAN, chunk : Nat, large : Nat]
HandleSet ==
  [f : {"handle"}, at : {"nlpm", "inited", "reserve", "boxed", "reserved", "commit", "dealloc"},
   k : Nat, phase : 0 .. 7, todo : Seq(TaskSet), more : BOOLEAN, to_dealloc : Seq(Ptr)]
ProgramSet == [f : {"program"}, at : {"alloc"}, size : UserSizes]
FrameSet == ReserveSet \union AllocSet \union HandleSet \union ProgramSet

(* A buffer of cap elements is not larger than every size.                 *)
Fits(v, cap) == cap # 0 /\ \E s \in Sizes : cap * SizeOfElem(v) <= s

(* A call that has a chunk in hand.                                        *)
HasChunk(frame) ==
  frame.f = "alloc" =>
    /\ frame.at \in {"split", "putback", "extended", "have", "pushed", "carved"}
         => frame.chunk \in Ptr
    /\ frame.at \in {"putback", "extended"} => frame.large \in Ptr

(* A vector that grows.                                                    *)
HasCap(frame) ==
  frame.f = "reserve" =>
    /\ frame.at = "got" => Fits(frame.v, frame.cap)
    /\ frame.at = "retry" => frame.min_cap # 0

(* The phases of a pass have tasks, and those name places of the State.    *)
InPass(frame, chs) ==
  frame.f = "handle" =>
    /\ frame.at \in {"boxed", "reserved"} => frame.todo # <<>>
    /\ frame.todo # <<>> => frame.phase \in 1 .. 7 /\ frame.at \notin {"commit", "dealloc"}
    /\ frame.at = "boxed" => frame.phase \in {3, 4}
    /\ frame.at # "dealloc" => chs[frame.k] # <<>>
    /\ \A n \in DOMAIN frame.todo :
         LET slot == frame.todo[n].slot IN
         slot # <<>> => slot[2] \in DOMAIN chs[frame.k][1].used[slot[1]]

(* The chain a call works on, or 0.                                        *)
ChainOf(frame) ==
  CASE frame.f = "handle" -> frame.k
    [] frame.f = "program" -> 0
    [] OTHER -> frame.st

FrameOK(frame, chs) ==
  /\ frame \in FrameSet
  /\ HasChunk(frame) /\ HasCap(frame) /\ InPass(frame, chs)
  /\ ChainOf(frame) \in 0 .. Len(chs)
  /\ frame.f # "handle" /\ ChainOf(frame) # 0 => chs[ChainOf(frame)] # <<>>
  /\ frame.f = "handle" => frame.k # 0

(* Which call is made at which place.                                      *)
Calls(p, c) ==
  \/ p.f = "program" /\ c.f = "alloc"
  \/ p.f = "reserve" /\ p.at = "got" /\ c.f = "alloc"
  \/ p.f = "reserve" /\ p.at \in {"retry", "freed"} /\ c.f = "reserve"
  \/ p.f = "alloc" /\ p.at \in {"check", "putback", "extended", "pushed", "carved"} /\ c.f = "reserve"
  \/ p.f = "alloc" /\ p.at \in {"split", "have", "handled"} /\ c.f = "handle"
  \/ p.f = "handle" /\ p.at \in {"inited", "boxed"} /\ c.f = "alloc"
  \/ p.f = "handle" /\ p.at \in {"reserved", "dealloc"} /\ c.f = "reserve"

(* The same call at another place.                                         *)
Same(c, d) == d.f = c.f /\ ChainOf(d) = ChainOf(c)

(* The calls nest: each has been made by the one below it, a handle_state  *)
(* works on a chain of its own, which is younger than those of the calls   *)
(* below it, and every chain has one.                                      *)
Nested(fs, n) ==
  /\ fs # <<>> => fs[1].f # "alloc"
  /\ \A i \in 1 .. Len(fs) - 1 : Calls(fs[i], fs[i + 1])
  /\ \A i \in 1 .. Len(fs) : fs[i].f = "handle" => \A j \in 1 .. i - 1 : ChainOf(fs[j]) < fs[i].k
  /\ \A k \in 1 .. n : \E i \in 1 .. Len(fs) : fs[i].f = "handle" /\ fs[i].k = k

ChainsOK(chs) ==
  /\ chs \in Seq(Seq(StateSet))
  /\ \A k \in 1 .. Len(chs) : \A i \in 2 .. Len(chs[k]) : chs[k][i].at # 0

StackOK(fs, chs) ==
  /\ fs \in Seq(FrameSet)
  /\ \A i \in 1 .. Len(fs) : FrameOK(fs[i], chs)
  /\ Nested(fs, Len(chs))

VecsOK(vs) ==
  /\ vs \in [Vectors -> VecSet]
  /\ \A v \in Vectors : vs[v].cap # 0 => vs[v].ptr # 0 /\ Fits(v, vs[v].cap)

UserSet == [ptr : Ptr, size : UserSizes]
DroppedSet == [ptr : Ptr, size : Nat]

TypeOK ==
  /\ limit \in Nat
  /\ VecsOK(vecs)
  /\ nlpm \in Nat
  /\ table \in [Classes -> Nat]
  /\ ChainsOK(chains)
  /\ ret \in RetSet
  /\ mapped \in Nat
  /\ dropped \subseteq DroppedSet
  /\ user \subseteq UserSet
  /\ panicked \in BOOLEAN
  /\ ops \in Nat

(* No buffer is asked for that is larger than every size: the code takes   *)
(* such a buffer from the system, which is not in SelfAlloc.               *)
WithinSizes == \A i \in DOMAIN frames : frames[i].f = "alloc" => frames[i].size \in Sizes

(* The places of a call that wait for memory.                              *)
Receives(frame) ==
  \/ frame.f = "program"
  \/ frame.f = "reserve" /\ frame.at = "got"
  \/ frame.f = "handle" /\ frame.at \in {"inited", "boxed"}

(* What is returned is meant for the call on top; there is no memory only  *)
(* when the limit is reached.                                              *)
Answers(fs, rt, m, lim, pn) ==
  /\ rt.ptr # 0 => fs # <<>> /\ Receives(Last(fs))
  /\ rt.err = TRUE => m >= lim
  /\ \A i \in 1 .. Len(fs) :
       fs[i].f = "alloc" /\ fs[i].at = "handled" /\ fs[i].chunk = 0 => m >= lim
  /\ fs # <<>> /\ pn = FALSE /\ Last(fs).f # "program" /\ Receives(Last(fs)) /\ rt.ptr = 0
       => m >= lim

(* Every State of a chain has a region.                                    *)
Regionwise(fs, chs, m) ==
  \A i \in 1 .. Len(fs) : fs[i].f = "handle" =>
     Len(fs[i].to_dealloc) + Len(chs[fs[i].k]) <= m

Base ==
  /\ TypeOK
  /\ StackOK(frames, chains)
  /\ Answers(frames, ret, mapped, limit, panicked)
  /\ Regionwise(frames, chains, mapped)

(* A panic at the commit comes from more States than to_dealloc has room   *)
(* for, which take as many regions; any other comes from the limit.        *)
PanicsRightly ==
  panicked = TRUE => IF Top.at = "commit" THEN mapped > MAX_STATES + 1 ELSE mapped >= limit

-----------------------------------------------------------------------------
(* Facts about sequences and numbers                                       *)

(* The numbers of the elements of a sequence.                              *)
LEMMA Indices ==
  ASSUME NEW S, NEW s \in Seq(S)
  PROVE  /\ Len(s) \in Nat /\ DOMAIN s = 1 .. Len(s)
         /\ \A i \in 1 .. Len(s) : s[i] \in S
         /\ s # <<>> <=> Len(s) # 0
  BY LenProperties, ElementOfSeq, EmptySeq

(* What is left of a stack when its top is taken.                          *)
LEMMA Ends ==
  ASSUME NEW S, NEW s \in Seq(S), s # <<>>
  PROVE  /\ Len(s) \in Nat \ {0}
         /\ Last(s) = s[Len(s)] /\ Last(s) \in S
         /\ Front(s) \in Seq(S) /\ Len(Front(s)) = Len(s) - 1
         /\ \A i \in 1 .. Len(s) - 1 : Front(s)[i] = s[i]
<1>1. Len(s) \in Nat \ {0}
  BY EmptySeq, LenProperties
<1>2. Last(s) = s[Len(s)] /\ s[Len(s)] \in S
  BY <1>1, ElementOfSeq DEF Last
<1> DEFINE n == Len(s) - 1
<1>3. Front(s) = SubSeq(s, 1, n)
  BY DEF Front
<1>4. n \in Nat /\ \A i \in 1 .. n : s[i] \in S
  BY <1>1, ElementOfSeq
<1> HIDE DEF n
<1>5. /\ SubSeq(s, 1, n) \in Seq(S) /\ Len(SubSeq(s, 1, n)) = (IF 1 <= n THEN n - 1 + 1 ELSE 0)
      /\ \A i \in 1 .. n - 1 + 1 : SubSeq(s, 1, n)[i] = s[1 + i - 1]
  BY <1>4, SubSeqProperties
<1>6. Len(Front(s)) = n /\ \A i \in 1 .. n : Front(s)[i] = s[i]
  BY <1>3, <1>4, <1>5
<1> QED BY <1>1, <1>2, <1>3, <1>5, <1>6 DEF n

(* What is left when the first element is taken.                           *)
LEMMA TailIs ==
  ASSUME NEW S, NEW s \in Seq(S), s # <<>>
  PROVE  /\ Head(s) = s[1] /\ Head(s) \in S
         /\ Tail(s) \in Seq(S) /\ Len(Tail(s)) = Len(s) - 1
         /\ \A i \in 1 .. Len(s) - 1 : Tail(s)[i] = s[i + 1]
  BY HeadTailProperties

(* One element more.                                                       *)
LEMMA AppendIs ==
  ASSUME NEW S, NEW s \in Seq(S), NEW e \in S
  PROVE  /\ Append(s, e) \in Seq(S) /\ Len(Append(s, e)) = Len(s) + 1
         /\ \A i \in 1 .. Len(s) : Append(s, e)[i] = s[i]
         /\ Append(s, e)[Len(s) + 1] = e
  BY AppendProperties

(* One sequence after another.                                             *)
LEMMA ConcatIs ==
  ASSUME NEW S, NEW s \in Seq(S), NEW t \in Seq(S)
  PROVE  /\ s \o t \in Seq(S) /\ Len(s \o t) = Len(s) + Len(t)
         /\ \A i \in 1 .. Len(s) : (s \o t)[i] = s[i]
         /\ \A i \in 1 .. Len(t) : (s \o t)[Len(s) + i] = t[i]
<1>1. Len(s) \in Nat /\ Len(t) \in Nat
  BY LenProperties
<1>2. /\ s \o t \in Seq(S) /\ Len(s \o t) = Len(s) + Len(t)
      /\ \A i \in 1 .. Len(s) + Len(t) :
           (s \o t)[i] = IF i <= Len(s) THEN s[i] ELSE t[i - Len(s)]
  BY ConcatProperties
<1> QED BY <1>1, <1>2

(* A function on 1 .. n is a sequence.                                     *)
LEMMA MapIs ==
  ASSUME NEW S, NEW n, n \in Nat, NEW f, f \in [1 .. n -> S]
  PROVE  f \in Seq(S) /\ Len(f) = n
<1>1. f \in Seq(S)
  BY SeqDef
<1> QED BY <1>1, LenProperties

(* Pointers at equal distances.                                            *)
LEMMA StrideIs ==
  ASSUME NEW from \in Ptr, NEW step \in Nat, NEW n \in Nat
  PROVE  /\ Stride(from, step, n) \in Seq(Ptr) /\ Len(Stride(from, step, n)) = n
         /\ \A i \in 1 .. n : Stride(from, step, n)[i] = from + (i - 1) * step
<1>1. \A i \in 1 .. n : from + (i - 1) * step \in Ptr
  <2> SUFFICES ASSUME NEW i \in 1 .. n PROVE from + (i - 1) * step \in Ptr
    OBVIOUS
  <2>1. i - 1 \in Nat
    OBVIOUS
  <2>2. (i - 1) * step \in Nat
    BY <2>1
  <2> QED BY <2>2 DEF Ptr
<1>2. Stride(from, step, n) \in [1 .. n -> Ptr]
  BY <1>1 DEF Stride
<1>3. Stride(from, step, n) \in Seq(Ptr)
  BY <1>2, SeqDef
<1>4. Len(Stride(from, step, n)) = n
  BY <1>2, <1>3, LenProperties
<1> QED BY <1>3, <1>4 DEF Stride

(* How often a number goes into another.                                   *)
LEMMA DivIs ==
  ASSUME NEW a \in Nat, NEW b \in Nat \ {0}
  PROVE  /\ a \div b \in Nat
         /\ (a \div b) * b <= a
         /\ a >= b => a \div b # 0
<1>1. a = b * (a \div b) + (a % b) /\ a % b \in 0 .. b - 1 /\ a \div b \in Int
  OBVIOUS
<1>2. a \div b >= 0
  <2>1. ASSUME a \div b <= 0 - 1 PROVE FALSE
    <3>1. b * (a \div b) <= 0 - b
      BY <2>1, <1>1
    <3> QED BY <3>1, <1>1
  <2> QED BY <2>1, <1>1
<1>3. (a \div b) * b <= a
  BY <1>1
<1>4. a >= b => a \div b # 0
  BY <1>1
<1> QED BY <1>1, <1>2, <1>3, <1>4

(* The constants.                                                          *)
LEMMA Constants ==
  /\ COMMON_CHUNK_SIZE \in Nat \ {0}
  /\ COMMON_CHUNKS_IN_LARGE_CHUNK \in Nat \ {0, 1}
  /\ LARGE_CHUNKS_IN_REGION \in Nat \ {0, 1}
  /\ OwnSizes \subseteq Nat \ {0} /\ Sizes \subseteq OwnSizes /\ SIZE_OF_STATE \in OwnSizes
  /\ SIZE_OF_NLPM \in Sizes /\ UserSizes \subseteq Sizes
  /\ \A c \in Classes : SizeOfTable[c] \in Sizes
  /\ SIZE_OF_REGION_VIEW \in Nat \ {0}
  /\ MAX_STATES \in Nat /\ Limits \subseteq Nat /\ COMMON_SIZE_MAX \in Nat
  /\ LARGE_CHUNK_SIZE \in Nat \ {0}
  /\ REGION_SIZE \in Nat \ {0}
<1>1. LARGE_CHUNK_SIZE \in Nat \ {0}
  BY SelfAllocAssumption DEF LARGE_CHUNK_SIZE
<1>2. REGION_SIZE \in Nat \ {0}
  BY <1>1, SelfAllocAssumption DEF REGION_SIZE
<1>3. \A c \in Classes : SizeOfTable[c] \in Sizes
  BY SelfAllocAssumption
<1>4. OwnSizes \subseteq Nat \ {0} /\ Sizes \subseteq OwnSizes /\ SIZE_OF_STATE \in OwnSizes
  BY SelfAllocAssumption DEF OwnSizes
<1> QED BY <1>1, <1>2, <1>3, <1>4, SelfAllocAssumption

(* A chunk has room for one object of its size at least.                   *)
LEMMA PerChunkIs ==
  ASSUME NEW size, size \in OwnSizes
  PROVE  /\ PerChunk(size) \in Nat \ {0}
         /\ PerChunk(size) - 1 \in Nat
         /\ PerChunk(size) * size <= ChunkSize(size)
         /\ Define(size) \in Classes
         /\ ChunkSize(size) \in Nat \ {0}
<1>1. ChunkSize(size) \in Nat \ {0} /\ Define(size) \in Classes
  BY Constants DEF ChunkSize, Define, Classes
<1>2. size \in Nat \ {0} /\ size <= ChunkSize(size)
  BY Constants, SelfAllocAssumption DEF OwnSizes
<1> DEFINE a == ChunkSize(size)
<1>3. a \div size \in Nat /\ (a \div size) * size <= a /\ a \div size # 0
  <2>1. a \in Nat /\ a >= size
    BY <1>1, <1>2
  <2> HIDE DEF a
  <2> QED BY <2>1, <1>2, DivIs
<1> QED BY <1>1, <1>3 DEF PerChunk

(* The size an object really has: one that is large enough, and has a      *)
(* vector unless there is none so large.                                   *)
LEMMA RecommendedIs ==
  ASSUME NEW size, size \in Nat \ {0}
  PROVE  /\ RecommendedSize(size) \in Nat \ {0}
         /\ RecommendedSize(size) >= size
         /\ (\E s \in Sizes : size <= s) => RecommendedSize(size) \in Sizes
<1>1. Sizes \subseteq Nat \ {0}
  BY SelfAllocAssumption
<1>2. CASE \A s \in Sizes : s < size
  BY <1>1, <1>2 DEF RecommendedSize
<1>3. CASE \E s \in Sizes : size <= s
  <2> DEFINE T == {s \in Sizes : s >= size}
  <2>1. T \subseteq Nat /\ T # {}
    BY <1>1, <1>3
  <2>2. \E x \in T : \A y \in T : x <= y
    <3> HIDE DEF T
    <3> QED BY <2>1, Least
  <2>3. \E x \in Sizes : x >= size /\ \A t \in Sizes : t >= size => x <= t
    BY <2>2
  <2>4. ~ (size = 0 \/ \A s \in Sizes : s < size)
    BY <1>1, <1>3
  <2> DEFINE r == CHOOSE s \in Sizes : s >= size /\ \A t \in Sizes : t >= size => s <= t
  <2>5. r \in Sizes /\ r >= size
    BY <2>3
  <2>6. RecommendedSize(size) = r
    BY <2>4 DEF RecommendedSize
  <2> HIDE DEF r
  <2> QED BY <2>5, <2>6, <1>1
<1> QED BY <1>1, <1>2, <1>3

(* What double of NextPowerOfTwo satisfies, for one number and for all.    *)
DoubleAt(h, n, p) == h[p] = IF p >= n THEN p ELSE h[2 * p]
Doubles(h, n) == h = [p \in Nat |-> IF p >= n THEN p ELSE h[2 * p]]

(* There is such a function: it is found from n downwards.                 *)
LEMMA DoublesExists ==
  ASSUME NEW n \in Nat
  PROVE  \E h : Doubles(h, n)
<1> DEFINE From(g, m) == \A p \in Nat \ {0} : p + m >= n => DoubleAt(g, n, p)
           S == {m \in 0 .. n : \E g \in [Nat -> Nat] : From(g, m)}
<1>1. 0 \in S
  <2> DEFINE g == [p \in Nat |-> p]
  <2>1. g \in [Nat -> Nat] /\ From(g, 0)
    BY DEF DoubleAt
  <2> HIDE DEF g
  <2> QED BY <2>1
<1>2. ASSUME NEW m \in 0 .. n, m + 1 <= n, m \in S PROVE m + 1 \in S
  <2>1. PICK g \in [Nat -> Nat] : From(g, m)
    BY <1>2
  <2> DEFINE q == n - (m + 1)
             h == [p \in Nat |-> IF p = q THEN g[2 * q] ELSE g[p]]
  <2>2. q \in Nat /\ q < n /\ 2 * q \in Nat
    BY <1>2
  <2>3. h \in [Nat -> Nat]
    BY <2>2
  <2>4. ASSUME NEW p \in Nat \ {0}, p + (m + 1) >= n PROVE DoubleAt(h, n, p)
    <3>1. CASE p = q
      <4>1. 2 * p \in Nat /\ 2 * p # q /\ ~ (p >= n)
        BY <3>1, <2>2
      <4>2. h[p] = g[2 * p] /\ h[2 * p] = g[2 * p]
        BY <4>1, <3>1
      <4> HIDE DEF h, q
      <4> QED BY <4>1, <4>2 DEF DoubleAt
    <3>2. CASE p # q
      <4>1. p + m >= n /\ 2 * p \in Nat /\ 2 * p # q
        BY <3>2, <2>4, <2>2
      <4>2. DoubleAt(g, n, p)
        BY <4>1, <2>1
      <4>3. h[p] = g[p] /\ h[2 * p] = g[2 * p]
        BY <4>1, <3>2
      <4> HIDE DEF h, q
      <4> QED BY <4>2, <4>3 DEF DoubleAt
    <3> QED BY <3>1, <3>2
  <2> HIDE DEF h
  <2>5. m + 1 \in 0 .. n
    BY <1>2
  <2> QED BY <2>3, <2>4, <2>5
<1>3. n \in S
  <2> HIDE DEF S
  <2>1. \A m \in 0 .. n : m \in S
    BY <1>1, <1>2, UpTo
  <2> QED BY <2>1
<1>4. PICK g \in [Nat -> Nat] : From(g, n)
  BY <1>3
<1> DEFINE h == [p \in Nat |-> IF p = 0 THEN 0 ELSE g[p]]
<1>5. ASSUME NEW p \in Nat PROVE h[p] = IF p >= n THEN p ELSE h[2 * p]
  <2>1. CASE p = 0
    BY <2>1
  <2>2. CASE p # 0
    <3>1. p + n >= n /\ 2 * p \in Nat /\ 2 * p # 0
      BY <2>2
    <3>2. DoubleAt(g, n, p)
      BY <3>1, <2>2, <1>4
    <3>3. h[p] = g[p] /\ h[2 * p] = g[2 * p]
      BY <3>1, <2>2
    <3> QED BY <3>2, <3>3 DEF DoubleAt
  <2> QED BY <2>1, <2>2
<1>6. h = [p \in Nat |-> h[p]]
  OBVIOUS
<1> HIDE DEF h
<1>7. h = [p \in Nat |-> IF p >= n THEN p ELSE h[2 * p]]
  BY <1>5, <1>6
<1> QED BY <1>7 DEF Doubles

(* The power of two is large enough.                                       *)
LEMMA NextPowerIs ==
  ASSUME NEW n \in Nat
  PROVE  NextPowerOfTwo(n) \in Nat /\ NextPowerOfTwo(n) >= n
<1> DEFINE f == CHOOSE h : Doubles(h, n)
<1>1. Doubles(f, n)
  BY DoublesExists
<1>2. NextPowerOfTwo(n) = f[1]
  BY DEF NextPowerOfTwo, Doubles
<1> HIDE DEF f
<1>3. ASSUME NEW p \in Nat PROVE f[p] = IF p >= n THEN p ELSE f[2 * p]
  BY <1>1, <1>3 DEF Doubles
<1> DEFINE S == {m \in 0 .. n : \A p \in Nat \ {0} : p + m >= n => f[p] \in Nat /\ f[p] >= n}
<1>4. 0 \in S
  BY <1>3
<1>5. ASSUME NEW m \in 0 .. n, m + 1 <= n, m \in S PROVE m + 1 \in S
  <2>1. ASSUME NEW p \in Nat \ {0}, p + (m + 1) >= n PROVE f[p] \in Nat /\ f[p] >= n
    <3>1. CASE p >= n
      BY <3>1, <1>3
    <3>2. CASE ~ (p >= n)
      <4>1. 2 * p \in Nat \ {0} /\ 2 * p + m >= n
        BY <2>1
      <4>2. f[2 * p] \in Nat /\ f[2 * p] >= n
        BY <4>1, <1>5
      <4>3. f[p] = f[2 * p]
        BY <3>2, <1>3
      <4> QED BY <4>2, <4>3
    <3> QED BY <3>1, <3>2
  <2> QED BY <2>1, <1>5
<1>6. n \in S
  <2> HIDE DEF S
  <2>1. \A m \in 0 .. n : m \in S
    BY <1>4, <1>5, UpTo
  <2> QED BY <2>1
<1>7. 1 + n >= n
  OBVIOUS
<1> QED BY <1>2, <1>6, <1>7

-----------------------------------------------------------------------------
(* What the functions of State do to a chain                               *)

WorkSet == [chain : Seq(StateSet), mapped : Nat, dropped : SUBSET DroppedSet, owner : Nat, ptr : Nat]

(* A State keeps its memory and its used chunks; a chain becomes longer    *)
(* by as many States as regions are mapped, each with memory of its own.   *)
StateGrows(s, t) ==
  /\ t.at = s.at /\ t.region = s.region
  /\ \A c \in Classes : Len(s.used[c]) <= Len(t.used[c])
Grows(w, x) ==
  /\ Len(w.chain) <= Len(x.chain)
  /\ x.mapped + Len(w.chain) = w.mapped + Len(x.chain)
  /\ \A i \in 1 .. Len(w.chain) : StateGrows(w.chain[i], x.chain[i])
  /\ \A i \in Len(w.chain) + 1 .. Len(x.chain) : x.chain[i].at # 0

(* The fields of a State and of a Work.                                    *)
LEMMA StateIs ==
  ASSUME NEW s, s \in StateSet
  PROVE  /\ s.region \in Ptr /\ s.at \in Nat
         /\ \A c \in Classes : s.used[c] \in Seq(UsedSet) /\ Len(s.used[c]) \in Nat
         /\ \A c \in Classes : s.free[c] \in Seq(Ptr) /\ Len(s.free[c]) \in Nat
<1>1. /\ s.region \in Ptr /\ s.at \in Nat
      /\ s.used \in [Classes -> Seq(UsedSet)] /\ s.free \in [Classes -> Seq(Ptr)]
  BY DEF StateSet
<1>2. /\ \A c \in Classes : s.used[c] \in Seq(UsedSet)
      /\ \A c \in Classes : s.free[c] \in Seq(Ptr)
  BY <1>1
<1> QED BY <1>1, <1>2, Indices

(* The parts of what State's functions work on.                            *)
LEMMA WorkIs ==
  ASSUME NEW w, w \in WorkSet
  PROVE  /\ w.chain \in Seq(StateSet) /\ Len(w.chain) \in Nat /\ DOMAIN w.chain = 1 .. Len(w.chain)
         /\ \A i \in 1 .. Len(w.chain) : w.chain[i] \in StateSet
         /\ w.mapped \in Nat /\ w.dropped \subseteq DroppedSet /\ w.owner \in Nat /\ w.ptr \in Nat
<1>1. /\ w.chain \in Seq(StateSet)
      /\ w.mapped \in Nat /\ w.dropped \subseteq DroppedSet /\ w.owner \in Nat /\ w.ptr \in Nat
  BY DEF WorkSet
<1> QED BY <1>1, Indices

(* One element of a sequence is replaced.                                  *)
LEMMA PutIs ==
  ASSUME NEW S, NEW s \in Seq(S), NEW i, i \in 1 .. Len(s), NEW e \in S
  PROVE  /\ [s EXCEPT ![i] = e] \in Seq(S) /\ Len([s EXCEPT ![i] = e]) = Len(s)
         /\ [s EXCEPT ![i] = e][i] = e
         /\ \A j \in 1 .. Len(s) : j # i => [s EXCEPT ![i] = e][j] = s[j]
<1>1. Len(s) \in Nat /\ DOMAIN s = 1 .. Len(s) /\ s \in [1 .. Len(s) -> S]
  BY LenProperties
<1> DEFINE t == [s EXCEPT ![i] = e]
<1>2. t \in [1 .. Len(s) -> S] /\ t[i] = e /\ \A j \in 1 .. Len(s) : j # i => t[j] = s[j]
  BY <1>1
<1> HIDE DEF t
<1>3. t \in Seq(S)
  BY <1>1, <1>2, SeqDef
<1>4. Len(t) = Len(s)
  BY <1>1, <1>2, <1>3, LenProperties
<1> QED BY <1>2, <1>3, <1>4 DEF t

(* Growing is reflexive and transitive.                                    *)
LEMMA GrowsSame ==
  ASSUME NEW w, w \in WorkSet, NEW x, x \in WorkSet, x.chain = w.chain, x.mapped = w.mapped
  PROVE  Grows(w, x)
<1>1. \A i \in 1 .. Len(w.chain) : StateGrows(w.chain[i], w.chain[i])
  BY WorkIs, StateIs DEF StateGrows
<1> QED BY <1>1, WorkIs DEF Grows

(* Two steps of growth are one.                                            *)
LEMMA GrowsTrans ==
  ASSUME NEW w, w \in WorkSet, NEW x, x \in WorkSet, NEW y, y \in WorkSet, Grows(w, x), Grows(x, y)
  PROVE  Grows(w, y)
<1>1. Len(w.chain) \in Nat /\ Len(x.chain) \in Nat /\ Len(y.chain) \in Nat
      /\ w.mapped \in Nat /\ x.mapped \in Nat /\ y.mapped \in Nat
  BY WorkIs
<1>2. Len(w.chain) <= Len(y.chain) /\ y.mapped + Len(w.chain) = w.mapped + Len(y.chain)
  <2>1. /\ Len(w.chain) <= Len(x.chain) /\ x.mapped + Len(w.chain) = w.mapped + Len(x.chain)
        /\ Len(x.chain) <= Len(y.chain) /\ y.mapped + Len(x.chain) = x.mapped + Len(y.chain)
    BY DEF Grows
  <2> DEFINE a == Len(w.chain)
             b == Len(x.chain)
             c == Len(y.chain)
  <2>2. /\ a \in Nat /\ b \in Nat /\ c \in Nat /\ a <= b /\ b <= c
        /\ x.mapped + a = w.mapped + b /\ y.mapped + b = x.mapped + c
    BY <1>1, <2>1
  <2>3. w.mapped \in Nat /\ x.mapped \in Nat /\ y.mapped \in Nat
    BY <1>1
  <2> HIDE DEF a, b, c
  <2>4. a <= c /\ y.mapped + a = w.mapped + c
    BY <2>2, <2>3
  <2> QED BY <2>4 DEF a, c
<1>3. ASSUME NEW i \in 1 .. Len(w.chain) PROVE StateGrows(w.chain[i], y.chain[i])
  <2>1. i \in 1 .. Len(x.chain) /\ i \in 1 .. Len(y.chain)
    BY <1>1, <1>3 DEF Grows
  <2>2. StateGrows(w.chain[i], x.chain[i]) /\ StateGrows(x.chain[i], y.chain[i])
    BY <2>1, <1>3 DEF Grows
  <2>3. w.chain[i] \in StateSet /\ x.chain[i] \in StateSet /\ y.chain[i] \in StateSet
    BY <2>1, <1>3, WorkIs
  <2>4. \A c \in Classes : Len(w.chain[i].used[c]) \in Nat /\ Len(x.chain[i].used[c]) \in Nat
                           /\ Len(y.chain[i].used[c]) \in Nat
    BY <2>3, StateIs
  <2>5. ASSUME NEW c \in Classes PROVE Len(w.chain[i].used[c]) <= Len(y.chain[i].used[c])
    <3>1. /\ Len(w.chain[i].used[c]) <= Len(x.chain[i].used[c])
          /\ Len(x.chain[i].used[c]) <= Len(y.chain[i].used[c])
      BY <2>2 DEF StateGrows
    <3> DEFINE m == Len(w.chain[i].used[c])
               n == Len(x.chain[i].used[c])
               o == Len(y.chain[i].used[c])
    <3>2. m \in Nat /\ n \in Nat /\ o \in Nat /\ m <= n /\ n <= o
      BY <3>1, <2>4
    <3> HIDE DEF m, n, o
    <3>3. m <= o
      BY <3>2
    <3> QED BY <3>3 DEF m, o
  <2> QED BY <2>2, <2>5 DEF StateGrows
<1>4. ASSUME NEW i \in Len(w.chain) + 1 .. Len(y.chain) PROVE y.chain[i].at # 0
  <2>1. CASE i \in Len(x.chain) + 1 .. Len(y.chain)
    BY <2>1 DEF Grows
  <2>2. CASE i \in Len(w.chain) + 1 .. Len(x.chain)
    <3>1. i \in 1 .. Len(x.chain)
      BY <1>1, <2>2
    <3> QED BY <2>2, <3>1 DEF Grows, StateGrows
  <2> QED BY <1>1, <1>4, <2>1, <2>2
<1> QED BY <1>2, <1>3, <1>4 DEF Grows

(* A State of the chain is changed in place.                               *)
LEMMA GrowsPut ==
  ASSUME NEW w, w \in WorkSet, NEW i, i \in 1 .. Len(w.chain),
         NEW x, x \in WorkSet, Len(x.chain) = Len(w.chain), x.mapped = w.mapped,
         StateGrows(w.chain[i], x.chain[i]),
         \A j \in 1 .. Len(w.chain) : j # i => x.chain[j] = w.chain[j]
  PROVE  Grows(w, x)
<1>1. w.chain \in Seq(StateSet) /\ Len(w.chain) \in Nat /\ w.mapped \in Nat
  BY WorkIs
<1>2. ASSUME NEW j \in 1 .. Len(w.chain) PROVE StateGrows(w.chain[j], x.chain[j])
  <2>1. CASE j = i
    BY <2>1
  <2>2. CASE j # i
    <3>1. x.chain[j] = w.chain[j]
      BY <2>2
    <3> QED BY <3>1, WorkIs, StateIs DEF StateGrows
  <2> QED BY <2>1, <2>2
<1> QED BY <1>1, <1>2 DEF Grows

(* A chunk is taken from the free ones of a State.                         *)
LEMMA PopChunkIs ==
  ASSUME NEW w, w \in WorkSet, NEW i, i \in 1 .. Len(w.chain), NEW class, class \in Classes,
         w.chain[i].free[class] # <<>>
  PROVE  /\ PopChunk(w, i, class) \in WorkSet
         /\ Grows(w, PopChunk(w, i, class))
         /\ PopChunk(w, i, class).owner = i
         /\ PopChunk(w, i, class).ptr \in Ptr
         /\ PopChunk(w, i, class).mapped = w.mapped
         /\ Len(PopChunk(w, i, class).chain) = Len(w.chain)
         /\ PopChunk(w, i, class).chain[i].at = w.chain[i].at
         /\ PopChunk(w, i, class).chain[i].free[class] = Front(w.chain[i].free[class])
         /\ \A c \in Classes \ {class} : PopChunk(w, i, class).chain[i].free[c] = w.chain[i].free[c]
<1> DEFINE s == w.chain[i]
           t == [s EXCEPT !.free[class] = Front(@)]
           x == PopChunk(w, i, class)
<1>1. s \in StateSet /\ s.free[class] \in Seq(Ptr) /\ s.free[class] # <<>>
  BY WorkIs, StateIs
<1>2. Front(s.free[class]) \in Seq(Ptr) /\ Last(s.free[class]) \in Ptr
  BY <1>1, Ends
<1>3. t \in StateSet
  BY <1>1, <1>2 DEF StateSet
<1>4. /\ t.at = s.at /\ t.region = s.region /\ t.used = s.used
      /\ t.free[class] = Front(s.free[class])
      /\ \A c \in Classes \ {class} : t.free[c] = s.free[c]
  BY <1>1 DEF StateSet
<1>5. StateGrows(s, t)
  BY <1>1, <1>4, StateIs DEF StateGrows
<1>6. i \in Nat /\ Ptr \subseteq Nat
  BY WorkIs DEF Ptr
<1>7. /\ x.chain = [w.chain EXCEPT ![i] = t] /\ x.mapped = w.mapped /\ x.dropped = w.dropped
      /\ x.owner = i /\ x.ptr = Last(s.free[class])
  BY DEF PopChunk, WorkSet
<1>7a. x = [w EXCEPT !.owner = i, !.ptr = Last(s.free[class]), !.chain = [w.chain EXCEPT ![i] = t]]
  BY DEF PopChunk, WorkSet
<1> HIDE DEF x, t, s
<1>8. [w.chain EXCEPT ![i] = t] \in Seq(StateSet)
  BY <1>3, WorkIs, PutIs
<1>9. x \in WorkSet
  BY <1>2, <1>6, <1>7a, <1>8 DEF WorkSet
<1>10. /\ Len(x.chain) = Len(w.chain) /\ x.chain[i] = t
       /\ \A j \in 1 .. Len(w.chain) : j # i => x.chain[j] = w.chain[j]
  BY <1>3, <1>7, WorkIs, PutIs
<1>11. Grows(w, x)
  <2>1. StateGrows(w.chain[i], x.chain[i]) /\ x.mapped = w.mapped
    BY <1>5, <1>7, <1>10 DEF s
  <2> QED BY <2>1, <1>9, <1>10, GrowsPut
<1> QED BY <1>2, <1>4, <1>7, <1>9, <1>10, <1>11 DEF x, s

(* A chunk in hand is recorded as used, and gives its last object.         *)
LEMMA UseChunkIs ==
  ASSUME NEW w, w \in WorkSet, w.owner \in 1 .. Len(w.chain), w.ptr \in Ptr,
         NEW size, size \in OwnSizes
  PROVE  /\ UseChunk(w, size) \in WorkSet
         /\ Grows(w, UseChunk(w, size))
         /\ UseChunk(w, size).ptr \in Ptr
         /\ UseChunk(w, size).mapped = w.mapped
         /\ Len(UseChunk(w, size).chain) = Len(w.chain)
         /\ UseChunk(w, size).chain[w.owner].at = w.chain[w.owner].at
         /\ UseChunk(w, size).chain[w.owner].free = w.chain[w.owner].free
<1> DEFINE i == w.owner
           c == Define(size)
           s == w.chain[i]
           u == [size |-> size, ptr |-> w.ptr, slots |-> PerChunk(size) - 1]
           t == [s EXCEPT !.used[c] = Append(@, u)]
           p == w.ptr + size * (PerChunk(size) - 1)
           x == UseChunk(w, size)
<1>1. s \in StateSet /\ c \in Classes /\ s.used[c] \in Seq(UsedSet) /\ Len(s.used[c]) \in Nat
  BY WorkIs, StateIs, PerChunkIs
<1>2. u \in UsedSet /\ p \in Ptr /\ Ptr \subseteq Nat
  <2>1. PerChunk(size) - 1 \in Nat /\ size \in Nat
    BY PerChunkIs, Constants
  <2>2. size * (PerChunk(size) - 1) \in Nat
    BY <2>1
  <2> QED BY <2>1, <2>2 DEF UsedSet, Ptr
<1>3. Append(s.used[c], u) \in Seq(UsedSet) /\ Len(Append(s.used[c], u)) = Len(s.used[c]) + 1
  <2> HIDE DEF u, c, s
  <2> QED BY <1>1, <1>2, AppendIs
<1> HIDE DEF u, c
<1>4. t \in StateSet
  BY <1>1, <1>3 DEF StateSet
<1>5. /\ t.at = s.at /\ t.region = s.region /\ t.free = s.free
      /\ t.used[c] = Append(s.used[c], u)
      /\ \A d \in Classes \ {c} : t.used[d] = s.used[d]
  BY <1>1 DEF StateSet
<1> HIDE DEF t
<1>6. StateGrows(s, t)
  <2>1. ASSUME NEW d \in Classes PROVE Len(s.used[d]) <= Len(t.used[d])
    <3>1. CASE d = c
      <4> DEFINE m == Len(s.used[c])
      <4>1. m \in Nat /\ Len(t.used[d]) = m + 1
        BY <3>1, <1>1, <1>3, <1>5
      <4> HIDE DEF m
      <4>2. m <= Len(t.used[d])
        BY <4>1
      <4> QED BY <4>2, <3>1 DEF m
    <3>2. CASE d # c
      BY <3>2, <1>1, <1>5, StateIs
    <3> QED BY <3>1, <3>2
  <2> QED BY <2>1, <1>5 DEF StateGrows
<1>7. i # 0 /\ i \in 1 .. Len(w.chain)
  BY WorkIs
<1>8. /\ x.chain = [w.chain EXCEPT ![i] = t] /\ x.mapped = w.mapped /\ x.ptr = p
      /\ x = [w EXCEPT !.chain = [w.chain EXCEPT ![i] = t], !.ptr = p]
  BY <1>7 DEF UseChunk, WorkSet, t, u, c
<1> HIDE DEF x, s, p, i
<1>9. [w.chain EXCEPT ![i] = t] \in Seq(StateSet)
  BY <1>4, <1>7, WorkIs, PutIs
<1>10. x \in WorkSet
  BY <1>2, <1>8, <1>9 DEF WorkSet
<1>11. /\ Len(x.chain) = Len(w.chain) /\ x.chain[i] = t
       /\ \A j \in 1 .. Len(w.chain) : j # i => x.chain[j] = w.chain[j]
  BY <1>4, <1>7, <1>8, WorkIs, PutIs
<1>12. Grows(w, x)
  <2>1. StateGrows(w.chain[i], x.chain[i]) /\ x.mapped = w.mapped
    BY <1>6, <1>8, <1>11 DEF s
  <2> QED BY <2>1, <1>7, <1>10, <1>11, GrowsPut
<1> QED BY <1>2, <1>5, <1>8, <1>10, <1>11, <1>12 DEF x, s, i

(* Of pairs of numbers one is the first.                                   *)
LEMMA FirstPair ==
  ASSUME NEW H, H # {}, \A h \in H : h[1] \in Nat /\ h[2] \in Nat
  PROVE  \E h \in H : \A g \in H : h[1] < g[1] \/ (h[1] = g[1] /\ h[2] <= g[2])
<1> DEFINE A == {h[1] : h \in H}
<1>1. A \subseteq Nat /\ A # {}
  OBVIOUS
<1>2. PICK a \in A : \A b \in A : a <= b
  <2> HIDE DEF A
  <2> QED BY <1>1, Least
<1> DEFINE B == {h[2] : h \in {g \in H : g[1] = a}}
<1>3. B \subseteq Nat /\ B # {}
  OBVIOUS
<1>4. PICK b \in B : \A c \in B : b <= c
  <2> HIDE DEF B
  <2> QED BY <1>3, Least
<1>5. PICK h \in H : h[1] = a /\ h[2] = b
  OBVIOUS
<1>6. ASSUME NEW g \in H PROVE h[1] < g[1] \/ (h[1] = g[1] /\ h[2] <= g[2])
  <2>1. g[1] \in A /\ a \in Nat /\ g[1] \in Nat
    BY <1>1
  <2>2. a <= g[1]
    BY <1>2, <2>1
  <2>3. CASE g[1] = a
    <3>1. g[2] \in B
      BY <2>3
    <3> QED BY <3>1, <2>3, <1>4, <1>5
  <2> QED BY <2>1, <2>2, <2>3, <1>5
<1> QED BY <1>6

(* What a hit is.                                                          *)
LEMMA HitsAre ==
  ASSUME NEW w, w \in WorkSet, NEW size, size \in OwnSizes, NEW h, h \in Hits(w.chain, size)
  PROVE  /\ h[1] \in 1 .. Len(w.chain) /\ h[1] \in Nat
         /\ h[2] \in 1 .. Len(w.chain[h[1]].used[Define(size)]) /\ h[2] \in Nat
         /\ w.chain[h[1]].used[Define(size)][h[2]] \in UsedSet
         /\ w.chain[h[1]].used[Define(size)][h[2]].size = size
         /\ w.chain[h[1]].used[Define(size)][h[2]].slots # 0
<1> DEFINE c == Define(size)
<1>0. c \in Classes
  BY PerChunkIs
<1>1. /\ h \in UNION {{i} \X DOMAIN w.chain[i].used[c] : i \in DOMAIN w.chain}
      /\ w.chain[h[1]].used[c][h[2]].size = size
      /\ w.chain[h[1]].used[c][h[2]].slots # 0
  BY DEF Hits
<1> HIDE DEF c
<1>2. PICK i \in DOMAIN w.chain : h \in {i} \X DOMAIN w.chain[i].used[c]
  BY <1>1
<1>3. h[1] = i /\ h[2] \in DOMAIN w.chain[i].used[c]
  BY <1>2
<1>4. i \in 1 .. Len(w.chain) /\ i \in Nat
  BY <1>2, WorkIs
<1>5. w.chain[i].used[c] \in Seq(UsedSet)
  BY <1>4, <1>0, WorkIs, StateIs
<1>6. DOMAIN w.chain[i].used[c] = 1 .. Len(w.chain[i].used[c]) /\ Len(w.chain[i].used[c]) \in Nat
      /\ \A j \in 1 .. Len(w.chain[i].used[c]) : w.chain[i].used[c][j] \in UsedSet
  BY <1>5, Indices
<1> QED BY <1>1, <1>3, <1>4, <1>6 DEF c

(* try_alloc_size gives an object of a used chunk, or none.                *)
LEMMA TryAllocIs ==
  ASSUME NEW w, w \in WorkSet, NEW size, size \in OwnSizes
  PROVE  /\ TryAllocSize(w, size) \in WorkSet
         /\ Grows(w, TryAllocSize(w, size))
         /\ TryAllocSize(w, size).mapped = w.mapped
         /\ Len(TryAllocSize(w, size).chain) = Len(w.chain)
<1> DEFINE H == Hits(w.chain, size)
           x == TryAllocSize(w, size)
           c == Define(size)
<1>0. c \in Classes /\ size \in Nat
  BY PerChunkIs, Constants
<1>1. CASE H = {}
  <2>1. x = [w EXCEPT !.ptr = 0]
    BY <1>1 DEF TryAllocSize, TakeSlot
  <2> HIDE DEF x
  <2>2. x \in WorkSet /\ x.chain = w.chain /\ x.mapped = w.mapped
    BY <2>1 DEF WorkSet
  <2> QED BY <2>2, GrowsSame DEF x
<1>2. CASE H # {}
  <2> DEFINE h == CHOOSE h \in H : \A g \in H : h[1] < g[1] \/ (h[1] = g[1] /\ h[2] <= g[2])
             i == h[1]
             j == h[2]
             s == w.chain[i]
             u == s.used[c][j]
             v == [u EXCEPT !.slots = @ - 1]
             t == [s EXCEPT !.used[c] = [s.used[c] EXCEPT ![j] = v]]
             p == u.ptr + size * (u.slots - 1)
  <2>1. h \in H
    <3>1. \A g \in H : g[1] \in Nat /\ g[2] \in Nat
      BY HitsAre
    <3>2. \E g \in H : \A f \in H : g[1] < f[1] \/ (g[1] = f[1] /\ g[2] <= f[2])
      <4> HIDE DEF H
      <4> QED BY <3>1, <1>2, FirstPair, SMTT(40)
    <3> QED BY <3>2
  <2>2. /\ x.chain = [w.chain EXCEPT ![i] = t] /\ x.mapped = w.mapped
        /\ x = [w EXCEPT !.chain = [w.chain EXCEPT ![i] = t], !.ptr = p]
    BY <1>2 DEF TryAllocSize, TakeSlot, WorkSet
  <2> HIDE DEF h, H, x
  <2>3. i \in 1 .. Len(w.chain) /\ j \in 1 .. Len(s.used[c]) /\ u \in UsedSet /\ u.slots # 0
    BY <2>1, HitsAre DEF H
  <2> HIDE DEF i, j, c, u
  <2>4. s \in StateSet /\ s.used[c] \in Seq(UsedSet)
    BY <2>3, <1>0, WorkIs, StateIs
  <2>5. v \in UsedSet /\ p \in Nat
    <3>1. u.slots \in Nat \ {0} /\ u.ptr \in Nat
      BY <2>3 DEF UsedSet, Ptr
    <3>2. u.slots - 1 \in Nat
      BY <3>1
    <3>3. size * (u.slots - 1) \in Nat
      BY <3>2, <1>0
    <3>4. p \in Nat
      BY <3>1, <3>3
    <3>5. v \in UsedSet
      BY <2>3, <3>2 DEF UsedSet
    <3> QED BY <3>4, <3>5
  <2> HIDE DEF v, p, s
  <2>6. [s.used[c] EXCEPT ![j] = v] \in Seq(UsedSet) /\ Len([s.used[c] EXCEPT ![j] = v]) = Len(s.used[c])
    BY <2>3, <2>4, <2>5, PutIs
  <2>7. t \in StateSet
    BY <2>4, <2>6, <1>0 DEF StateSet
  <2>8. /\ t.at = s.at /\ t.region = s.region /\ t.free = s.free
        /\ t.used[c] = [s.used[c] EXCEPT ![j] = v]
        /\ \A d \in Classes \ {c} : t.used[d] = s.used[d]
    BY <2>4, <1>0 DEF StateSet
  <2> HIDE DEF t
  <2>9. StateGrows(s, t)
    <3>1. ASSUME NEW d \in Classes PROVE Len(s.used[d]) <= Len(t.used[d])
      <4>1. Len(t.used[d]) = Len(s.used[d])
        BY <2>6, <2>8
      <4> QED BY <4>1, <2>4, StateIs
    <3> QED BY <3>1, <2>8 DEF StateGrows
  <2>10. [w.chain EXCEPT ![i] = t] \in Seq(StateSet)
    BY <2>3, <2>7, WorkIs, PutIs
  <2>11. x \in WorkSet
    BY <2>2, <2>5, <2>10 DEF WorkSet
  <2>12. /\ Len(x.chain) = Len(w.chain) /\ x.chain[i] = t
         /\ \A k \in 1 .. Len(w.chain) : k # i => x.chain[k] = w.chain[k]
    BY <2>2, <2>3, <2>7, WorkIs, PutIs
  <2>13. Grows(w, x)
    <3>1. StateGrows(w.chain[i], x.chain[i]) /\ x.mapped = w.mapped
      BY <2>2, <2>9, <2>12 DEF s
    <3> QED BY <3>1, <2>3, <2>11, <2>12, GrowsPut
  <2> QED BY <2>2, <2>11, <2>12, <2>13 DEF x
<1> QED BY <1>1, <1>2

(* A new State: no chunk is used yet, and there are free ones.             *)
LEMMA FromRegionIs ==
  ASSUME NEW region, region \in Ptr
  PROVE  /\ FromRegion(region) \in StateSet
         /\ FromRegion(region).at = 0
         /\ \A c \in Classes : FromRegion(region).used[c] = <<>>
         /\ \A c \in Classes : FromRegion(region).free[c] # <<>>
         /\ Len(FromRegion(region).free["large"]) = LARGE_CHUNKS_IN_REGION
<1> DEFINE c == Stride(region + COMMON_CHUNK_SIZE, COMMON_CHUNK_SIZE, COMMON_CHUNKS_IN_LARGE_CHUNK - 1)
           l == Stride(region + LARGE_CHUNK_SIZE, LARGE_CHUNK_SIZE, LARGE_CHUNKS_IN_REGION)
           f == [common |-> c, large |-> l]
<1>1. /\ region + COMMON_CHUNK_SIZE \in Ptr /\ region + LARGE_CHUNK_SIZE \in Ptr
      /\ COMMON_CHUNK_SIZE \in Nat /\ LARGE_CHUNK_SIZE \in Nat
      /\ COMMON_CHUNKS_IN_LARGE_CHUNK - 1 \in Nat /\ COMMON_CHUNKS_IN_LARGE_CHUNK - 1 # 0
      /\ LARGE_CHUNKS_IN_REGION \in Nat /\ LARGE_CHUNKS_IN_REGION # 0
  BY Constants DEF Ptr
<1>2. c \in Seq(Ptr) /\ Len(c) # 0 /\ l \in Seq(Ptr) /\ Len(l) = LARGE_CHUNKS_IN_REGION
  BY <1>1, StrideIs
<1>3. c # <<>> /\ l # <<>>
  BY <1>1, <1>2, EmptySeq
<1> HIDE DEF c, l
<1>4. f \in [Classes -> Seq(Ptr)] /\ \A d \in Classes : f[d] # <<>>
  BY <1>2, <1>3 DEF Classes
<1>5. [d \in Classes |-> <<>>] \in [Classes -> Seq(UsedSet)]
  BY EmptySeq
<1>6. FromRegion(region) = [region |-> region, at |-> 0, used |-> [d \in Classes |-> <<>>], free |-> f]
  BY DEF FromRegion, c, l
<1>7. FromRegion(region) \in StateSet
  <2> HIDE DEF f
  <2> QED BY <1>4, <1>5, <1>6 DEF StateSet
<1>8. FromRegion(region).free["large"] = l
  BY <1>6
<1> QED BY <1>2, <1>4, <1>6, <1>7, <1>8

(* A State in the memory of its own region.                                *)
LEMMA InItselfIs ==
  ASSUME mapped \in Nat, dropped \subseteq DroppedSet, NEW region, region \in Ptr
  PROVE  /\ InItself(FromRegion(region)).ptr \in Ptr
         /\ InItself(FromRegion(region)).chain[1] \in StateSet
         /\ InItself(FromRegion(region)).chain[1].free["large"] # <<>>
<1> DEFINE s == FromRegion(region)
           c == Define(SIZE_OF_STATE)
           w == Work(<<s>>)
           x == PopChunk(w, 1, c)
           y == UseChunk(x, SIZE_OF_STATE)
<1>1. /\ s \in StateSet /\ \A d \in Classes : s.free[d] # <<>>
      /\ Len(s.free["large"]) = LARGE_CHUNKS_IN_REGION
  BY FromRegionIs
<1>2. c \in Classes /\ SIZE_OF_STATE \in OwnSizes
  BY PerChunkIs, Constants
<1> HIDE DEF s, c
<1>3. w \in WorkSet /\ w.chain = <<s>>
  <2>1. <<s>> \in Seq(StateSet)
    BY <1>1
  <2> QED BY <2>1 DEF Work, WorkSet
<1>4. Len(w.chain) = 1 /\ w.chain[1] = s
  BY <1>3
<1> HIDE DEF w
<1>5. 1 \in 1 .. Len(w.chain) /\ w.chain[1].free[c] # <<>>
  BY <1>1, <1>2, <1>4
<1>6. /\ x \in WorkSet /\ x.owner = 1 /\ x.ptr \in Ptr /\ Len(x.chain) = 1
      /\ x.chain[1].free[c] = Front(s.free[c])
      /\ \A d \in Classes \ {c} : x.chain[1].free[d] = s.free[d]
  <2>1. /\ x \in WorkSet /\ x.owner = 1 /\ x.ptr \in Ptr /\ Len(x.chain) = Len(w.chain)
        /\ x.chain[1].free[c] = Front(w.chain[1].free[c])
        /\ \A d \in Classes \ {c} : x.chain[1].free[d] = w.chain[1].free[d]
    <3> DEFINE k == 1
    <3>1. k \in 1 .. Len(w.chain) /\ w.chain[k].free[c] # <<>>
      BY <1>5
    <3> HIDE DEF k
    <3> DEFINE z == PopChunk(w, k, c)
    <3>2. /\ z \in WorkSet /\ z.owner = k /\ z.ptr \in Ptr /\ Len(z.chain) = Len(w.chain)
          /\ z.chain[k].free[c] = Front(w.chain[k].free[c])
          /\ \A d \in Classes \ {c} : z.chain[k].free[d] = w.chain[k].free[d]
      <4>1. w \in WorkSet /\ c \in Classes
        BY <1>2, <1>3
      <4> QED BY <4>1, <3>1, PopChunkIs
    <3> QED BY <3>2 DEF k
  <2> QED BY <2>1, <1>4
<1>7. x.chain[1].free["large"] # <<>>
  <2>1. CASE c = "large"
    <3>1. s.free["large"] \in Seq(Ptr) /\ s.free["large"] # <<>>
      BY <1>1, StateIs DEF Classes
    <3>2. Front(s.free["large"]) \in Seq(Ptr)
          /\ Len(Front(s.free["large"])) = LARGE_CHUNKS_IN_REGION - 1
      BY <3>1, <1>1, Ends
    <3>3. LARGE_CHUNKS_IN_REGION - 1 # 0
      BY Constants
    <3> QED BY <3>2, <3>3, <2>1, <1>6, EmptySeq
  <2>2. CASE c # "large"
    BY <2>2, <1>1, <1>6 DEF Classes
  <2> QED BY <2>1, <2>2
<1> HIDE DEF x
<1>8. /\ y \in WorkSet /\ y.ptr \in Ptr /\ Len(y.chain) = 1 /\ y.chain[1].free = x.chain[1].free
  <2>1. x.owner \in 1 .. Len(x.chain)
    BY <1>6
  <2>2. /\ y \in WorkSet /\ y.ptr \in Ptr /\ Len(y.chain) = Len(x.chain)
        /\ y.chain[x.owner].free = x.chain[x.owner].free
    BY <2>1, <1>2, <1>6, UseChunkIs
  <2> QED BY <2>2, <1>6
<1>9. y = InItself(FromRegion(region))
  BY DEF InItself, x, w, c, s
<1> HIDE DEF y
<1>10. 1 \in 1 .. Len(y.chain)
  BY <1>8
<1>11. y.chain[1] \in StateSet
  BY <1>8, <1>10, WorkIs
<1> QED BY <1>7, <1>8, <1>9, <1>11

(* One more on both sides.                                                 *)
LEMMA OneMore ==
  ASSUME NEW n, n \in Nat, NEW m, m \in Nat
  PROVE  n <= n + 1 /\ m + 1 + n = m + (n + 1) /\ \A j \in n + 1 .. n + 1 : j = n + 1
  OBVIOUS

(* One State more at the end of the chain.                                 *)
LEMMA GrowsAppend ==
  ASSUME NEW w, w \in WorkSet, NEW s, s \in StateSet, s.at # 0,
         NEW x, x \in WorkSet, x.chain = Append(w.chain, s), x.mapped = w.mapped + 1
  PROVE  Grows(w, x) /\ Len(x.chain) = Len(w.chain) + 1 /\ x.chain[Len(w.chain) + 1] = s
<1> DEFINE n == Len(w.chain)
<1>0. n \in Nat /\ w.mapped \in Nat
  BY WorkIs
<1>1. w.chain \in Seq(StateSet) /\ n \in Nat /\ w.mapped \in Nat
  BY WorkIs
<1>2. /\ Len(x.chain) = n + 1 /\ x.chain[n + 1] = s
      /\ \A j \in 1 .. n : x.chain[j] = w.chain[j]
  BY <1>1, AppendIs
<1>3. ASSUME NEW j \in 1 .. n PROVE StateGrows(w.chain[j], x.chain[j])
  <2>1. x.chain[j] = w.chain[j]
    BY <1>2
  <2> QED BY <2>1, WorkIs, StateIs DEF StateGrows
<1> HIDE DEF n
<1>4. n <= n + 1 /\ w.mapped + 1 + n = w.mapped + (n + 1) /\ \A j \in n + 1 .. n + 1 : j = n + 1
  BY <1>0, OneMore
<1>5. Grows(w, x)
  BY <1>1, <1>2, <1>3, <1>4 DEF Grows, n
<1> QED BY <1>2, <1>5 DEF n

(* alloc_new_state_in, when it may map a region.                           *)
LEMMA NewStateForIs ==
  ASSUME mapped \in Nat, dropped \subseteq DroppedSet, NEW region, region \in Ptr,
         NEW w, w \in WorkSet
  PROVE  LET x == NewStateFor(w, FromRegion(region)) IN
         /\ x \in WorkSet /\ Grows(w, x)
         /\ x.mapped = w.mapped + 1
         /\ x.owner \in 1 .. Len(x.chain)
         /\ x.chain[x.owner].free["large"] # <<>>
<1> DEFINE s == FromRegion(region)
           i == InItself(s)
           y == TryAllocSize(w, SIZE_OF_STATE)
           n == Len(w.chain)
           t == IF y.ptr # 0 THEN [s EXCEPT !.at = y.ptr] ELSE [i.chain[1] EXCEPT !.at = i.ptr]
           x == PlaceState(s, i, y)
<1>1. s \in StateSet /\ s.free["large"] # <<>>
  BY FromRegionIs DEF Classes
<1>2. i.ptr \in Ptr /\ i.chain[1] \in StateSet /\ i.chain[1].free["large"] # <<>>
  BY InItselfIs
<1>3. y \in WorkSet /\ Grows(w, y) /\ y.mapped = w.mapped /\ Len(y.chain) = n
  BY Constants, TryAllocIs
<1>4. y.ptr \in Nat /\ n \in Nat /\ y.chain \in Seq(StateSet) /\ y.mapped \in Nat
  BY <1>3, WorkIs
<1> HIDE DEF s, i, y
<1>5. t \in StateSet /\ t.at # 0 /\ t.free["large"] # <<>>
  <2>1. CASE y.ptr # 0
    <3>1. t = [s EXCEPT !.at = y.ptr]
      BY <2>1
    <3> HIDE DEF t
    <3> QED BY <3>1, <2>1, <1>1, <1>4 DEF StateSet
  <2>2. CASE y.ptr = 0
    <3>1. t = [i.chain[1] EXCEPT !.at = i.ptr]
      BY <2>2
    <3>2. i.ptr \in Nat /\ i.ptr # 0
      BY <1>2 DEF Ptr
    <3> HIDE DEF t
    <3> QED BY <3>1, <3>2, <1>2 DEF StateSet
  <2> QED BY <2>1, <2>2
<1>6. /\ x.chain = Append(y.chain, t) /\ x.mapped = y.mapped + 1 /\ x.owner = n + 1
      /\ x = [y EXCEPT !.mapped = y.mapped + 1, !.owner = n + 1, !.chain = Append(y.chain, t)]
  BY <1>3 DEF PlaceState, WorkSet
<1> HIDE DEF t, x
<1>7. x \in WorkSet
  <2>1. Append(y.chain, t) \in Seq(StateSet) /\ y.mapped + 1 \in Nat /\ n + 1 \in Nat
    <3> HIDE DEF n
    <3> QED BY <1>4, <1>5, AppendIs
  <2> QED BY <2>1, <1>3, <1>6 DEF WorkSet
<1>8. Grows(y, x) /\ Len(x.chain) = n + 1 /\ x.chain[n + 1] = t
  <2>1. x.chain = Append(y.chain, t) /\ x.mapped = y.mapped + 1
    BY <1>6
  <2>2. Grows(y, x) /\ Len(x.chain) = Len(y.chain) + 1 /\ x.chain[Len(y.chain) + 1] = t
    BY <2>1, <1>3, <1>5, <1>7, GrowsAppend, Zenon
  <2> QED BY <2>2, <1>3
<1>9. Grows(w, x)
  BY <1>3, <1>7, <1>8, GrowsTrans
<1>10. x.owner \in 1 .. Len(x.chain)
  BY <1>4, <1>6, <1>8
<1>11. NewStateFor(w, FromRegion(region)) = x
  BY DEF NewStateFor, x, y, i, s
<1> QED BY <1>3, <1>5, <1>6, <1>7, <1>8, <1>9, <1>10, <1>11

(* What the functions below find around them.                              *)
World == mapped \in Nat /\ dropped \subseteq DroppedSet /\ limit \in Nat

(* A chunk in hand, and the State it is of; or none, because the limit is  *)
(* reached.                                                                *)
Got(w, x, counted) ==
  /\ x \in WorkSet /\ Grows(w, x)
  /\ \/ x.owner \in 1 .. Len(x.chain) /\ x.ptr \in Ptr
     \/ x.owner = 0 /\ x.ptr = 0 /\ counted /\ x.mapped >= limit

(* alloc_new_state_in                                                      *)
LEMMA AllocNewStateIs ==
  ASSUME World, NEW w, w \in WorkSet, NEW counted, counted \in BOOLEAN
  PROVE  LET x == AllocNewStateIn(w, counted) IN
         /\ x \in WorkSet /\ Grows(w, x)
         /\ \/ x.owner \in 1 .. Len(x.chain) /\ x.chain[x.owner].free["large"] # <<>>
            \/ x.owner = 0 /\ x.ptr = 0 /\ counted /\ x.mapped >= limit
<1> DEFINE x == AllocNewStateIn(w, counted)
           r == RegionAt(w.mapped + 1)
<1>1. CASE MayMap(w.mapped, counted)
  <2>1. r \in Ptr
    <3>1. w.mapped \in Nat /\ REGION_SIZE \in Nat \ {0}
      BY WorkIs, Constants
    <3> QED BY <3>1 DEF RegionAt, Ptr
  <2>2. x = NewStateFor(w, FromRegion(r))
    BY <1>1 DEF AllocNewStateIn
  <2> HIDE DEF r, x
  <2>3. mapped \in Nat /\ dropped \subseteq DroppedSet
    BY DEF World
  <2>4. x \in WorkSet /\ Grows(w, x) /\ x.owner \in 1 .. Len(x.chain) /\ x.chain[x.owner].free["large"] # <<>>
    BY <2>1, <2>2, <2>3, NewStateForIs
  <2> QED BY <2>4 DEF x
<1>2. CASE ~ MayMap(w.mapped, counted)
  <2>1. x = [w EXCEPT !.owner = 0, !.ptr = 0]
    BY <1>2 DEF AllocNewStateIn
  <2>2. counted /\ ~ (w.mapped < limit)
    BY <1>2 DEF MayMap
  <2>3. w.mapped >= limit
    <3>1. w.mapped \in Nat /\ limit \in Nat
      BY WorkIs DEF World
    <3> QED BY <3>1, <2>2
  <2> HIDE DEF x
  <2>4. x \in WorkSet /\ x.chain = w.chain /\ x.mapped = w.mapped /\ x.owner = 0 /\ x.ptr = 0
    BY <2>1 DEF WorkSet
  <2>5. Grows(w, x)
    BY <2>4, GrowsSame
  <2> QED BY <2>2, <2>3, <2>4, <2>5 DEF x
<1> QED BY <1>1, <1>2

(* The first State with a free chunk.                                      *)
LEMMA FirstWithIs ==
  ASSUME NEW chain, chain \in Seq(StateSet), NEW i, i \in Nat \ {0}, NEW class
  PROVE  \/ /\ FirstWith(chain, i, class) = 0
            /\ \A j \in i .. Len(chain) : chain[j].free[class] = <<>>
         \/ /\ FirstWith(chain, i, class) \in i .. Len(chain)
            /\ FirstWith(chain, i, class) \in 1 .. Len(chain)
            /\ FirstWith(chain, i, class) # 0
            /\ chain[FirstWith(chain, i, class)].free[class] # <<>>
<1> DEFINE have == {j \in i .. Len(chain) : chain[j].free[class] # <<>>}
           f == FirstWith(chain, i, class)
<1>1. CASE have = {}
  BY <1>1 DEF FirstWith
<1>2. CASE have # {}
  <2>1. Len(chain) \in Nat
    BY Indices
  <2>2. have \subseteq Nat
    BY <2>1
  <2>3. f = CHOOSE j \in have : \A k \in have : j <= k
    BY <1>2 DEF FirstWith
  <2>4. \E j \in have : \A k \in have : j <= k
    <3> HIDE DEF have
    <3> QED BY <1>2, <2>2, Least
  <2>5. f \in have
    <3> HIDE DEF have
    <3> QED BY <2>3, <2>4
  <2> HIDE DEF f
  <2>6. f \in i .. Len(chain) /\ chain[f].free[class] # <<>>
    BY <2>5
  <2>7. f \in 1 .. Len(chain) /\ f # 0
    BY <2>1, <2>6
  <2> QED BY <2>6, <2>7 DEF f
<1> QED BY <1>1, <1>2

(* get_free_large_chunk_                                                   *)
LEMMA GetLargeIs ==
  ASSUME World, NEW w, w \in WorkSet, NEW i, i \in Nat \ {0}, NEW counted, counted \in BOOLEAN
  PROVE  Got(w, GetFreeLargeChunk(w, i, counted), counted)
<1> DEFINE j == FirstWith(w.chain, i, "large")
           a == AllocNewStateIn(w, counted)
           x == GetFreeLargeChunk(w, i, counted)
<1>0. "large" \in Classes /\ w.chain \in Seq(StateSet)
  BY WorkIs DEF Classes
<1>1. CASE j # 0
  <2>1. j \in 1 .. Len(w.chain) /\ w.chain[j].free["large"] # <<>>
    BY <1>0, <1>1, FirstWithIs
  <2>2. x = PopChunk(w, j, "large")
    BY <1>1 DEF GetFreeLargeChunk
  <2> HIDE DEF j, x
  <2>3. x \in WorkSet /\ Grows(w, x) /\ x.owner = j /\ x.ptr \in Ptr /\ Len(x.chain) = Len(w.chain)
    BY <2>1, <2>2, <1>0, PopChunkIs
  <2>4. x.owner \in 1 .. Len(x.chain)
    BY <2>1, <2>3
  <2> QED BY <2>3, <2>4 DEF Got, x
<1>2. CASE j = 0
  <2>1. x = PopFrom(a, "large")
    BY <1>2 DEF GetFreeLargeChunk
  <2> HIDE DEF x
  <2>2. /\ a \in WorkSet /\ Grows(w, a)
        /\ \/ a.owner \in 1 .. Len(a.chain) /\ a.chain[a.owner].free["large"] # <<>>
           \/ a.owner = 0 /\ a.ptr = 0 /\ counted /\ a.mapped >= limit
    BY AllocNewStateIs
  <2> HIDE DEF a, j
  <2>3. CASE a.owner = 0
    <3>1. x = a
      BY <2>1, <2>3 DEF PopFrom
    <3>2. a.ptr = 0 /\ counted /\ a.mapped >= limit
      BY <2>2, <2>3, WorkIs
    <3> QED BY <2>2, <2>3, <3>1, <3>2 DEF Got, x
  <2>4. CASE a.owner # 0
    <3> DEFINE o == a.owner
    <3>1. x = PopChunk(a, o, "large")
      BY <2>1, <2>4 DEF PopFrom
    <3>2. o \in 1 .. Len(a.chain) /\ a.chain[o].free["large"] # <<>>
      BY <2>2, <2>4
    <3> HIDE DEF o
    <3>3. x \in WorkSet /\ Grows(a, x) /\ x.owner = o /\ x.ptr \in Ptr /\ Len(x.chain) = Len(a.chain)
      BY <2>2, <3>1, <3>2, <1>0, PopChunkIs
    <3>4. x.owner \in 1 .. Len(x.chain)
      BY <3>2, <3>3
    <3>5. Grows(w, x)
      BY <2>2, <3>3, GrowsTrans
    <3> QED BY <3>3, <3>4, <3>5 DEF Got, x
  <2> QED BY <2>3, <2>4
<1> QED BY <1>1, <1>2

(* A large chunk in hand is split, or given up, where a common one is      *)
(* wanted.                                                                 *)
LEMMA SplitOrDropIs ==
  ASSUME NEW g, g \in WorkSet, g.owner \in 1 .. Len(g.chain), g.ptr \in Ptr
  PROVE  LET x == SplitOrDrop(g) IN
         /\ x \in WorkSet /\ Grows(g, x)
         /\ x.owner = g.owner /\ Len(x.chain) = Len(g.chain)
         /\ x.chain[x.owner].free["common"] # <<>>
<1> DEFINE i == g.owner
           s == g.chain[i]
           split == Stride(g.ptr, COMMON_CHUNK_SIZE, COMMON_CHUNKS_IN_LARGE_CHUNK)
           x == SplitOrDrop(g)
<1>0. "common" \in Classes /\ s \in StateSet
  BY WorkIs DEF Classes
<1>1. split \in Seq(Ptr) /\ split # <<>>
  <2>1. /\ COMMON_CHUNK_SIZE \in Nat /\ COMMON_CHUNKS_IN_LARGE_CHUNK \in Nat
        /\ COMMON_CHUNKS_IN_LARGE_CHUNK # 0
    BY Constants
  <2>2. split \in Seq(Ptr) /\ Len(split) = COMMON_CHUNKS_IN_LARGE_CHUNK
    BY <2>1, StrideIs
  <2> QED BY <2>1, <2>2, EmptySeq
<1> HIDE DEF split
<1>2. CASE s.free["common"] = <<>>
  <2> DEFINE t == [s EXCEPT !.free["common"] = split]
  <2>1. t \in StateSet
    BY <1>0, <1>1 DEF StateSet
  <2>2. t.at = s.at /\ t.region = s.region /\ t.used = s.used /\ t.free["common"] = split
    BY <1>0 DEF StateSet
  <2>3. StateGrows(s, t)
    BY <1>0, <2>2, StateIs DEF StateGrows
  <2>4. /\ x.chain = [g.chain EXCEPT ![i] = t] /\ x.mapped = g.mapped /\ x.owner = i
        /\ x = [g EXCEPT !.chain = [g.chain EXCEPT ![i] = t]]
    BY <1>2 DEF SplitOrDrop, WorkSet, split
  <2>5. i \in 1 .. Len(g.chain)
    OBVIOUS
  <2> HIDE DEF x, t, s, i
  <2>6. [g.chain EXCEPT ![i] = t] \in Seq(StateSet)
    BY <2>1, <2>5, WorkIs, PutIs
  <2>7. x \in WorkSet
    BY <2>4, <2>6 DEF WorkSet
  <2>8. /\ Len(x.chain) = Len(g.chain) /\ x.chain[i] = t
        /\ \A j \in 1 .. Len(g.chain) : j # i => x.chain[j] = g.chain[j]
    BY <2>1, <2>4, <2>5, WorkIs, PutIs
  <2>9. Grows(g, x)
    <3>1. StateGrows(g.chain[i], x.chain[i]) /\ x.mapped = g.mapped
      BY <2>3, <2>4, <2>8 DEF s
    <3> QED BY <3>1, <2>5, <2>7, <2>8, GrowsPut
  <2> QED BY <1>1, <2>2, <2>4, <2>7, <2>8, <2>9 DEF x, i
<1>3. CASE s.free["common"] # <<>>
  <2> DEFINE d == [ptr |-> g.ptr, size |-> LARGE_CHUNK_SIZE]
  <2>1. d \in DroppedSet
    BY Constants DEF DroppedSet
  <2>2. x = [g EXCEPT !.dropped = g.dropped \union {d}]
    BY <1>3 DEF SplitOrDrop
  <2> HIDE DEF x, d
  <2>3. g.dropped \union {d} \subseteq DroppedSet
    BY <2>1, WorkIs
  <2>4. x \in WorkSet /\ x.chain = g.chain /\ x.mapped = g.mapped /\ x.owner = g.owner
    BY <2>2, <2>3 DEF WorkSet
  <2>5. Grows(g, x)
    BY <2>4, GrowsSame
  <2> QED BY <1>3, <2>4, <2>5 DEF x
<1> QED BY <1>2, <1>3

(* get_free_common_chunk                                                   *)
LEMMA GetCommonIs ==
  ASSUME World, NEW w, w \in WorkSet, w.chain # <<>>, NEW counted, counted \in BOOLEAN
  PROVE  Got(w, GetFreeCommonChunk(w, counted), counted)
<1> DEFINE one == 1
           j == FirstWith(w.chain, one, "common")
           n == Len(w.chain)
           g == GetFreeLargeChunk(w, n, counted)
           x == GetFreeCommonChunk(w, counted)
<1>0. "common" \in Classes /\ w.chain \in Seq(StateSet) /\ n \in Nat \ {0} /\ one \in Nat \ {0}
  BY WorkIs, Indices DEF Classes
<1>1. CASE j # 0
  <2>1. x = PopChunk(w, j, "common")
    BY <1>1 DEF GetFreeCommonChunk
  <2> HIDE DEF one, x
  <2>2. j \in 1 .. Len(w.chain) /\ w.chain[j].free["common"] # <<>>
    BY <1>0, <1>1, FirstWithIs
  <2> HIDE DEF j
  <2>3. x \in WorkSet /\ Grows(w, x) /\ x.owner = j /\ x.ptr \in Ptr /\ Len(x.chain) = Len(w.chain)
    BY <2>1, <2>2, <1>0, PopChunkIs
  <2>4. x.owner \in 1 .. Len(x.chain)
    BY <2>2, <2>3
  <2> QED BY <2>3, <2>4 DEF Got, x
<1>2. CASE j = 0
  <2>1. x = GetBySplit(g)
    BY <1>2 DEF GetFreeCommonChunk
  <2> HIDE DEF x, n, j
  <2>2. Got(w, g, counted)
    BY <1>0, GetLargeIs
  <2> HIDE DEF g
  <2>3. g \in WorkSet /\ Grows(w, g)
    BY <2>2 DEF Got
  <2>4. CASE g.owner = 0
    <3>1. x = g
      BY <2>1, <2>4 DEF GetBySplit
    <3> QED BY <2>2, <3>1 DEF x
  <2>5. CASE g.owner # 0
    <3> DEFINE y == SplitOrDrop(g)
               o == y.owner
    <3>1. g.owner \in 1 .. Len(g.chain) /\ g.ptr \in Ptr
      BY <2>2, <2>5 DEF Got
    <3>2. /\ y \in WorkSet /\ Grows(g, y)
          /\ y.owner = g.owner /\ Len(y.chain) = Len(g.chain)
          /\ y.chain[y.owner].free["common"] # <<>>
      BY <2>3, <3>1, SplitOrDropIs
    <3>3. x = PopChunk(y, o, "common")
      BY <2>1, <2>5, <3>2 DEF GetBySplit, PopFrom
    <3> HIDE DEF y
    <3>4. o \in 1 .. Len(y.chain) /\ y.chain[o].free["common"] # <<>>
      BY <3>1, <3>2
    <3> HIDE DEF o
    <3>5. x \in WorkSet /\ Grows(y, x) /\ x.owner = o /\ x.ptr \in Ptr /\ Len(x.chain) = Len(y.chain)
      BY <3>2, <3>3, <3>4, <1>0, PopChunkIs
    <3>6. x.owner \in 1 .. Len(x.chain)
      BY <3>4, <3>5
    <3>7. Grows(w, y)
      BY <2>3, <3>2, GrowsTrans
    <3>8. Grows(w, x)
      BY <3>2, <3>5, <3>7, GrowsTrans
    <3> QED BY <3>5, <3>6, <3>8 DEF Got, x
  <2> QED BY <2>4, <2>5
<1> QED BY <1>1, <1>2

(* alloc_size: an object, or none because the limit is reached.            *)
LEMMA AllocSizeIs ==
  ASSUME World, NEW w, w \in WorkSet, w.chain # <<>>, NEW size, size \in OwnSizes,
         NEW counted, counted \in BOOLEAN
  PROVE  LET x == AllocSize(w, size, counted) IN
         /\ x \in WorkSet /\ Grows(w, x)
         /\ x.ptr \in Ptr \/ (x.ptr = 0 /\ counted /\ x.mapped >= limit)
<1> DEFINE y == TryAllocSize(w, size)
           x == AllocSize(w, size, counted)
<1>1. y \in WorkSet /\ Grows(w, y) /\ y.ptr \in Nat
  BY TryAllocIs, WorkIs
<1>2. CASE y.ptr # 0
  <2>1. x = y
    BY <1>2 DEF AllocSize, OrSlow
  <2> HIDE DEF x, y
  <2> QED BY <1>1, <1>2, <2>1 DEF Ptr, x
<1>3. CASE y.ptr = 0
  <2> DEFINE one == 1
             g == IF Define(size) = "common" THEN GetFreeCommonChunk(w, counted)
                  ELSE GetFreeLargeChunk(w, one, counted)
  <2>1. x = UseChunk(g, size)
    BY <1>3 DEF AllocSize, OrSlow, AllocSizeSlow
  <2>2. one \in Nat \ {0}
    OBVIOUS
  <2> HIDE DEF x, one
  <2>3. Got(w, g, counted)
    BY <2>2, GetCommonIs, GetLargeIs
  <2> HIDE DEF g
  <2>4. g \in WorkSet /\ Grows(w, g)
    BY <2>3 DEF Got
  <2>5. CASE g.owner = 0
    <3>1. x = g
      BY <2>1, <2>5 DEF UseChunk
    <3>2. x.ptr = 0 /\ counted /\ x.mapped >= limit
      <4>1. ~ (g.owner \in 1 .. Len(g.chain))
        BY <2>4, <2>5, WorkIs
      <4> QED BY <2>3, <3>1, <4>1 DEF Got
    <3> QED BY <2>4, <3>1, <3>2 DEF x
  <2>6. CASE g.owner # 0
    <3>1. g.owner \in 1 .. Len(g.chain) /\ g.ptr \in Ptr
      BY <2>3, <2>6 DEF Got
    <3>2. x \in WorkSet /\ Grows(g, x) /\ x.ptr \in Ptr
      BY <2>1, <2>4, <3>1, UseChunkIs
    <3>3. Grows(w, x)
      BY <2>4, <3>2, GrowsTrans
    <3> QED BY <3>2, <3>3 DEF x
  <2> QED BY <2>5, <2>6
<1> QED BY <1>1, <1>2, <1>3

-----------------------------------------------------------------------------
(* The stack of calls                                                      *)

(* The top of the stack is replaced ...                                    *)
LEMMA GotoIs ==
  ASSUME NEW S, NEW fs \in Seq(S), fs # <<>>, NEW fr \in S
  PROVE  LET gs == Append(Front(fs), fr) IN
         /\ gs \in Seq(S) /\ gs # <<>> /\ Len(gs) = Len(fs) /\ Len(fs) \in Nat \ {0}
         /\ \A i \in 1 .. Len(fs) - 1 : gs[i] = fs[i]
         /\ gs[Len(fs)] = fr /\ Last(gs) = fr
<1> DEFINE gs == Append(Front(fs), fr)
           n == Len(fs)
<1>1. /\ n \in Nat \ {0} /\ Front(fs) \in Seq(S) /\ Len(Front(fs)) = n - 1
      /\ \A i \in 1 .. n - 1 : Front(fs)[i] = fs[i]
  BY Ends
<1>2. n - 1 + 1 = n
  BY <1>1
<1>3. /\ gs \in Seq(S) /\ Len(gs) = n - 1 + 1 /\ gs[n - 1 + 1] = fr
      /\ \A i \in 1 .. n - 1 : gs[i] = Front(fs)[i]
  <2>1. /\ gs \in Seq(S) /\ Len(gs) = Len(Front(fs)) + 1 /\ gs[Len(Front(fs)) + 1] = fr
        /\ \A i \in 1 .. Len(Front(fs)) : gs[i] = Front(fs)[i]
    BY <1>1, AppendIs
  <2> QED BY <1>1, <2>1
<1> HIDE DEF n
<1>4. Len(gs) = n /\ gs[n] = fr
  BY <1>2, <1>3
<1> HIDE DEF gs
<1>5. gs # <<>>
  BY <1>1, <1>4, EmptySeq
<1>6. Last(gs) = fr
  BY <1>4 DEF Last
<1> QED BY <1>1, <1>3, <1>4, <1>5, <1>6 DEF gs, n

(* ... and a call is put on top of it.                                     *)
LEMMA CallIs ==
  ASSUME NEW S, NEW fs \in Seq(S), fs # <<>>, NEW fr \in S, NEW c \in S
  PROVE  LET gs == Front(fs) \o <<fr, c>> IN
         /\ gs \in Seq(S) /\ gs # <<>> /\ Len(gs) = Len(fs) + 1 /\ Len(fs) \in Nat \ {0}
         /\ \A i \in 1 .. Len(fs) - 1 : gs[i] = fs[i]
         /\ gs[Len(fs)] = fr /\ gs[Len(fs) + 1] = c /\ Last(gs) = c
<1> DEFINE t == <<fr, c>>
           gs == Front(fs) \o t
           n == Len(fs)
<1>1. /\ n \in Nat \ {0} /\ Front(fs) \in Seq(S) /\ Len(Front(fs)) = n - 1
      /\ \A i \in 1 .. n - 1 : Front(fs)[i] = fs[i]
  BY Ends
<1>2. n - 1 + 1 = n /\ n - 1 + 2 = n + 1 /\ n - 1 \in Nat
  BY <1>1
<1>3. t \in Seq(S) /\ Len(t) = 2 /\ t[1] = fr /\ t[2] = c
  OBVIOUS
<1> HIDE DEF t
<1>4. /\ gs \in Seq(S) /\ Len(gs) = n - 1 + 2
      /\ \A i \in 1 .. n - 1 : gs[i] = Front(fs)[i]
      /\ gs[n - 1 + 1] = t[1] /\ gs[n - 1 + 2] = t[2]
  <2>1. /\ gs \in Seq(S) /\ Len(gs) = Len(Front(fs)) + Len(t)
        /\ \A i \in 1 .. Len(Front(fs)) : gs[i] = Front(fs)[i]
        /\ \A i \in 1 .. Len(t) : gs[Len(Front(fs)) + i] = t[i]
    <3>1. Front(fs) \in Seq(S) /\ t \in Seq(S)
      BY <1>1, <1>3
    <3> QED BY <3>1, ConcatIs
  <2>2. 1 \in 1 .. Len(t) /\ 2 \in 1 .. Len(t)
    BY <1>3
  <2> QED BY <1>1, <1>3, <2>1, <2>2
<1> HIDE DEF n
<1>5. Len(gs) = n + 1 /\ gs[n] = fr /\ gs[n + 1] = c
  BY <1>2, <1>3, <1>4
<1> HIDE DEF gs
<1>6. gs # <<>>
  BY <1>1, <1>4, <1>5, EmptySeq
<1>7. Last(gs) = c
  BY <1>5 DEF Last
<1> QED BY <1>1, <1>4, <1>5, <1>6, <1>7 DEF gs, n, t

(* The same call at another place: the calls still nest.                   *)
LEMMA NestedGoto ==
  ASSUME NEW fs, NEW m, fs \in Seq(FrameSet), Nested(fs, m), fs # <<>>,
         NEW fr, fr \in FrameSet, Same(Last(fs), fr)
  PROVE  Nested(Append(Front(fs), fr), m)
<1> DEFINE gs == Append(Front(fs), fr)
           n == Len(fs)
<1>2. /\ gs \in Seq(FrameSet) /\ gs # <<>> /\ Len(gs) = n /\ n \in Nat \ {0}
      /\ \A i \in 1 .. n - 1 : gs[i] = fs[i]
      /\ gs[n] = fr
  BY GotoIs
<1>3. fs[n].f = fr.f /\ ChainOf(fs[n]) = ChainOf(fr)
  BY DEF Same, Last
<1>4. \A i \in 1 .. n : gs[i].f = fs[i].f /\ ChainOf(gs[i]) = ChainOf(fs[i])
                        /\ (fs[i].f = "handle" => gs[i].k = fs[i].k)
  <2> SUFFICES ASSUME NEW i \in 1 .. n
               PROVE  gs[i].f = fs[i].f /\ ChainOf(gs[i]) = ChainOf(fs[i])
                      /\ (fs[i].f = "handle" => gs[i].k = fs[i].k)
    OBVIOUS
  <2>1. CASE i = n
    <3>1. gs[i].f = fs[i].f /\ ChainOf(gs[i]) = ChainOf(fs[i])
      BY <2>1, <1>2, <1>3
    <3> QED BY <3>1 DEF ChainOf
  <2>2. CASE i # n
    BY <2>2, <1>2
  <2> QED BY <2>1, <2>2
<1> HIDE DEF gs
<1>6. /\ fs[1].f # "alloc"
      /\ \A i \in 1 .. n - 1 : Calls(fs[i], fs[i + 1])
      /\ \A i \in 1 .. n : fs[i].f = "handle" => \A j \in 1 .. i - 1 : ChainOf(fs[j]) < fs[i].k
      /\ \A k \in 1 .. m : \E i \in 1 .. n : fs[i].f = "handle" /\ fs[i].k = k
  BY DEF Nested
<1> HIDE DEF n
<1>7. gs[1].f # "alloc"
  BY <1>2, <1>4, <1>6
<1>8. ASSUME NEW i \in 1 .. n - 1 PROVE Calls(gs[i], gs[i + 1])
  <2>1. i \in 1 .. n /\ i + 1 \in 1 .. n
    BY <1>2
  <2>2. Calls(fs[i], fs[i + 1])
    BY <1>6
  <2>3. gs[i] = fs[i] /\ gs[i + 1].f = fs[i + 1].f
    BY <2>1, <1>2, <1>4
  <2> QED BY <2>2, <2>3 DEF Calls
<1>9. ASSUME NEW i \in 1 .. n, gs[i].f = "handle", NEW j \in 1 .. i - 1 PROVE ChainOf(gs[j]) < gs[i].k
  <2>1. j \in 1 .. n
    BY <1>2
  <2> QED BY <2>1, <1>4, <1>6, <1>9
<1>10. ASSUME NEW k \in 1 .. m PROVE \E i \in 1 .. n : gs[i].f = "handle" /\ gs[i].k = k
  BY <1>4, <1>6
<1> QED BY <1>2, <1>7, <1>8, <1>9, <1>10 DEF Nested, gs

(* The same call at another place, on chains that only differ where it     *)
(* works.                                                                  *)
LEMMA GotoOn ==
  ASSUME NEW fs, NEW chs, StackOK(fs, chs), fs # <<>>, NEW dhs, Len(dhs) = Len(chs),
         NEW fr, FrameOK(fr, dhs), Same(Last(fs), fr),
         \A i \in 1 .. Len(fs) - 1 : FrameOK(fs[i], dhs)
  PROVE  StackOK(Append(Front(fs), fr), dhs)
<1> DEFINE gs == Append(Front(fs), fr)
           n == Len(fs)
<1>1. fs \in Seq(FrameSet) /\ fr \in FrameSet /\ Nested(fs, Len(dhs))
  BY DEF StackOK, FrameOK
<1>2. /\ gs \in Seq(FrameSet) /\ Len(gs) = n /\ n \in Nat \ {0}
      /\ \A i \in 1 .. n - 1 : gs[i] = fs[i]
      /\ gs[n] = fr
  BY <1>1, GotoIs
<1>3. Nested(gs, Len(dhs))
  BY <1>1, NestedGoto
<1> HIDE DEF gs
<1>5. ASSUME NEW i \in 1 .. n PROVE FrameOK(gs[i], dhs)
  <2>1. CASE i = n
    BY <2>1, <1>2
  <2>2. CASE i # n
    BY <2>2, <1>2
  <2> QED BY <2>1, <2>2
<1> QED BY <1>2, <1>3, <1>5 DEF StackOK, gs

(* The call on top goes on and the stack stays in order.                   *)
LEMMA GotoOK ==
  ASSUME NEW fs, NEW chs, StackOK(fs, chs), fs # <<>>, NEW fr, FrameOK(fr, chs), Same(Last(fs), fr)
  PROVE  StackOK(Append(Front(fs), fr), chs)
<1>1. fs \in Seq(FrameSet) /\ \A i \in 1 .. Len(fs) : FrameOK(fs[i], chs)
  BY DEF StackOK
<1>2. \A i \in 1 .. Len(fs) - 1 : FrameOK(fs[i], chs)
  BY <1>1, Indices
<1> QED BY <1>2, GotoOn

(* The kinds of calls.                                                     *)
LEMMA FrameIs ==
  ASSUME NEW fr, fr \in FrameSet
  PROVE  /\ fr.f \in {"reserve", "alloc", "handle", "program"}
         /\ fr.f = "reserve" => fr \in ReserveSet
         /\ fr.f = "alloc" => fr \in AllocSet
         /\ fr.f = "handle" => fr \in HandleSet
         /\ fr.f = "program" => fr \in ProgramSet
<1>1. ASSUME fr \in ReserveSet PROVE fr.f = "reserve"
  BY <1>1 DEF ReserveSet
<1>2. ASSUME fr \in AllocSet PROVE fr.f = "alloc"
  BY <1>2 DEF AllocSet
<1>3. ASSUME fr \in HandleSet PROVE fr.f = "handle"
  BY <1>3 DEF HandleSet
<1>4. ASSUME fr \in ProgramSet PROVE fr.f = "program"
  BY <1>4 DEF ProgramSet
<1> QED BY <1>1, <1>2, <1>3, <1>4 DEF FrameSet

(* A call on top of a stack.                                               *)
LEMMA CallAppend ==
  ASSUME NEW S, NEW s \in Seq(S), NEW a \in S, NEW b \in S
  PROVE  s \o <<a, b>> = Append(Append(s, a), b)
  OBVIOUS

(* What a call knows of its chain stays true while the chain grows.        *)
Keeps(chs, dhs, k) ==
  chs[k] # <<>> =>
    /\ dhs[k] # <<>>
    /\ \A c \in Classes : DOMAIN chs[k][1].used[c] \subseteq DOMAIN dhs[k][1].used[c]

(* A task that reads free slots names a class, and its State is there.     *)
LEMMA Slots ==
  ASSUME NEW chs, NEW fr, fr \in FrameSet, InPass(fr, chs), fr.f = "handle",
         NEW n, n \in DOMAIN fr.todo, fr.todo[n].slot # <<>>
  PROVE  chs[fr.k] # <<>> /\ fr.todo[n].slot[1] \in Classes
<1>1. fr \in HandleSet
  BY FrameIs
<1>2. fr.todo \in Seq(TaskSet)
  BY <1>1 DEF HandleSet
<1>3. fr.todo # <<>> /\ fr.todo[n] \in TaskSet
  BY <1>2
<1>4. chs[fr.k] # <<>>
  BY <1>3 DEF InPass
<1>5. fr.todo[n].slot \in {<<>>} \union (Classes \X Nat)
  BY <1>3 DEF TaskSet
<1> QED BY <1>4, <1>5

(* A call is still in order when its chain has grown.                      *)
LEMMA FrameKeeps ==
  ASSUME NEW chs, NEW dhs, NEW fr, FrameOK(fr, chs), ChainOf(fr) \in 0 .. Len(dhs),
         ChainOf(fr) # 0 => Keeps(chs, dhs, ChainOf(fr))
  PROVE  FrameOK(fr, dhs)
<1>1. fr \in FrameSet /\ HasChunk(fr) /\ HasCap(fr) /\ (fr.f = "handle" => fr.k # 0)
  BY DEF FrameOK
<1>2. fr.f # "handle" /\ ChainOf(fr) # 0 => dhs[ChainOf(fr)] # <<>>
  BY DEF FrameOK, Keeps
<1>3. InPass(fr, dhs)
  <2> SUFFICES ASSUME fr.f = "handle" PROVE InPass(fr, dhs)
    BY DEF InPass
  <2>1. Keeps(chs, dhs, fr.k) /\ InPass(fr, chs)
    BY DEF ChainOf, FrameOK
  <2>2. /\ fr.at \in {"boxed", "reserved"} => fr.todo # <<>>
        /\ fr.todo # <<>> => fr.phase \in 1 .. 7 /\ fr.at \notin {"commit", "dealloc"}
        /\ fr.at = "boxed" => fr.phase \in {3, 4}
        /\ fr.at # "dealloc" => dhs[fr.k] # <<>>
    BY <2>1, SMTT(40) DEF InPass, Keeps
  <2>3. ASSUME NEW n \in DOMAIN fr.todo, fr.todo[n].slot # <<>>
        PROVE  fr.todo[n].slot[2] \in DOMAIN dhs[fr.k][1].used[fr.todo[n].slot[1]]
    <3> DEFINE slot == fr.todo[n].slot
    <3>1. slot[2] \in DOMAIN chs[fr.k][1].used[slot[1]]
      BY <2>1, <2>3 DEF InPass
    <3>2. chs[fr.k] # <<>> /\ slot[1] \in Classes
      BY <1>1, <2>1, <2>3, Slots
    <3> QED BY <2>1, <3>1, <3>2 DEF Keeps
  <2> QED BY <2>2, <2>3 DEF InPass
<1> QED BY <1>1, <1>2, <1>3 DEF FrameOK

(* A call is made.                                                         *)
LEMMA PushOK ==
  ASSUME NEW fs, NEW chs, StackOK(fs, chs), fs # <<>>, NEW c, FrameOK(c, chs),
         Calls(Last(fs), c), c.f # "handle"
  PROVE  StackOK(Append(fs, c), chs)
<1> DEFINE gs == Append(fs, c)
           n == Len(fs)
<1>1. fs \in Seq(FrameSet) /\ c \in FrameSet
  BY DEF StackOK, FrameOK
<1>2. /\ gs \in Seq(FrameSet) /\ Len(gs) = n + 1
      /\ \A i \in 1 .. n : gs[i] = fs[i]
      /\ gs[n + 1] = c
  BY <1>1, AppendIs
<1>3. n \in Nat \ {0} /\ Last(fs) = fs[n]
  BY <1>1, Ends
<1>4. /\ fs[1].f # "alloc"
      /\ \A i \in 1 .. n - 1 : Calls(fs[i], fs[i + 1])
      /\ \A i \in 1 .. n : fs[i].f = "handle" => \A j \in 1 .. i - 1 : ChainOf(fs[j]) < fs[i].k
      /\ \A k \in 1 .. Len(chs) : \E i \in 1 .. n : fs[i].f = "handle" /\ fs[i].k = k
      /\ \A i \in 1 .. n : FrameOK(fs[i], chs)
  BY DEF StackOK, Nested
<1> HIDE DEF gs, n
<1>5. gs[1].f # "alloc"
  BY <1>2, <1>3, <1>4
<1>6. ASSUME NEW i \in 1 .. n PROVE Calls(gs[i], gs[i + 1])
  <2>1. CASE i = n
    BY <2>1, <1>2, <1>3
  <2>2. CASE i # n
    <3>1. i \in 1 .. n - 1 /\ i + 1 \in 1 .. n
      BY <2>2, <1>3
    <3> QED BY <3>1, <1>2, <1>4
  <2> QED BY <2>1, <2>2
<1>7. ASSUME NEW i \in 1 .. n + 1, gs[i].f = "handle", NEW j \in 1 .. i - 1 PROVE ChainOf(gs[j]) < gs[i].k
  <2>1. i # n + 1
    BY <1>2, <1>7
  <2>2. i \in 1 .. n /\ j \in 1 .. n
    BY <2>1, <1>3
  <2> QED BY <2>2, <1>2, <1>4, <1>7
<1>8. ASSUME NEW k \in 1 .. Len(chs) PROVE \E i \in 1 .. n + 1 : gs[i].f = "handle" /\ gs[i].k = k
  <2>1. PICK i \in 1 .. n : fs[i].f = "handle" /\ fs[i].k = k
    BY <1>4
  <2>2. i \in 1 .. n + 1
    BY <1>3
  <2> QED BY <2>1, <2>2, <1>2
<1>9. ASSUME NEW i \in 1 .. n + 1 PROVE FrameOK(gs[i], chs)
  <2>1. CASE i = n + 1
    BY <2>1, <1>2
  <2>2. CASE i # n + 1
    <3>1. i \in 1 .. n
      BY <2>2, <1>3
    <3> QED BY <3>1, <1>2, <1>4
  <2> QED BY <2>1, <2>2
<1>10. n + 1 - 1 = n
  BY <1>3
<1> QED BY <1>2, <1>5, <1>6, <1>7, <1>8, <1>9, <1>10 DEF StackOK, Nested, gs, n

(* The chains change, and every call keeps its own.                        *)
LEMMA ChainsOKStack ==
  ASSUME NEW fs, NEW chs, NEW dhs, StackOK(fs, chs), Len(chs) \in Nat, Len(dhs) = Len(chs),
         \A k \in 1 .. Len(chs) : Keeps(chs, dhs, k)
  PROVE  StackOK(fs, dhs)
<1>1. ASSUME NEW i \in 1 .. Len(fs) PROVE FrameOK(fs[i], dhs)
  <2>1. FrameOK(fs[i], chs)
    BY DEF StackOK
  <2>2. ChainOf(fs[i]) \in 0 .. Len(chs)
    BY <2>1 DEF FrameOK
  <2>3. ChainOf(fs[i]) # 0 => Keeps(chs, dhs, ChainOf(fs[i]))
    BY <2>2
  <2> QED BY <2>1, <2>2, <2>3, FrameKeeps
<1> QED BY <1>1 DEF StackOK, Nested

(* handle_state is called on a new chain.                                  *)
LEMMA PushHandleOK ==
  ASSUME NEW fs, NEW chs, NEW dhs, StackOK(fs, chs), fs # <<>>, Len(chs) \in Nat,
         Len(dhs) = Len(chs) + 1, \A k \in 1 .. Len(chs) : dhs[k] = chs[k],
         NEW c, FrameOK(c, dhs), Calls(Last(fs), c), c.f = "handle", c.k = Len(chs) + 1
  PROVE  StackOK(Append(fs, c), dhs)
<1> DEFINE gs == Append(fs, c)
           n == Len(fs)
           m == Len(chs)
<1>1. fs \in Seq(FrameSet) /\ c \in FrameSet
  BY DEF StackOK, FrameOK
<1>2. /\ gs \in Seq(FrameSet) /\ Len(gs) = n + 1
      /\ \A i \in 1 .. n : gs[i] = fs[i]
      /\ gs[n + 1] = c
  BY <1>1, AppendIs
<1>3. n \in Nat \ {0} /\ Last(fs) = fs[n]
  BY <1>1, Ends
<1>4. /\ fs[1].f # "alloc"
      /\ \A i \in 1 .. n - 1 : Calls(fs[i], fs[i + 1])
      /\ \A i \in 1 .. n : fs[i].f = "handle" => \A j \in 1 .. i - 1 : ChainOf(fs[j]) < fs[i].k
      /\ \A k \in 1 .. m : \E i \in 1 .. n : fs[i].f = "handle" /\ fs[i].k = k
      /\ \A i \in 1 .. n : FrameOK(fs[i], chs)
  BY DEF StackOK, Nested
<1>4a. m \in Nat /\ Len(dhs) = m + 1 /\ c.k = m + 1
  OBVIOUS
<1>4b. \A i \in 1 .. n : ChainOf(fs[i]) \in 0 .. m
  BY <1>4 DEF FrameOK
<1> HIDE DEF gs, n, m
<1>5. gs[1].f # "alloc"
  BY <1>2, <1>3, <1>4
<1>6. ASSUME NEW i \in 1 .. n PROVE Calls(gs[i], gs[i + 1])
  <2>1. CASE i = n
    BY <2>1, <1>2, <1>3
  <2>2. CASE i # n
    <3>1. i \in 1 .. n - 1 /\ i + 1 \in 1 .. n
      BY <2>2, <1>3
    <3> QED BY <3>1, <1>2, <1>4
  <2> QED BY <2>1, <2>2
<1>7. ASSUME NEW i \in 1 .. n + 1, gs[i].f = "handle", NEW j \in 1 .. i - 1 PROVE ChainOf(gs[j]) < gs[i].k
  <2>1. j \in 1 .. n
    BY <1>3
  <2>2. CASE i = n + 1
    <3>1. ChainOf(gs[j]) \in 0 .. m /\ gs[i].k = m + 1
      BY <2>1, <2>2, <1>2, <1>4a, <1>4b
    <3> QED BY <3>1, <1>4a
  <2>3. CASE i # n + 1
    <3>1. i \in 1 .. n
      BY <2>3, <1>3
    <3> QED BY <2>1, <3>1, <1>2, <1>4, <1>7
  <2> QED BY <2>2, <2>3
<1>8. ASSUME NEW k \in 1 .. m + 1 PROVE \E i \in 1 .. n + 1 : gs[i].f = "handle" /\ gs[i].k = k
  <2>1. CASE k = m + 1
    <3>1. n + 1 \in 1 .. n + 1
      BY <1>3
    <3> QED BY <2>1, <3>1, <1>2, <1>4a
  <2>2. CASE k # m + 1
    <3>0. k \in 1 .. m
      BY <2>2, <1>4a
    <3>1. PICK i \in 1 .. n : fs[i].f = "handle" /\ fs[i].k = k
      BY <1>4, <3>0
    <3>2. i \in 1 .. n + 1
      BY <1>3
    <3> QED BY <3>1, <3>2, <1>2
  <2> QED BY <2>1, <2>2
<1>9. ASSUME NEW i \in 1 .. n + 1 PROVE FrameOK(gs[i], dhs)
  <2>1. CASE i = n + 1
    BY <2>1, <1>2
  <2>2. CASE i # n + 1
    <3>1. i \in 1 .. n
      BY <2>2, <1>3
    <3>2. FrameOK(fs[i], chs) /\ ChainOf(fs[i]) \in 0 .. m /\ gs[i] = fs[i]
      BY <3>1, <1>2, <1>4, <1>4b
    <3>3. ChainOf(fs[i]) \in 0 .. Len(dhs)
      BY <3>2, <1>4a
    <3>4. ChainOf(fs[i]) # 0 => dhs[ChainOf(fs[i])] = chs[ChainOf(fs[i])]
      BY <3>2, <1>4a DEF m
    <3>5. ChainOf(fs[i]) # 0 => Keeps(chs, dhs, ChainOf(fs[i]))
      BY <3>4 DEF Keeps
    <3> QED BY <3>2, <3>3, <3>5, FrameKeeps
  <2> QED BY <2>1, <2>2
<1>10. n + 1 - 1 = n
  BY <1>3
<1>11. Nested(gs, m + 1)
  <2>1. Len(gs) = n + 1
    BY <1>2
  <2>1a. Len(gs) - 1 = n
    BY <2>1, <1>3
  <2>2. \A i \in 1 .. Len(gs) - 1 : Calls(gs[i], gs[i + 1])
    BY <2>1a, <1>6
  <2>3. \A i \in 1 .. Len(gs) : gs[i].f = "handle" => \A j \in 1 .. i - 1 : ChainOf(gs[j]) < gs[i].k
    BY <2>1, <1>7
  <2>4. \A k \in 1 .. m + 1 : \E i \in 1 .. Len(gs) : gs[i].f = "handle" /\ gs[i].k = k
    BY <2>1, <1>8
  <2> QED BY <1>5, <2>2, <2>3, <2>4 DEF Nested
<1>12. Nested(gs, Len(dhs))
  BY <1>4a, <1>11
<1> QED BY <1>2, <1>9, <1>12 DEF StackOK, gs

(* A call ends.                                                            *)
LEMMA PopOK ==
  ASSUME NEW fs, NEW chs, StackOK(fs, chs), fs # <<>>, Last(fs).f # "handle"
  PROVE  StackOK(Front(fs), chs)
<1> DEFINE gs == Front(fs)
           n == Len(fs)
<1>1. fs \in Seq(FrameSet)
  BY DEF StackOK
<1>2. /\ gs \in Seq(FrameSet) /\ Len(gs) = n - 1 /\ n \in Nat \ {0} /\ Last(fs) = fs[n]
      /\ \A i \in 1 .. n - 1 : gs[i] = fs[i]
  BY <1>1, Ends
<1>3. gs # <<>> => n - 1 # 0
  BY <1>2, EmptySeq
<1>4. /\ fs[1].f # "alloc"
      /\ \A i \in 1 .. n - 1 : Calls(fs[i], fs[i + 1])
      /\ \A i \in 1 .. n : fs[i].f = "handle" => \A j \in 1 .. i - 1 : ChainOf(fs[j]) < fs[i].k
      /\ \A k \in 1 .. Len(chs) : \E i \in 1 .. n : fs[i].f = "handle" /\ fs[i].k = k
      /\ \A i \in 1 .. n : FrameOK(fs[i], chs)
  BY DEF StackOK, Nested
<1> HIDE DEF gs, n
<1>5. gs # <<>> => gs[1].f # "alloc"
  BY <1>2, <1>3, <1>4
<1>6. ASSUME NEW i \in 1 .. n - 1 - 1 PROVE Calls(gs[i], gs[i + 1])
  <2>1. i \in 1 .. n - 1 /\ i + 1 \in 1 .. n - 1
    BY <1>2
  <2> QED BY <2>1, <1>2, <1>4
<1>7. ASSUME NEW i \in 1 .. n - 1, gs[i].f = "handle", NEW j \in 1 .. i - 1 PROVE ChainOf(gs[j]) < gs[i].k
  <2>1. j \in 1 .. n - 1 /\ i \in 1 .. n
    BY <1>2
  <2> QED BY <2>1, <1>2, <1>4, <1>7
<1>8. ASSUME NEW k \in 1 .. Len(chs) PROVE \E i \in 1 .. n - 1 : gs[i].f = "handle" /\ gs[i].k = k
  <2>1. PICK i \in 1 .. n : fs[i].f = "handle" /\ fs[i].k = k
    BY <1>4
  <2>2. i # n
    BY <2>1, <1>2
  <2>3. i \in 1 .. n - 1
    BY <2>2, <1>2
  <2> QED BY <2>1, <2>3, <1>2
<1>9. ASSUME NEW i \in 1 .. n - 1 PROVE FrameOK(gs[i], chs)
  <2>1. i \in 1 .. n
    BY <1>2
  <2> QED BY <2>1, <1>2, <1>4
<1> QED BY <1>2, <1>5, <1>6, <1>7, <1>8, <1>9 DEF StackOK, Nested, gs

(* handle_state ends: its chain was the youngest.                          *)
LEMMA PopHandleOK ==
  ASSUME NEW fs, NEW chs, StackOK(fs, chs), ChainsOK(chs), fs # <<>>, Last(fs).f = "handle"
  PROVE  Last(fs).k = Len(chs) /\ chs # <<>> /\ StackOK(Front(fs), Front(chs))
<1> DEFINE gs == Front(fs)
           dhs == Front(chs)
           n == Len(fs)
           m == Len(chs)
<1>1. fs \in Seq(FrameSet) /\ chs \in Seq(Seq(StateSet))
  BY DEF StackOK, ChainsOK
<1>2. /\ gs \in Seq(FrameSet) /\ Len(gs) = n - 1 /\ n \in Nat \ {0} /\ Last(fs) = fs[n]
      /\ \A i \in 1 .. n - 1 : gs[i] = fs[i]
  BY <1>1, Ends
<1>3. gs # <<>> => n - 1 # 0
  BY <1>2, EmptySeq
<1>4. /\ fs[1].f # "alloc"
      /\ \A i \in 1 .. n - 1 : Calls(fs[i], fs[i + 1])
      /\ \A i \in 1 .. n : fs[i].f = "handle" => \A j \in 1 .. i - 1 : ChainOf(fs[j]) < fs[i].k
      /\ \A k \in 1 .. m : \E i \in 1 .. n : fs[i].f = "handle" /\ fs[i].k = k
      /\ \A i \in 1 .. n : FrameOK(fs[i], chs)
  BY DEF StackOK, Nested
<1>4b. \A i \in 1 .. n : ChainOf(fs[i]) \in 0 .. m
  BY <1>4 DEF FrameOK
<1>4c. \A i \in 1 .. n : fs[i].f = "handle" => fs[i].k # 0 /\ ChainOf(fs[i]) = fs[i].k
  BY <1>4 DEF FrameOK, ChainOf
<1>4d. m \in Nat
  BY <1>1, Indices
<1> HIDE DEF n, m
<1>4e. n \in 1 .. n /\ fs[n].k \in 0 .. m /\ fs[n].k # 0 /\ fs[n].f = "handle"
  BY <1>2, <1>4b, <1>4c
<1>4f. fs[n].k = m
  <2>1. PICK i \in 1 .. n : fs[i].f = "handle" /\ fs[i].k = m
    <3>1. m \in 1 .. m
      BY <1>4d, <1>4e
    <3> QED BY <3>1, <1>4
  <2>2. CASE i = n
    BY <2>1, <2>2
  <2>3. CASE i # n
    <3>1. i \in 1 .. n - 1
      BY <2>3, <1>2
    <3>2. ChainOf(fs[i]) < fs[n].k
      BY <3>1, <1>4, <1>4e
    <3>3. ChainOf(fs[i]) = m
      BY <2>1, <1>4c
    <3> QED BY <3>2, <3>3, <1>4d, <1>4e
  <2> QED BY <2>2, <2>3
<1>4g. m # 0
  BY <1>4e, <1>4f
<1>4h. chs # <<>>
  BY <1>4g, <1>1, Indices DEF m
<1>4i. Len(dhs) = m - 1 /\ \A k \in 1 .. m - 1 : dhs[k] = chs[k]
  BY <1>1, <1>4h, Ends DEF m
<1>4j. \A i \in 1 .. n - 1 : ChainOf(fs[i]) \in 0 .. m - 1
  <2> SUFFICES ASSUME NEW i \in 1 .. n - 1 PROVE ChainOf(fs[i]) \in 0 .. m - 1
    OBVIOUS
  <2>1. ChainOf(fs[i]) < m /\ i \in 1 .. n
    BY <1>2, <1>4, <1>4e, <1>4f
  <2>2. ChainOf(fs[i]) \in 0 .. m
    BY <2>1, <1>4b
  <2> QED BY <2>1, <2>2, <1>4d
<1> HIDE DEF gs, dhs
<1>5. gs # <<>> => gs[1].f # "alloc"
  BY <1>2, <1>3, <1>4
<1>6. ASSUME NEW i \in 1 .. n - 1 - 1 PROVE Calls(gs[i], gs[i + 1])
  <2>1. i \in 1 .. n - 1 /\ i + 1 \in 1 .. n - 1
    BY <1>2
  <2> QED BY <2>1, <1>2, <1>4
<1>7. ASSUME NEW i \in 1 .. n - 1, gs[i].f = "handle", NEW j \in 1 .. i - 1 PROVE ChainOf(gs[j]) < gs[i].k
  <2>1. j \in 1 .. n - 1 /\ i \in 1 .. n
    BY <1>2
  <2> QED BY <2>1, <1>2, <1>4, <1>7
<1>8. ASSUME NEW k \in 1 .. m - 1 PROVE \E i \in 1 .. n - 1 : gs[i].f = "handle" /\ gs[i].k = k
  <2>0. k \in 1 .. m /\ k # m
    BY <1>4d
  <2>1. PICK i \in 1 .. n : fs[i].f = "handle" /\ fs[i].k = k
    BY <1>4, <2>0
  <2>2. i # n
    BY <2>0, <2>1, <1>4f
  <2>3. i \in 1 .. n - 1
    BY <2>2, <1>2
  <2> QED BY <2>1, <2>3, <1>2
<1>9. ASSUME NEW i \in 1 .. n - 1 PROVE FrameOK(gs[i], dhs)
  <2>1. i \in 1 .. n /\ gs[i] = fs[i]
    BY <1>2
  <2>2. FrameOK(fs[i], chs) /\ ChainOf(fs[i]) \in 0 .. m - 1
    BY <2>1, <1>4, <1>4j
  <2>3. ChainOf(fs[i]) \in 0 .. Len(dhs)
    BY <2>2, <1>4i
  <2>4. ChainOf(fs[i]) # 0 => dhs[ChainOf(fs[i])] = chs[ChainOf(fs[i])]
    BY <2>2, <1>4i, <1>4d
  <2>5. ChainOf(fs[i]) # 0 => Keeps(chs, dhs, ChainOf(fs[i]))
    BY <2>4 DEF Keeps
  <2> QED BY <2>1, <2>2, <2>3, <2>5, FrameKeeps
<1> QED BY <1>2, <1>4f, <1>4h, <1>4i, <1>5, <1>6, <1>7, <1>8, <1>9 DEF StackOK, Nested, gs, dhs, m

(* The parts of the invariant that are about the stack.                    *)
Stacked(fs, chs, rt, m, lim, pn) ==
  StackOK(fs, chs) /\ Answers(fs, rt, m, lim, pn) /\ Regionwise(fs, chs, m)

(* What a single call has to satisfy.                                      *)
Handled(fr, m, lim) == fr.f = "alloc" /\ fr.at = "handled" /\ fr.chunk = 0 => m >= lim
Room(fr, chs, m) == fr.f = "handle" => Len(fr.to_dealloc) + Len(chs[fr.k]) <= m

(* What Stacked says, call by call.                                        *)
LEMMA StackedIs ==
  ASSUME NEW fs, NEW chs, NEW rt, NEW m, NEW lim, NEW pn
  PROVE  Stacked(fs, chs, rt, m, lim, pn) <=>
           /\ StackOK(fs, chs)
           /\ rt.ptr # 0 => fs # <<>> /\ Receives(Last(fs))
           /\ rt.err = TRUE => m >= lim
           /\ fs # <<>> /\ pn = FALSE /\ Last(fs).f # "program" /\ Receives(Last(fs)) /\ rt.ptr = 0
                => m >= lim
           /\ \A i \in 1 .. Len(fs) : Handled(fs[i], m, lim) /\ Room(fs[i], chs, m)
<1>1. (\A i \in 1 .. Len(fs) : Handled(fs[i], m, lim) /\ Room(fs[i], chs, m)) <=>
        /\ \A i \in 1 .. Len(fs) :
             fs[i].f = "alloc" /\ fs[i].at = "handled" /\ fs[i].chunk = 0 => m >= lim
        /\ Regionwise(fs, chs, m)
  BY DEF Handled, Room, Regionwise
<1> QED BY <1>1 DEF Stacked, Answers

(* Nothing is neither memory nor an error.                                 *)
LEMMA NothingIs == Nothing.ptr = 0 /\ Nothing.err = FALSE /\ Nothing.grew = FALSE /\ Nothing \in RetSet
  BY DEF Nothing, RetSet

(* A call goes on.                                                         *)
LEMMA GotoStep ==
  ASSUME NEW fs, NEW chs, NEW rt, NEW m, NEW lim, NEW pn, Stacked(fs, chs, rt, m, lim, pn), fs # <<>>,
         NEW fr, FrameOK(fr, chs), Same(Last(fs), fr), ~ Receives(fr),
         Handled(fr, m, lim), Room(fr, chs, m)
  PROVE  Stacked(Append(Front(fs), fr), chs, Nothing, m, lim, pn)
<1> DEFINE gs == Append(Front(fs), fr)
           n == Len(fs)
<1>1. StackOK(fs, chs) /\ \A i \in 1 .. n : Handled(fs[i], m, lim) /\ Room(fs[i], chs, m)
  BY StackedIs
<1>2. fs \in Seq(FrameSet) /\ fr \in FrameSet
  BY <1>1 DEF StackOK, FrameOK
<1>3. /\ gs # <<>> /\ Len(gs) = n /\ n \in Nat \ {0}
      /\ \A i \in 1 .. n - 1 : gs[i] = fs[i]
      /\ gs[n] = fr /\ Last(gs) = fr
  BY <1>2, GotoIs
<1>4. StackOK(gs, chs)
  BY <1>1, GotoOK
<1> HIDE DEF gs, n
<1>5. ASSUME NEW i \in 1 .. n PROVE Handled(gs[i], m, lim) /\ Room(gs[i], chs, m)
  <2>1. CASE i = n
    BY <2>1, <1>3
  <2>2. CASE i # n
    <3>1. i \in 1 .. n - 1
      BY <2>2, <1>3
    <3> QED BY <3>1, <1>1, <1>3
  <2> QED BY <2>1, <2>2
<1> QED BY <1>3, <1>4, <1>5, NothingIs, StackedIs DEF gs

(* A call makes another one.                                               *)
LEMMA CallStep ==
  ASSUME NEW fs, NEW chs, NEW rt, NEW m, NEW lim, NEW pn, Stacked(fs, chs, rt, m, lim, pn), fs # <<>>,
         NEW fr, FrameOK(fr, chs), Same(Last(fs), fr), Handled(fr, m, lim), Room(fr, chs, m),
         NEW c, FrameOK(c, chs), Calls(fr, c), c.f # "handle", ~ Receives(c), Handled(c, m, lim)
  PROVE  Stacked(Front(fs) \o <<fr, c>>, chs, Nothing, m, lim, pn)
<1> DEFINE gs == Append(Front(fs), fr)
           hs == Append(gs, c)
           n == Len(fs)
<1>1. StackOK(fs, chs) /\ \A i \in 1 .. n : Handled(fs[i], m, lim) /\ Room(fs[i], chs, m)
  BY StackedIs
<1>2. fs \in Seq(FrameSet) /\ fr \in FrameSet /\ c \in FrameSet
  BY <1>1 DEF StackOK, FrameOK
<1>3. /\ gs \in Seq(FrameSet) /\ gs # <<>> /\ Len(gs) = n /\ n \in Nat \ {0}
      /\ \A i \in 1 .. n - 1 : gs[i] = fs[i]
      /\ gs[n] = fr /\ Last(gs) = fr
  BY <1>2, GotoIs
<1>4. StackOK(gs, chs)
  BY <1>1, GotoOK
<1>5. Front(fs) \in Seq(FrameSet)
  BY <1>2, Ends
<1>6. Front(fs) \o <<fr, c>> = hs
  BY <1>2, <1>5, CallAppend
<1> HIDE DEF gs, n
<1>7. StackOK(hs, chs)
  BY <1>3, <1>4, PushOK
<1>8. /\ hs \in Seq(FrameSet) /\ Len(hs) = n + 1
      /\ \A i \in 1 .. n : hs[i] = gs[i]
      /\ hs[n + 1] = c
  <2>1. gs \in Seq(FrameSet) /\ c \in FrameSet
    BY <1>2, <1>3
  <2>2. /\ hs \in Seq(FrameSet) /\ Len(hs) = Len(gs) + 1
        /\ \A i \in 1 .. Len(gs) : hs[i] = gs[i]
        /\ hs[Len(gs) + 1] = c
    BY <2>1, AppendIs
  <2> QED BY <2>2, <1>3
<1> HIDE DEF hs
<1>9. Last(hs) = c
  BY <1>8 DEF Last
<1>10. ASSUME NEW i \in 1 .. n + 1 PROVE Handled(hs[i], m, lim) /\ Room(hs[i], chs, m)
  <2>1. CASE i = n + 1
    BY <2>1, <1>8 DEF Room
  <2>2. CASE i = n
    <3>1. i \in 1 .. n
      BY <2>2, <1>3
    <3> QED BY <2>2, <3>1, <1>3, <1>8
  <2>3. CASE i # n + 1 /\ i # n
    <3>1. i \in 1 .. n - 1 /\ i \in 1 .. n
      BY <2>3, <1>3
    <3> QED BY <3>1, <1>1, <1>3, <1>8
  <2> QED BY <2>1, <2>2, <2>3
<1>11. Stacked(hs, chs, Nothing, m, lim, pn)
  BY <1>7, <1>8, <1>9, <1>10, NothingIs, StackedIs
<1> QED BY <1>6, <1>11

(* A call makes a new State and calls handle_state on it.                  *)
LEMMA HandleStep ==
  ASSUME NEW fs, NEW chs, NEW rt, NEW m, NEW lim, NEW pn, Stacked(fs, chs, rt, m, lim, pn), fs # <<>>,
         ChainsOK(chs), m \in Nat, lim \in Nat, NEW q, q \in Nat, m <= q,
         NEW fr, FrameOK(fr, chs), Same(Last(fs), fr), fr.f = "alloc",
         fr.at \in {"split", "have", "handled"}, Handled(fr, q, lim),
         NEW ch, ch \in Seq(StateSet), ch # <<>>, Len(ch) <= q
  PROVE  Stacked(Front(fs) \o <<fr, Handle(Len(chs) + 1)>>, Append(chs, ch), Nothing, q, lim, pn)
<1> DEFINE gs == Append(Front(fs), fr)
           c == Handle(Len(chs) + 1)
           hs == Append(gs, c)
           n == Len(fs)
           dhs == Append(chs, ch)
           l == Len(chs)
<1>0. chs \in Seq(Seq(StateSet)) /\ l \in Nat
  BY Indices DEF ChainsOK
<1>0a. /\ dhs \in Seq(Seq(StateSet)) /\ Len(dhs) = l + 1
       /\ \A k \in 1 .. l : dhs[k] = chs[k]
       /\ dhs[l + 1] = ch
  BY <1>0, AppendIs
<1>1. StackOK(fs, chs) /\ \A i \in 1 .. n : Handled(fs[i], m, lim) /\ Room(fs[i], chs, m)
  BY StackedIs
<1>2. fs \in Seq(FrameSet) /\ fr \in FrameSet
  BY <1>1 DEF StackOK, FrameOK
<1> HIDE DEF l, dhs
<1>2a. /\ c \in FrameSet /\ c.f = "handle" /\ c.k = l + 1 /\ c.at = "nlpm" /\ c.todo = <<>>
       /\ c.to_dealloc = <<>>
  <2>1. c = [f |-> "handle", at |-> "nlpm", k |-> l + 1, phase |-> 0, todo |-> <<>>,
             more |-> FALSE, to_dealloc |-> <<>>]
    BY DEF Handle, l
  <2>2. <<>> \in Seq(TaskSet) /\ <<>> \in Seq(Ptr) /\ l + 1 \in Nat /\ 0 \in 0 .. 7
    BY <1>0, EmptySeq
  <2> HIDE DEF c
  <2>3. c \in HandleSet
    BY <2>1, <2>2 DEF HandleSet
  <2> QED BY <2>1, <2>3 DEF FrameSet
<1> HIDE DEF c
<1>2b. FrameOK(c, dhs)
  <2>1. ChainOf(c) = l + 1 /\ l + 1 \in 0 .. Len(dhs) /\ l + 1 # 0
    BY <1>0, <1>0a, <1>2a DEF ChainOf
  <2>2. DOMAIN c.todo = {}
    BY <1>2a
  <2>3. InPass(c, dhs)
    BY <1>0a, <1>2a, <2>2 DEF InPass
  <2> QED BY <1>2a, <2>1, <2>3 DEF FrameOK, HasChunk, HasCap
<1>3. /\ gs \in Seq(FrameSet) /\ gs # <<>> /\ Len(gs) = n /\ n \in Nat \ {0}
      /\ \A i \in 1 .. n - 1 : gs[i] = fs[i]
      /\ gs[n] = fr /\ Last(gs) = fr
  BY <1>2, GotoIs
<1>4. StackOK(gs, chs)
  BY <1>1, GotoOK
<1>5. Front(fs) \in Seq(FrameSet)
  BY <1>2, Ends
<1>6. Front(fs) \o <<fr, c>> = hs
  BY <1>2, <1>2a, <1>5, CallAppend
<1> HIDE DEF gs, n
<1>6a. Calls(fr, c)
  BY <1>2a DEF Calls
<1>7. StackOK(hs, dhs)
  <2>1. Len(chs) \in Nat /\ Len(dhs) = Len(chs) + 1 /\ c.k = Len(chs) + 1
        /\ \A k \in 1 .. Len(chs) : dhs[k] = chs[k]
    BY <1>0, <1>0a, <1>2a DEF l
  <2>2. Calls(Last(gs), c) /\ c.f = "handle"
    BY <1>3, <1>6a, <1>2a
  <2> QED BY <1>2b, <1>3, <1>4, <2>1, <2>2, PushHandleOK
<1>8. /\ hs \in Seq(FrameSet) /\ Len(hs) = n + 1
      /\ \A i \in 1 .. n : hs[i] = gs[i]
      /\ hs[n + 1] = c
  <2>1. gs \in Seq(FrameSet) /\ c \in FrameSet
    BY <1>2a, <1>3
  <2>2. /\ hs \in Seq(FrameSet) /\ Len(hs) = Len(gs) + 1
        /\ \A i \in 1 .. Len(gs) : hs[i] = gs[i]
        /\ hs[Len(gs) + 1] = c
    BY <2>1, AppendIs
  <2> QED BY <2>2, <1>3
<1> HIDE DEF hs
<1>9. Last(hs) = c
  BY <1>8 DEF Last
<1>10. ASSUME NEW i \in 1 .. n + 1 PROVE Handled(hs[i], q, lim) /\ Room(hs[i], dhs, q)
  <2>1. CASE i = n + 1
    <3>1. Len(c.to_dealloc) + Len(dhs[c.k]) = Len(ch)
      <4>1. Len(c.to_dealloc) = 0 /\ dhs[c.k] = ch /\ Len(ch) \in Nat
        BY <1>0a, <1>2a, Indices
      <4> QED BY <4>1
    <3> QED BY <2>1, <3>1, <1>2a, <1>8 DEF Room, Handled
  <2>2. CASE i = n
    <3>1. i \in 1 .. n
      BY <2>2, <1>3
    <3>2. hs[i] = fr
      BY <2>2, <3>1, <1>3, <1>8
    <3> QED BY <3>2 DEF Room
  <2>3. CASE i # n + 1 /\ i # n
    <3>1. i \in 1 .. n - 1 /\ i \in 1 .. n
      BY <2>3, <1>3
    <3>2. hs[i] = fs[i] /\ Handled(fs[i], m, lim) /\ Room(fs[i], chs, m) /\ FrameOK(fs[i], chs)
      BY <3>1, <1>1, <1>3, <1>8 DEF StackOK, n
    <3>3. Handled(fs[i], q, lim)
      BY <3>2 DEF Handled
    <3>4. Room(fs[i], dhs, q)
      <4> SUFFICES ASSUME fs[i].f = "handle" PROVE Len(fs[i].to_dealloc) + Len(dhs[fs[i].k]) <= q
        BY DEF Room
      <4>1. fs[i].k \in 1 .. l
        BY <3>2, <1>0 DEF FrameOK, ChainOf, l
      <4>2. dhs[fs[i].k] = chs[fs[i].k]
        BY <4>1, <1>0a
      <4>3. Len(fs[i].to_dealloc) + Len(chs[fs[i].k]) <= m
        BY <3>2 DEF Room
      <4>4. Len(fs[i].to_dealloc) \in Nat /\ Len(chs[fs[i].k]) \in Nat
        <5>1. fs[i].to_dealloc \in Seq(Ptr)
          BY <3>2, FrameIs DEF FrameOK, HandleSet
        <5>2. chs[fs[i].k] \in Seq(StateSet)
          BY <4>1, <1>0, Indices DEF l
        <5> QED BY <5>1, <5>2, Indices
      <4> DEFINE a == Len(fs[i].to_dealloc)
                 b == Len(chs[fs[i].k])
      <4>5. a \in Nat /\ b \in Nat /\ a + b <= m
        BY <4>3, <4>4
      <4> HIDE DEF a, b
      <4>6. a + b <= q
        BY <4>5
      <4> QED BY <4>2, <4>6 DEF a, b
    <3> QED BY <3>2, <3>3, <3>4
  <2> QED BY <2>1, <2>2, <2>3
<1>11. ~ Receives(c)
  BY <1>2a DEF Receives
<1>12. Stacked(hs, dhs, Nothing, q, lim, pn)
  BY <1>7, <1>8, <1>9, <1>10, <1>11, NothingIs, StackedIs
<1> QED BY <1>6, <1>12 DEF c, dhs

(* A call returns: memory goes to a call that waits for it.                *)
LEMMA ReturnStep ==
  ASSUME NEW fs, NEW chs, NEW rt, NEW m, NEW lim, NEW pn, Stacked(fs, chs, rt, m, lim, pn), fs # <<>>,
         Last(fs).f # "handle", NEW r, r.ptr # 0 => Last(fs).f = "alloc", r.err = TRUE => m >= lim,
         Last(fs).f = "alloc" /\ r.ptr = 0 => m >= lim
  PROVE  Stacked(Front(fs), chs, r, m, lim, pn)
<1> DEFINE gs == Front(fs)
           n == Len(fs)
<1>1. StackOK(fs, chs) /\ \A i \in 1 .. n : Handled(fs[i], m, lim) /\ Room(fs[i], chs, m)
  BY StackedIs
<1>2. fs \in Seq(FrameSet)
  BY <1>1 DEF StackOK
<1>3. /\ gs \in Seq(FrameSet) /\ Len(gs) = n - 1 /\ n \in Nat \ {0} /\ Last(fs) = fs[n]
      /\ \A i \in 1 .. n - 1 : gs[i] = fs[i]
  BY <1>2, Ends
<1>4. StackOK(gs, chs)
  BY <1>1, PopOK
<1>5. fs[1].f # "alloc" /\ \A i \in 1 .. n - 1 : Calls(fs[i], fs[i + 1])
  BY <1>1 DEF StackOK, Nested
<1>6. gs # <<>> <=> n - 1 # 0
  BY <1>3, EmptySeq
<1>7. gs # <<>> => Last(gs) = gs[n - 1]
  BY <1>3, Ends
<1> HIDE DEF gs, n
<1>8. gs # <<>> => Calls(Last(gs), Last(fs))
  <2> SUFFICES ASSUME gs # <<>> PROVE Calls(Last(gs), Last(fs))
    OBVIOUS
  <2>1. n - 1 \in 1 .. n - 1 /\ n - 1 + 1 = n
    BY <1>3, <1>6
  <2> QED BY <2>1, <1>3, <1>5, <1>7
<1>9. r.ptr # 0 => gs # <<>> /\ Receives(Last(gs))
  <2> SUFFICES ASSUME r.ptr # 0 PROVE gs # <<>> /\ Receives(Last(gs))
    OBVIOUS
  <2>1. Last(fs).f = "alloc"
    OBVIOUS
  <2>2. gs # <<>>
    BY <2>1, <1>3, <1>5, <1>6
  <2>3. Calls(Last(gs), Last(fs))
    BY <2>2, <1>8
  <2> QED BY <2>1, <2>2, <2>3 DEF Calls, Receives
<1>11. ASSUME gs # <<>>, Receives(Last(gs)), r.ptr = 0 PROVE m >= lim
  <2>1. Last(fs).f = "alloc"
    BY <1>8, <1>11 DEF Calls, Receives
  <2> QED BY <2>1, <1>11
<1>12. \A i \in 1 .. n - 1 : Handled(gs[i], m, lim) /\ Room(gs[i], chs, m)
  BY <1>1, <1>3
<1> QED BY <1>3, <1>4, <1>9, <1>11, <1>12, StackedIs DEF gs

(* handle_state returns, and its chain goes.                               *)
LEMMA ReturnHandleStep ==
  ASSUME NEW fs, NEW chs, NEW rt, NEW m, NEW lim, NEW pn, Stacked(fs, chs, rt, m, lim, pn), fs # <<>>,
         ChainsOK(chs), Last(fs).f = "handle"
  PROVE  chs # <<>> /\ Stacked(Front(fs), Front(chs), Nothing, m, lim, pn)
<1> DEFINE gs == Front(fs)
           dhs == Front(chs)
           n == Len(fs)
<1>1. StackOK(fs, chs) /\ \A i \in 1 .. n : Handled(fs[i], m, lim) /\ Room(fs[i], chs, m)
  BY StackedIs
<1>2. fs \in Seq(FrameSet) /\ chs \in Seq(Seq(StateSet))
  BY <1>1 DEF StackOK, ChainsOK
<1>3. /\ gs \in Seq(FrameSet) /\ Len(gs) = n - 1 /\ n \in Nat \ {0} /\ Last(fs) = fs[n]
      /\ \A i \in 1 .. n - 1 : gs[i] = fs[i]
  BY <1>2, Ends
<1>4. StackOK(gs, dhs) /\ chs # <<>>
  BY <1>1, PopHandleOK
<1>4a. Len(dhs) \in Nat /\ \A k \in 1 .. Len(dhs) : dhs[k] = chs[k]
  BY <1>2, <1>4, Ends, Indices
<1>5. \A i \in 1 .. n - 1 : Calls(fs[i], fs[i + 1])
  BY <1>1 DEF StackOK, Nested
<1>6. gs # <<>> <=> n - 1 # 0
  BY <1>3, EmptySeq
<1>7. gs # <<>> => Last(gs) = gs[n - 1]
  BY <1>3, Ends
<1> HIDE DEF gs, n, dhs
<1>8. gs # <<>> => Calls(Last(gs), Last(fs))
  <2> SUFFICES ASSUME gs # <<>> PROVE Calls(Last(gs), Last(fs))
    OBVIOUS
  <2>1. n - 1 \in 1 .. n - 1 /\ n - 1 + 1 = n
    BY <1>3, <1>6
  <2> QED BY <2>1, <1>3, <1>5, <1>7
<1>9. gs # <<>> => ~ Receives(Last(gs))
  BY <1>8 DEF Calls, Receives
<1>12. ASSUME NEW i \in 1 .. n - 1 PROVE Handled(gs[i], m, lim) /\ Room(gs[i], dhs, m)
  <2>1. i \in 1 .. n /\ gs[i] = fs[i] /\ i \in 1 .. Len(gs)
    BY <1>3
  <2>2. Handled(gs[i], m, lim) /\ Room(gs[i], chs, m) /\ FrameOK(gs[i], dhs)
    BY <2>1, <1>1, <1>4 DEF StackOK
  <2>3. gs[i].f = "handle" => dhs[gs[i].k] = chs[gs[i].k]
    <3> SUFFICES ASSUME gs[i].f = "handle" PROVE dhs[gs[i].k] = chs[gs[i].k]
      OBVIOUS
    <3>1. gs[i].k \in 0 .. Len(dhs) /\ gs[i].k # 0
      BY <2>2 DEF FrameOK, ChainOf
    <3> QED BY <3>1, <1>4a
  <2> QED BY <2>2, <2>3 DEF Room
<1> QED BY <1>3, <1>4, <1>9, <1>12, NothingIs, StackedIs DEF gs, dhs

(* A chain becomes longer by as many States as regions are mapped.         *)
LEMMA GrowStep ==
  ASSUME NEW fs, NEW chs, NEW rt, NEW m, NEW lim, NEW pn, Stacked(fs, chs, rt, m, lim, pn),
         ChainsOK(chs), NEW dhs, ChainsOK(dhs), Len(dhs) = Len(chs),
         \A k \in 1 .. Len(chs) : Keeps(chs, dhs, k), m \in Nat, lim \in Nat, NEW q, q \in Nat, m <= q,
         \A k \in 1 .. Len(chs) : Len(dhs[k]) + m <= Len(chs[k]) + q
  PROVE  Stacked(fs, dhs, rt, q, lim, pn)
<1> DEFINE n == Len(fs)
<1>1. /\ StackOK(fs, chs)
      /\ \A i \in 1 .. Len(fs) : Handled(fs[i], m, lim) /\ Room(fs[i], chs, m)
      /\ rt.ptr # 0 => fs # <<>> /\ Receives(Last(fs))
      /\ rt.err = TRUE => m >= lim
      /\ fs # <<>> /\ pn = FALSE /\ Last(fs).f # "program" /\ Receives(Last(fs)) /\ rt.ptr = 0
           => m >= lim
  BY StackedIs
<1>2. chs \in Seq(Seq(StateSet)) /\ dhs \in Seq(Seq(StateSet))
  BY DEF ChainsOK
<1>3. /\ Len(chs) \in Nat
      /\ \A k \in 1 .. Len(chs) : chs[k] \in Seq(StateSet) /\ dhs[k] \in Seq(StateSet)
  BY <1>2, Indices
<1>3a. \A k \in 1 .. Len(chs) : Len(chs[k]) \in Nat /\ Len(dhs[k]) \in Nat
  BY <1>3, Indices
<1>4. StackOK(fs, dhs)
  BY <1>1, <1>3, ChainsOKStack
<1>5. m >= lim => q >= lim
  OBVIOUS
<1>6. ASSUME NEW i \in 1 .. Len(fs) PROVE Handled(fs[i], q, lim) /\ Room(fs[i], dhs, q)
  <2>1. Handled(fs[i], q, lim)
    BY <1>1, <1>5 DEF Handled
  <2>2. Room(fs[i], dhs, q)
    <3> SUFFICES ASSUME fs[i].f = "handle" PROVE Len(fs[i].to_dealloc) + Len(dhs[fs[i].k]) <= q
      BY DEF Room
    <3>0. FrameOK(fs[i], chs) /\ fs[i] \in FrameSet
      BY <1>1 DEF StackOK, FrameOK
    <3>1. fs[i].k \in 1 .. Len(chs)
      BY <3>0, <1>3 DEF FrameOK, ChainOf
    <3>2. Len(fs[i].to_dealloc) + Len(chs[fs[i].k]) <= m
      BY <1>1 DEF Room
    <3>3. Len(dhs[fs[i].k]) + m <= Len(chs[fs[i].k]) + q
      BY <3>1
    <3>4. Len(fs[i].to_dealloc) \in Nat
      BY <3>0, FrameIs, Indices DEF HandleSet
    <3> DEFINE a == Len(fs[i].to_dealloc)
               b == Len(chs[fs[i].k])
               d == Len(dhs[fs[i].k])
    <3>5. a \in Nat /\ b \in Nat /\ d \in Nat /\ a + b <= m /\ d + m <= b + q
      BY <3>1, <3>2, <3>3, <3>4, <1>3a
    <3> HIDE DEF a, b, d
    <3>6. a + d <= q
      BY <3>5
    <3> QED BY <3>6 DEF a, d
  <2> QED BY <2>1, <2>2
<1> QED BY <1>1, <1>4, <1>5, <1>6, StackedIs

(* handle_state goes on with another State of its chain.                   *)
LEMMA CommitStep ==
  ASSUME NEW fs, NEW chs, NEW rt, NEW m, NEW lim, NEW pn, Stacked(fs, chs, rt, m, lim, pn), fs # <<>>,
         ChainsOK(chs), Last(fs).f = "handle", NEW dhs, Len(dhs) = Len(chs),
         NEW fr, FrameOK(fr, dhs), Same(Last(fs), fr), ~ Receives(fr), Room(fr, dhs, m),
         \A k \in 1 .. Len(chs) : k # Last(fs).k => dhs[k] = chs[k]
  PROVE  Stacked(Append(Front(fs), fr), dhs, Nothing, m, lim, pn)
<1> DEFINE gs == Append(Front(fs), fr)
           n == Len(fs)
<1>1. StackOK(fs, chs) /\ \A i \in 1 .. n : Handled(fs[i], m, lim) /\ Room(fs[i], chs, m)
  BY StackedIs
<1>2. fs \in Seq(FrameSet) /\ fr \in FrameSet
  BY <1>1 DEF StackOK, FrameOK
<1>2a. Len(chs) \in Nat
  BY Indices DEF ChainsOK
<1>3. /\ gs # <<>> /\ Len(gs) = n /\ n \in Nat \ {0}
      /\ \A i \in 1 .. n - 1 : gs[i] = fs[i]
      /\ gs[n] = fr /\ Last(gs) = fr
  BY <1>2, GotoIs
<1>4. \A i \in 1 .. n - 1 : FrameOK(fs[i], chs) /\ ChainOf(fs[i]) < Last(fs).k
  <2>1. /\ \A i \in 1 .. n : fs[i].f = "handle" => \A j \in 1 .. i - 1 : ChainOf(fs[j]) < fs[i].k
        /\ \A i \in 1 .. n : FrameOK(fs[i], chs)
    BY <1>1 DEF StackOK, Nested
  <2>2. Last(fs) = fs[n]
    BY <1>2, Ends
  <2> HIDE DEF n
  <2>3. n \in 1 .. n
    BY <1>3
  <2> QED BY <2>1, <2>2, <2>3, <1>3
<1> HIDE DEF gs, n
<1>5. ASSUME NEW i \in 1 .. n - 1
      PROVE  FrameOK(fs[i], dhs) /\ (fs[i].f = "handle" => dhs[fs[i].k] = chs[fs[i].k])
  <2>1. FrameOK(fs[i], chs) /\ ChainOf(fs[i]) < Last(fs).k
    BY <1>4
  <2>2. ChainOf(fs[i]) \in 0 .. Len(chs)
    BY <2>1 DEF FrameOK
  <2>3. Last(fs).k # ChainOf(fs[i])
    BY <2>1, <2>2, <1>2a
  <2>4. ChainOf(fs[i]) # 0 => dhs[ChainOf(fs[i])] = chs[ChainOf(fs[i])]
    BY <2>2, <2>3, <1>2a
  <2>5. ChainOf(fs[i]) # 0 => Keeps(chs, dhs, ChainOf(fs[i]))
    BY <2>4 DEF Keeps
  <2>6. FrameOK(fs[i], dhs)
    <3>1. ChainOf(fs[i]) \in 0 .. Len(dhs)
      BY <2>2
    <3> QED BY <2>1, <3>1, <2>5, FrameKeeps
  <2>7. fs[i].f = "handle" => dhs[fs[i].k] = chs[fs[i].k]
    BY <2>4, <2>1 DEF ChainOf, FrameOK
  <2> QED BY <2>6, <2>7
<1>6. StackOK(gs, dhs)
  <2>1. \A i \in 1 .. Len(fs) - 1 : FrameOK(fs[i], dhs)
    BY <1>5 DEF n
  <2> QED BY <1>1, <2>1, GotoOn DEF gs
<1>7. ASSUME NEW i \in 1 .. n PROVE Handled(gs[i], m, lim) /\ Room(gs[i], dhs, m)
  <2>1. CASE i = n
    <3>1. gs[i] = fr /\ fr.f = "handle"
      BY <2>1, <1>3 DEF Same
    <3> QED BY <3>1 DEF Handled
  <2>2. CASE i # n
    <3>1. i \in 1 .. n - 1
      BY <2>2, <1>3
    <3>2. gs[i] = fs[i] /\ Handled(fs[i], m, lim) /\ Room(fs[i], chs, m)
      BY <3>1, <1>1, <1>3
    <3> QED BY <3>1, <3>2, <1>5 DEF Room
  <2> QED BY <2>1, <2>2
<1> QED BY <1>3, <1>6, <1>7, NothingIs, StackedIs DEF gs

-----------------------------------------------------------------------------
(* The calls that are made                                                 *)

(* The chain that is handed to a call, or none.                            *)
Usable(st, chs) == st \in 0 .. Len(chs) /\ (st # 0 => chs[st] # <<>>)

(* A call of reserve ...                                                   *)
LEMMA ReserveIs ==
  ASSUME NEW chs, Len(chs) \in Nat, NEW v, v \in Vectors, NEW add, add \in Nat,
         NEW put, put \in Seq(Ptr), NEW st, Usable(st, chs), NEW counted, counted \in BOOLEAN,
         NEW m, NEW lim
  PROVE  LET c == Reserve(v, add, put, st, counted) IN
         FrameOK(c, chs) /\ c.f = "reserve" /\ ~ Receives(c) /\ Handled(c, m, lim)
<1> DEFINE c == Reserve(v, add, put, st, counted)
<1>1. c = [f |-> "reserve", at |-> "test", v |-> v, add |-> add, put |-> put, st |-> st,
           counted |-> counted, min_cap |-> 0, cap |-> 0]
  BY DEF Reserve
<1>2. st \in Nat
  BY DEF Usable
<1> HIDE DEF c
<1>3. c \in ReserveSet
  BY <1>1, <1>2 DEF ReserveSet
<1>4. c.f = "reserve" /\ c.at = "test" /\ c.st = st
  BY <1>1
<1>5. ChainOf(c) = st /\ HasChunk(c) /\ HasCap(c) /\ InPass(c, chs)
  BY <1>4 DEF ChainOf, HasChunk, HasCap, InPass
<1>6. FrameOK(c, chs)
  BY <1>3, <1>4, <1>5 DEF FrameOK, FrameSet, Usable
<1>7. ~ Receives(c) /\ Handled(c, m, lim)
  BY <1>4 DEF Receives, Handled
<1> QED BY <1>4, <1>6, <1>7 DEF c

(* ... and one of try_alloc or self_alloc_.                                *)
LEMMA AllocIs ==
  ASSUME NEW chs, Len(chs) \in Nat, NEW size, size \in Sizes, NEW st, Usable(st, chs),
         NEW counted, counted \in BOOLEAN, NEW own, own \in BOOLEAN, NEW m, NEW lim
  PROVE  LET c == Alloc(size, st, counted, own) IN
         FrameOK(c, chs) /\ c.f = "alloc" /\ ~ Receives(c) /\ Handled(c, m, lim)
<1> DEFINE c == Alloc(size, st, counted, own)
<1>1. c = [f |-> "alloc", at |-> "pop", size |-> size, st |-> st, counted |-> counted, own |-> own,
           chunk |-> 0, large |-> 0]
  BY DEF Alloc
<1>2. st \in Nat
  BY DEF Usable
<1> HIDE DEF c
<1>3. c \in AllocSet
  BY <1>1, <1>2 DEF AllocSet
<1>4. c.f = "alloc" /\ c.at = "pop" /\ c.st = st
  BY <1>1
<1>5. ChainOf(c) = st /\ HasChunk(c) /\ HasCap(c) /\ InPass(c, chs)
  BY <1>4 DEF ChainOf, HasChunk, HasCap, InPass
<1>6. FrameOK(c, chs)
  BY <1>3, <1>4, <1>5 DEF FrameOK, FrameSet, Usable
<1>7. ~ Receives(c) /\ Handled(c, m, lim)
  BY <1>4 DEF Receives, Handled
<1> QED BY <1>4, <1>6, <1>7 DEF c

(* The vectors.                                                            *)
LEMMA VectorsAre ==
  /\ \A s \in Sizes : Objects(s) \in Vectors /\ Chunks(s) \in Vectors
  /\ Regions \in Vectors
  /\ \A c \in Classes : FreeChunks(c) \in Vectors
  BY DEF Vectors

(* The size of an element.                                                 *)
LEMMA ElemIs ==
  ASSUME NEW v
  PROVE  SizeOfElem(v) \in Nat \ {0}
  BY Constants DEF SizeOfElem

(* The memory of an object goes to a vector that exists.                   *)
LEMMA DeallocIs ==
  ASSUME NEW chs, Len(chs) \in Nat, NEW ptr, ptr \in Ptr, NEW size, size \in Nat \ {0},
         \E s \in Sizes : size <= s, NEW st, Usable(st, chs), NEW m, NEW lim
  PROVE  LET c == Dealloc(ptr, size, st) IN
         FrameOK(c, chs) /\ c.f = "reserve" /\ ~ Receives(c) /\ Handled(c, m, lim)
<1> DEFINE v == Objects(RecommendedSize(size))
           one == 1
           put == <<ptr>>
           no == FALSE
           c == Dealloc(ptr, size, st)
<1>1. RecommendedSize(size) \in Sizes
  BY RecommendedIs
<1>2. v \in Vectors
  BY <1>1, VectorsAre
<1>3. put \in Seq(Ptr) /\ one \in Nat /\ no \in BOOLEAN
  OBVIOUS
<1>4. c = Reserve(v, one, put, st, no)
  BY DEF Dealloc
<1> HIDE DEF v, one, put, no, c
<1>5. LET d == Reserve(v, one, put, st, no) IN
      FrameOK(d, chs) /\ d.f = "reserve" /\ ~ Receives(d) /\ Handled(d, m, lim)
  BY <1>2, <1>3, ReserveIs
<1> QED BY <1>4, <1>5 DEF c

(* The buffer of a vector is such an object.                               *)
LEMMA DeallocBuffer ==
  ASSUME NEW chs, Len(chs) \in Nat, NEW ptr, ptr \in Ptr, NEW v, NEW cap, cap \in Nat, Fits(v, cap),
         NEW st, Usable(st, chs), NEW m, NEW lim
  PROVE  LET c == Dealloc(ptr, cap * SizeOfElem(v), st) IN
         FrameOK(c, chs) /\ c.f = "reserve" /\ ~ Receives(c) /\ Handled(c, m, lim)
<1> DEFINE size == cap * SizeOfElem(v)
<1>1. size \in Nat \ {0}
  BY ElemIs DEF Fits
<1>2. \E s \in Sizes : size <= s
  BY DEF Fits
<1> HIDE DEF size
<1> QED BY <1>1, <1>2, DeallocIs DEF size

(* The memory of a State, too.                                             *)
LEMMA DeallocState ==
  ASSUME NEW chs, Len(chs) \in Nat, NEW ptr, ptr \in Ptr, NEW st, Usable(st, chs), NEW m, NEW lim
  PROVE  LET c == Dealloc(ptr, SIZE_OF_STATE, st) IN
         FrameOK(c, chs) /\ c.f = "reserve" /\ ~ Receives(c) /\ Handled(c, m, lim)
<1>1. SIZE_OF_STATE \in Nat \ {0} /\ \E s \in Sizes : SIZE_OF_STATE <= s
  BY SelfAllocAssumption
<1> QED BY <1>1, DeallocIs

(* What alloc_with asks for.                                               *)
LEMMA AskIs ==
  ASSUME NEW v, NEW min_cap, min_cap \in Nat \ {0}
  PROVE  LET size == RecommendedSize(NextPowerOfTwo(min_cap * SizeOfElem(v)))
             cap == size \div SizeOfElem(v) IN
         size \in Nat \ {0} /\ cap \in Nat /\ (size \in Sizes => Fits(v, cap))
<1> DEFINE e == SizeOfElem(v)
           a == min_cap * e
           p == NextPowerOfTwo(a)
           size == RecommendedSize(p)
           cap == size \div e
<1>1. e \in Nat \ {0}
  BY ElemIs
<1>2. a \in Nat /\ a >= e
  <2> HIDE DEF e
  <2>1. a = min_cap * e
    OBVIOUS
  <2> QED BY <1>1, <2>1
<1>3. p \in Nat /\ p >= a
  <2> HIDE DEF a
  <2> QED BY <1>2, NextPowerIs
<1> HIDE DEF a
<1>4. size \in Nat \ {0} /\ size >= p
  <2>1. p \in Nat \ {0}
    <3> HIDE DEF p, e
    <3> QED BY <1>1, <1>2, <1>3
  <2> HIDE DEF p
  <2> QED BY <2>1, RecommendedIs
<1>5. size >= e
  <2> HIDE DEF p, e, size
  <2> QED BY <1>1, <1>2, <1>3, <1>4
<1>6. cap \in Nat /\ cap * e <= size /\ cap # 0
  <2> HIDE DEF e, size
  <2> QED BY <1>1, <1>4, <1>5, DivIs
<1>7. size \in Sizes => Fits(v, cap)
  <2> SUFFICES ASSUME size \in Sizes PROVE Fits(v, cap)
    OBVIOUS
  <2> HIDE DEF size, cap
  <2> QED BY <1>6 DEF Fits, e
<1> QED BY <1>4, <1>6, <1>7 DEF a, p

-----------------------------------------------------------------------------
(* The steps                                                               *)

(* The invariant, in the form the lemmas about the stack take it.          *)
LEMMA BaseIs ==
  Base <=> TypeOK /\ Stacked(frames, chains, ret, mapped, limit, panicked)
  BY DEF Base, Stacked

(* The call on top.                                                        *)
LEMMA TopIs ==
  ASSUME Base, frames # <<>>
  PROVE  /\ Top = Last(frames) /\ FrameOK(Top, chains) /\ Top \in FrameSet
         /\ Handled(Top, mapped, limit) /\ Room(Top, chains, mapped)
         /\ frames \in Seq(FrameSet) /\ chains \in Seq(Seq(StateSet)) /\ Len(chains) \in Nat
         /\ ChainsOK(chains)
<1>1. Stacked(frames, chains, ret, mapped, limit, panicked) /\ ChainsOK(chains)
  BY BaseIs DEF TypeOK
<1>2. /\ StackOK(frames, chains)
      /\ \A i \in 1 .. Len(frames) : Handled(frames[i], mapped, limit) /\ Room(frames[i], chains, mapped)
  BY <1>1, StackedIs
<1>3. frames \in Seq(FrameSet) /\ chains \in Seq(Seq(StateSet))
  BY <1>1, <1>2 DEF StackOK, ChainsOK
<1>4. Len(frames) \in Nat \ {0} /\ Last(frames) = frames[Len(frames)]
  BY <1>3, Ends
<1>5. Len(frames) \in 1 .. Len(frames)
  BY <1>4
<1>6. FrameOK(Last(frames), chains)
  BY <1>2, <1>4, <1>5 DEF StackOK
<1>7. Len(chains) \in Nat
  BY <1>3, Indices
<1> QED BY <1>1, <1>2, <1>3, <1>4, <1>5, <1>6, <1>7 DEF Top, FrameOK

(* A call of reserve on top.                                               *)
LEMMA ReserveTop ==
  ASSUME Base, frames # <<>>, Top.f = "reserve"
  PROVE  /\ Top \in ReserveSet /\ Top.v \in Vectors /\ Top.add \in Nat /\ Top.put \in Seq(Ptr)
         /\ Top.st \in Nat /\ Top.counted \in BOOLEAN /\ Top.min_cap \in Nat /\ Top.cap \in Nat
         /\ Usable(Top.st, chains)
         /\ Top.at = "got" => Fits(Top.v, Top.cap)
         /\ Top.at = "retry" => Top.min_cap # 0
         /\ vecs[Top.v] \in VecSet /\ vecs[Top.v].cap \in Nat /\ vecs[Top.v].ptr \in Nat
         /\ vecs[Top.v].items \in Seq(Ptr)
         /\ MinCap \in Nat
<1>1. FrameOK(Top, chains) /\ Top \in FrameSet
  BY TopIs
<1>2. Top \in ReserveSet
  BY <1>1, FrameIs
<1>3. /\ Top.v \in Vectors /\ Top.add \in Nat /\ Top.put \in Seq(Ptr)
      /\ Top.st \in Nat /\ Top.counted \in BOOLEAN /\ Top.min_cap \in Nat /\ Top.cap \in Nat
  BY <1>2 DEF ReserveSet
<1>4. Usable(Top.st, chains)
  BY <1>1 DEF FrameOK, ChainOf, Usable
<1>5. /\ Top.at = "got" => Fits(Top.v, Top.cap)
      /\ Top.at = "retry" => Top.min_cap # 0
  BY <1>1 DEF FrameOK, HasCap
<1>6. vecs[Top.v] \in VecSet
  BY <1>3 DEF Base, TypeOK, VecsOK
<1>7. vecs[Top.v].cap \in Nat /\ vecs[Top.v].ptr \in Nat /\ vecs[Top.v].items \in Seq(Ptr)
  BY <1>6 DEF VecSet
<1>8. MinCap \in Nat
  <2>1. Len(vecs[Top.v].items) \in Nat
    BY <1>7, Indices
  <2> QED BY <2>1, <1>3 DEF MinCap, Size
<1> QED BY <1>2, <1>3, <1>4, <1>5, <1>6, <1>7, <1>8

(* The callee of a call is in the stack.                                   *)
LEMMA CalleeIn ==
  ASSUME NEW fs, fs \in Seq(FrameSet), fs # <<>>, NEW fr, NEW c,
         NEW gs, gs = Front(fs) \o <<fr, c>>,
         \A i \in DOMAIN gs : gs[i].f = "alloc" => gs[i].size \in Sizes, c.f = "alloc"
  PROVE  c.size \in Sizes
<1> DEFINE S == FrameSet \union {fr, c}
<1>1. fr \in S /\ c \in S
  OBVIOUS
<1>2. fs \in Seq(S)
  <2> DEFINE n == Len(fs)
  <2>1. n \in Nat /\ fs \in [1 .. n -> FrameSet]
    BY LenProperties
  <2> HIDE DEF n
  <2>2. fs \in [1 .. n -> S]
    BY <2>1
  <2> HIDE DEF S
  <2> QED BY <2>1, <2>2, MapIs
<1> HIDE DEF S
<1>3. /\ gs \in Seq(S) /\ Len(gs) = Len(fs) + 1 /\ Len(fs) \in Nat \ {0} /\ gs[Len(fs) + 1] = c
  BY <1>1, <1>2, CallIs
<1>4. Len(fs) + 1 \in DOMAIN gs
  <2>1. DOMAIN gs = 1 .. Len(gs)
    BY <1>3, Indices
  <2>2. Len(fs) + 1 \in 1 .. Len(fs) + 1
    BY <1>3
  <2> QED BY <2>1, <2>2, <1>3
<1> QED BY <1>3, <1>4

(* alloc_with: the vector waits for a buffer.                              *)
LEMMA AllocWithIs ==
  ASSUME Base, frames # <<>>, Top.f = "reserve", NEW min_cap, min_cap \in Nat \ {0},
         AllocWith(Top, min_cap), WithinSizes'
  PROVE  Stacked(frames', chains, ret', mapped, limit, panicked) /\ ret' \in RetSet
<1> DEFINE e == SizeOfElem(Top.v)
           size == RecommendedSize(NextPowerOfTwo(min_cap * e))
           cap == size \div e
           fr == [Top EXCEPT !.at = "got", !.cap = cap]
           c == Alloc(size, Top.st, Top.counted, TRUE)
<1>1. frames' = Front(frames) \o <<fr, c>> /\ ret' = Nothing
  BY DEF AllocWith, Call
<1>2. size \in Nat \ {0} /\ cap \in Nat /\ (size \in Sizes => Fits(Top.v, cap))
  BY AskIs
<1>3. c.f = "alloc" /\ c.size = size
  BY DEF Alloc
<1>4. \A i \in DOMAIN frames' : frames'[i].f = "alloc" => frames'[i].size \in Sizes
  BY DEF WithinSizes
<1>5. frames \in Seq(FrameSet) /\ Len(chains) \in Nat
  BY TopIs
<1> HIDE DEF fr, c
<1>6. c.size \in Sizes
  BY <1>1, <1>3, <1>4, <1>5, CalleeIn
<1>7. size \in Sizes /\ Fits(Top.v, cap)
  BY <1>2, <1>3, <1>6
<1> HIDE DEF size, cap, e
<1>8. /\ Top \in ReserveSet /\ Top.st \in Nat /\ Top.counted \in BOOLEAN /\ Usable(Top.st, chains)
      /\ Top = Last(frames) /\ FrameOK(Top, chains)
  BY ReserveTop, TopIs
<1>9. FrameOK(c, chains) /\ ~ Receives(c) /\ Handled(c, mapped, limit)
  <2> DEFINE yes == TRUE
  <2>1. yes \in BOOLEAN /\ c = Alloc(size, Top.st, Top.counted, yes)
    BY DEF c
  <2> HIDE DEF yes
  <2> QED BY <1>5, <1>7, <1>8, <2>1, AllocIs
<1>10. fr \in ReserveSet
  BY <1>2, <1>8 DEF ReserveSet, fr
<1>11. fr.f = "reserve" /\ fr.at = "got" /\ fr.cap = cap /\ fr.v = Top.v /\ fr.st = Top.st
  BY <1>8 DEF ReserveSet, fr
<1>12. FrameOK(fr, chains)
  <2>1. ChainOf(fr) = Top.st
    BY <1>11 DEF ChainOf
  <2>2. HasChunk(fr) /\ HasCap(fr) /\ InPass(fr, chains)
    BY <1>7, <1>11 DEF HasChunk, HasCap, InPass
  <2> QED BY <1>8, <1>10, <1>11, <2>1, <2>2 DEF FrameOK, FrameSet, Usable
<1>13. Same(Last(frames), fr)
  <2>1. Last(frames).f = "reserve" /\ Last(frames).st = fr.st
    BY <1>8, <1>11
  <2> QED BY <1>11, <2>1 DEF Same, ChainOf
<1>14. Handled(fr, mapped, limit) /\ Room(fr, chains, mapped) /\ Calls(fr, c) /\ c.f # "handle"
  BY <1>3, <1>11 DEF Handled, Room, Calls
<1>15. Stacked(frames, chains, ret, mapped, limit, panicked)
  BY BaseIs
<1>16. Stacked(Front(frames) \o <<fr, c>>, chains, Nothing, mapped, limit, panicked)
  BY <1>9, <1>12, <1>13, <1>14, <1>15, CallStep
<1> QED BY <1>1, <1>16, NothingIs

(* A step that changes vectors and the stack only.                         *)
LEMMA VecsStep ==
  ASSUME Base, UNCHANGED <<nlpm, table, chains, mapped, dropped, user, panicked, ops, limit>>,
         VecsOK(vecs'), ret' \in RetSet, Stacked(frames', chains, ret', mapped, limit, panicked)
  PROVE  Base'
  BY DEF Base, TypeOK, Stacked

(* Elements are added to the vectors; the buffers stay.                    *)
LEMMA ItemsOK ==
  ASSUME NEW vs, VecsOK(vs), NEW ws, DOMAIN ws = Vectors, ws = [v \in Vectors |-> ws[v]],
         \A v \in Vectors : ws[v] \in VecSet /\ ws[v].cap = vs[v].cap /\ ws[v].ptr = vs[v].ptr
  PROVE  VecsOK(ws)
<1>1. ws \in [Vectors -> VecSet]
  OBVIOUS
<1> QED BY <1>1 DEF VecsOK

(* One vector is changed.                                                  *)
LEMMA OneVector ==
  ASSUME NEW vs, VecsOK(vs), NEW v, v \in Vectors, NEW r, r \in VecSet,
         r.cap # 0 => r.ptr # 0 /\ Fits(v, r.cap)
  PROVE  VecsOK([vs EXCEPT ![v] = r])
  BY DEF VecsOK

(* Elements are put at the end of a vector.                                *)
LEMMA PutOK ==
  ASSUME NEW vs, VecsOK(vs), NEW v, v \in Vectors, NEW put, put \in Seq(Ptr)
  PROVE  VecsOK([vs EXCEPT ![v].items = @ \o put])
<1> DEFINE r == [vs[v] EXCEPT !.items = @ \o put]
<1>1. vs[v] \in VecSet /\ (vs[v].cap # 0 => vs[v].ptr # 0 /\ Fits(v, vs[v].cap))
  BY DEF VecsOK
<1>2. vs[v].items \in Seq(Ptr)
  BY <1>1 DEF VecSet
<1>3. vs[v].items \o put \in Seq(Ptr)
  BY <1>2, ConcatIs
<1>4. r \in VecSet /\ r.cap = vs[v].cap /\ r.ptr = vs[v].ptr
  BY <1>1, <1>3 DEF VecSet
<1>5. [vs EXCEPT ![v].items = @ \o put] = [vs EXCEPT ![v] = r]
  OBVIOUS
<1> HIDE DEF r
<1> QED BY <1>1, <1>4, <1>5, OneVector

(* The last element of a vector is taken.                                  *)
LEMMA PopVec ==
  ASSUME NEW vs, VecsOK(vs), NEW v, v \in Vectors, vs[v].items # <<>>
  PROVE  VecsOK([vs EXCEPT ![v].items = Front(@)]) /\ Last(vs[v].items) \in Ptr
<1> DEFINE r == [vs[v] EXCEPT !.items = Front(@)]
<1>1. vs[v] \in VecSet /\ (vs[v].cap # 0 => vs[v].ptr # 0 /\ Fits(v, vs[v].cap))
  BY DEF VecsOK
<1>2. vs[v].items \in Seq(Ptr)
  BY <1>1 DEF VecSet
<1>3. Front(vs[v].items) \in Seq(Ptr) /\ Last(vs[v].items) \in Ptr
  BY <1>2, Ends
<1>4. r \in VecSet /\ r.cap = vs[v].cap /\ r.ptr = vs[v].ptr
  BY <1>1, <1>3 DEF VecSet
<1>5. [vs EXCEPT ![v].items = Front(@)] = [vs EXCEPT ![v] = r]
  OBVIOUS
<1> HIDE DEF r
<1> QED BY <1>1, <1>3, <1>4, <1>5, OneVector

(* reserve returns after the elements are written.                         *)
LEMMA FinishIs ==
  ASSUME Base, frames # <<>>, Top.f = "reserve", NEW vs, VecsOK(vs), NEW grew, grew \in BOOLEAN,
         Finish(vs, grew)
  PROVE  /\ VecsOK(vecs') /\ ret' \in RetSet
         /\ Stacked(frames', chains, ret', mapped, limit, panicked)
<1>1. Top.v \in Vectors /\ Top.put \in Seq(Ptr) /\ Top = Last(frames)
  BY ReserveTop, TopIs
<1>2. VecsOK(vecs')
  BY <1>1, PutOK DEF Finish
<1> DEFINE r == [Nothing EXCEPT !.grew = grew]
<1>3. r.ptr = 0 /\ r.err = FALSE /\ r \in RetSet
  BY DEF Nothing, RetSet
<1>4. ret' = r /\ frames' = Front(frames)
  BY DEF Finish, Return
<1> HIDE DEF r
<1>5. Stacked(frames, chains, ret, mapped, limit, panicked)
  BY BaseIs
<1>6. Last(frames).f # "handle" /\ Last(frames).f # "alloc"
  BY <1>1
<1>7. Stacked(Front(frames), chains, r, mapped, limit, panicked)
  BY <1>3, <1>5, <1>6, ReturnStep
<1> QED BY <1>2, <1>3, <1>4, <1>7

(* reserve                                                                 *)
LEMMA ReserveTestKeeps ==
  ASSUME Base, WithinSizes', ReserveTest
  PROVE  Base'
<1>1. frames # <<>> /\ Top.f = "reserve"
  BY DEF ReserveTest, At
<1>2. UNCHANGED <<nlpm, table, chains, mapped, dropped, user, panicked, ops, limit>>
  BY DEF ReserveTest
<1>3. vecs[Top.v].cap \in Nat /\ MinCap \in Nat /\ VecsOK(vecs)
  BY <1>1, ReserveTop DEF Base, TypeOK
<1>4. CASE vecs[Top.v].cap >= MinCap
  <2> DEFINE no == FALSE
  <2>1. Finish(vecs, no) /\ no \in BOOLEAN
    BY <1>4 DEF ReserveTest
  <2> HIDE DEF no
  <2>2. VecsOK(vecs') /\ ret' \in RetSet /\ Stacked(frames', chains, ret', mapped, limit, panicked)
    BY <1>1, <1>3, <2>1, FinishIs
  <2> QED BY <1>2, <2>2, VecsStep
<1>5. CASE ~ (vecs[Top.v].cap >= MinCap)
  <2>1. AllocWith(Top, MinCap) /\ UNCHANGED vecs
    BY <1>5 DEF ReserveTest
  <2>2. MinCap \in Nat \ {0}
    BY <1>3, <1>5
  <2>3. Stacked(frames', chains, ret', mapped, limit, panicked) /\ ret' \in RetSet
    BY <1>1, <2>1, <2>2, AllocWithIs
  <2>4. VecsOK(vecs')
    BY <1>3, <2>1
  <2> QED BY <1>2, <2>3, <2>4, VecsStep
<1> QED BY <1>4, <1>5

(* reserve goes on after a call of dealloc.                                *)
LEMMA DeallocCall ==
  ASSUME Base, frames # <<>>, Top.f = "reserve", NEW at, at \in {"retry", "freed"},
         NEW min_cap, min_cap \in Nat, at = "retry" => min_cap # 0,
         NEW fr, fr = [Top EXCEPT !.at = at, !.min_cap = min_cap],
         NEW ptr, ptr \in Ptr, NEW cap, cap \in Nat, Fits(Top.v, cap),
         Call(fr, Dealloc(ptr, cap * SizeOfElem(Top.v), Top.st))
  PROVE  Stacked(frames', chains, ret', mapped, limit, panicked) /\ ret' \in RetSet
<1> DEFINE c == Dealloc(ptr, cap * SizeOfElem(Top.v), Top.st)
<1>1. frames' = Front(frames) \o <<fr, c>> /\ ret' = Nothing
  BY DEF Call
<1>2. /\ Top \in ReserveSet /\ Top.st \in Nat /\ Usable(Top.st, chains)
      /\ Top = Last(frames) /\ FrameOK(Top, chains) /\ Len(chains) \in Nat
  BY ReserveTop, TopIs
<1>3. FrameOK(c, chains) /\ c.f = "reserve" /\ ~ Receives(c) /\ Handled(c, mapped, limit)
  BY <1>2, DeallocBuffer
<1> HIDE DEF c
<1>4. fr \in ReserveSet
  BY <1>2 DEF ReserveSet
<1>5. fr.f = "reserve" /\ fr.at = at /\ fr.min_cap = min_cap /\ fr.st = Top.st
  BY <1>2 DEF ReserveSet
<1>6. FrameOK(fr, chains)
  <2>1. ChainOf(fr) = Top.st
    BY <1>5 DEF ChainOf
  <2>2. HasChunk(fr) /\ HasCap(fr) /\ InPass(fr, chains)
    BY <1>5 DEF HasChunk, HasCap, InPass
  <2> QED BY <1>2, <1>4, <1>5, <2>1, <2>2 DEF FrameOK, FrameSet, Usable
<1>7. Same(Last(frames), fr)
  <2>1. Last(frames).f = "reserve" /\ Last(frames).st = fr.st
    BY <1>2, <1>5
  <2> QED BY <1>5, <2>1 DEF Same, ChainOf
<1>8. Handled(fr, mapped, limit) /\ Room(fr, chains, mapped) /\ Calls(fr, c) /\ c.f # "handle"
  BY <1>3, <1>5 DEF Handled, Room, Calls
<1>9. Stacked(frames, chains, ret, mapped, limit, panicked)
  BY BaseIs
<1>10. Stacked(Front(frames) \o <<fr, c>>, chains, Nothing, mapped, limit, panicked)
  BY <1>3, <1>6, <1>7, <1>8, <1>9, CallStep
<1> QED BY <1>1, <1>10, NothingIs

(* reserve_slow, with the new buffer                                       *)
LEMMA ReserveGotKeeps ==
  ASSUME Base, WithinSizes', ReserveGot
  PROVE  Base'
<1> DEFINE old == vecs[Top.v]
           new == [vecs EXCEPT ![Top.v].ptr = ret.ptr, ![Top.v].cap = Top.cap]
<1>1. frames # <<>> /\ Top.f = "reserve" /\ Top.at = "got" /\ panicked # TRUE
  BY DEF ReserveGot, At
<1>2. UNCHANGED <<nlpm, table, chains, mapped, dropped, user, panicked, ops, limit>>
  BY DEF ReserveGot
<1>3. /\ MinCap \in Nat /\ VecsOK(vecs) /\ ret \in RetSet /\ Top.cap \in Nat /\ Fits(Top.v, Top.cap)
      /\ Top.v \in Vectors /\ Top \in ReserveSet /\ Top.min_cap \in Nat /\ old \in VecSet
      /\ old.cap \in Nat /\ old.ptr \in Nat /\ old.items \in Seq(Ptr) /\ panicked \in BOOLEAN
  BY <1>1, ReserveTop DEF Base, TypeOK
<1>4. ret.ptr \in Nat
  BY <1>3 DEF RetSet
<1>4a. Top.cap # 0
  BY <1>3 DEF Fits
<1>5. \/ /\ MinCap > Top.cap
         /\ IF ret.ptr = 0 THEN AllocWith(Top, MinCap)
            ELSE Call([Top EXCEPT !.at = "retry", !.min_cap = MinCap],
                      Dealloc(ret.ptr, Top.cap * SizeOfElem(Top.v), Top.st))
         /\ UNCHANGED vecs
      \/ /\ MinCap <= Top.cap /\ ret.ptr = 0
         /\ ReturnErr
         /\ UNCHANGED vecs
      \/ /\ MinCap <= Top.cap /\ ret.ptr # 0 /\ old.cap = 0
         /\ Finish(new, TRUE)
      \/ /\ MinCap <= Top.cap /\ ret.ptr # 0 /\ old.cap # 0
         /\ vecs' = new
         /\ Call([Top EXCEPT !.at = "freed"],
                 Dealloc(old.ptr, old.cap * SizeOfElem(Top.v), Top.st))
  BY DEF ReserveGot
<1>6. ret.ptr # 0 => VecsOK(new)
  <2> SUFFICES ASSUME ret.ptr # 0 PROVE VecsOK(new)
    OBVIOUS
  <2> DEFINE r == [old EXCEPT !.ptr = ret.ptr, !.cap = Top.cap]
  <2>1. r \in VecSet /\ r.cap = Top.cap /\ r.ptr = ret.ptr
    BY <1>3, <1>4 DEF VecSet
  <2>2. new = [vecs EXCEPT ![Top.v] = r]
    BY <1>3
  <2> HIDE DEF r
  <2> QED BY <1>3, <2>1, <2>2, OneVector
<1> HIDE DEF new
<1>7. CASE MinCap > Top.cap /\ ret.ptr = 0 /\ AllocWith(Top, MinCap) /\ UNCHANGED vecs
  <2>2. MinCap \in Nat \ {0}
    BY <1>3, <1>7
  <2>3. Stacked(frames', chains, ret', mapped, limit, panicked) /\ ret' \in RetSet
    BY <1>1, <1>7, <2>2, AllocWithIs
  <2>4. VecsOK(vecs')
    BY <1>3, <1>7
  <2> QED BY <1>2, <2>3, <2>4, VecsStep
<1>8. CASE /\ MinCap > Top.cap /\ ret.ptr # 0 /\ UNCHANGED vecs
           /\ Call([Top EXCEPT !.at = "retry", !.min_cap = MinCap],
                   Dealloc(ret.ptr, Top.cap * SizeOfElem(Top.v), Top.st))
  <2> DEFINE at == "retry"
             fr == [Top EXCEPT !.at = at, !.min_cap = MinCap]
  <2>1. Call(fr, Dealloc(ret.ptr, Top.cap * SizeOfElem(Top.v), Top.st))
    BY <1>8
  <2>2. at \in {"retry", "freed"} /\ MinCap # 0 /\ ret.ptr \in Ptr
    BY <1>3, <1>4, <1>4a, <1>8 DEF Ptr
  <2>3. fr = [Top EXCEPT !.at = at, !.min_cap = MinCap]
    OBVIOUS
  <2> HIDE DEF at, fr
  <2>4. Stacked(frames', chains, ret', mapped, limit, panicked) /\ ret' \in RetSet
    BY <1>1, <1>3, <2>1, <2>2, <2>3, DeallocCall
  <2>5. VecsOK(vecs')
    BY <1>3, <1>8
  <2> QED BY <1>2, <2>4, <2>5, VecsStep
<1>9. CASE MinCap <= Top.cap /\ ret.ptr = 0 /\ ReturnErr /\ UNCHANGED vecs
  <2> DEFINE r == [Nothing EXCEPT !.err = TRUE]
  <2>1. r.ptr = 0 /\ r \in RetSet
    BY DEF Nothing, RetSet
  <2>2. ret' = r /\ frames' = Front(frames)
    BY <1>9 DEF ReturnErr, Return
  <2> HIDE DEF r
  <2>3. Stacked(frames, chains, ret, mapped, limit, panicked) /\ Top = Last(frames)
    BY <1>1, BaseIs, TopIs
  <2>4. Last(frames).f # "handle" /\ Last(frames).f # "alloc" /\ Last(frames).f # "program"
        /\ Receives(Last(frames))
    BY <1>1, <2>3 DEF Receives
  <2>5. mapped >= limit
    <3>1. panicked = FALSE
      BY <1>1, <1>3
    <3> QED BY <1>1, <1>9, <2>3, <2>4, <3>1, StackedIs
  <2>6. Stacked(Front(frames), chains, r, mapped, limit, panicked)
    BY <1>1, <2>1, <2>3, <2>4, <2>5, ReturnStep
  <2>7. VecsOK(vecs')
    BY <1>3, <1>9
  <2>8. Stacked(frames', chains, ret', mapped, limit, panicked) /\ ret' \in RetSet
    BY <2>1, <2>2, <2>6
  <2> QED BY <1>2, <2>7, <2>8, VecsStep
<1>10. CASE MinCap <= Top.cap /\ ret.ptr # 0 /\ old.cap = 0 /\ Finish(new, TRUE)
  <2> DEFINE yes == TRUE
  <2>1. Finish(new, yes) /\ yes \in BOOLEAN
    BY <1>10
  <2> HIDE DEF yes
  <2>2. VecsOK(vecs') /\ ret' \in RetSet /\ Stacked(frames', chains, ret', mapped, limit, panicked)
    BY <1>1, <1>6, <1>10, <2>1, FinishIs
  <2> QED BY <1>2, <2>2, VecsStep
<1>11. CASE /\ MinCap <= Top.cap /\ ret.ptr # 0 /\ old.cap # 0 /\ vecs' = new
            /\ Call([Top EXCEPT !.at = "freed"],
                    Dealloc(old.ptr, old.cap * SizeOfElem(Top.v), Top.st))
  <2> DEFINE at == "freed"
             fr == [Top EXCEPT !.at = at, !.min_cap = Top.min_cap]
  <2>1. [Top EXCEPT !.at = "freed"] = fr
    BY <1>3 DEF ReserveSet
  <2>2. Call(fr, Dealloc(old.ptr, old.cap * SizeOfElem(Top.v), Top.st))
    BY <1>11, <2>1
  <2>3. Fits(Top.v, old.cap) /\ old.ptr \in Ptr
    BY <1>3, <1>11 DEF VecsOK, Ptr
  <2>4. at \in {"retry", "freed"} /\ at # "retry" /\ fr = [Top EXCEPT !.at = at, !.min_cap = Top.min_cap]
    OBVIOUS
  <2> HIDE DEF at, fr, old
  <2>5. Stacked(frames', chains, ret', mapped, limit, panicked) /\ ret' \in RetSet
    BY <1>1, <1>3, <2>2, <2>3, <2>4, DeallocCall
  <2>6. VecsOK(vecs')
    BY <1>6, <1>11
  <2> QED BY <1>2, <2>5, <2>6, VecsStep
<1> QED BY <1>5, <1>7, <1>8, <1>9, <1>10, <1>11

(* ... the buffer was too small ...                                        *)
LEMMA ReserveRetryKeeps ==
  ASSUME Base, WithinSizes', ReserveRetry
  PROVE  Base'
<1>1. frames # <<>> /\ Top.f = "reserve" /\ Top.at = "retry"
  BY DEF ReserveRetry, At
<1>2. UNCHANGED <<nlpm, table, chains, mapped, dropped, user, panicked, ops, limit>> /\ UNCHANGED vecs
  BY DEF ReserveRetry
<1>3. AllocWith(Top, Top.min_cap)
  BY DEF ReserveRetry
<1>4. Top.min_cap \in Nat \ {0} /\ VecsOK(vecs)
  BY <1>1, ReserveTop DEF Base, TypeOK
<1>5. Stacked(frames', chains, ret', mapped, limit, panicked) /\ ret' \in RetSet
  BY <1>1, <1>3, <1>4, AllocWithIs
<1>6. VecsOK(vecs')
  BY <1>2, <1>4
<1> QED BY <1>2, <1>5, <1>6, VecsStep

(* ... and the old buffer was given back.                                  *)
LEMMA ReserveFreedKeeps ==
  ASSUME Base, WithinSizes', ReserveFreed
  PROVE  Base'
<1>1. frames # <<>> /\ Top.f = "reserve"
  BY DEF ReserveFreed, At
<1>2. UNCHANGED <<nlpm, table, chains, mapped, dropped, user, panicked, ops, limit>>
  BY DEF ReserveFreed
<1>3. Top.cap \in Nat /\ MinCap \in Nat /\ VecsOK(vecs)
  BY <1>1, ReserveTop DEF Base, TypeOK
<1>4. CASE ~ (MinCap > Top.cap)
  <2> DEFINE yes == TRUE
  <2>1. Finish(vecs, yes) /\ yes \in BOOLEAN
    BY <1>4 DEF ReserveFreed
  <2> HIDE DEF yes
  <2>2. VecsOK(vecs') /\ ret' \in RetSet /\ Stacked(frames', chains, ret', mapped, limit, panicked)
    BY <1>1, <1>3, <2>1, FinishIs
  <2> QED BY <1>2, <2>2, VecsStep
<1>5. CASE MinCap > Top.cap
  <2>1. AllocWith(Top, MinCap) /\ UNCHANGED vecs
    BY <1>5 DEF ReserveFreed
  <2>2. MinCap \in Nat \ {0}
    BY <1>3, <1>5
  <2>3. Stacked(frames', chains, ret', mapped, limit, panicked) /\ ret' \in RetSet
    BY <1>1, <2>1, <2>2, AllocWithIs
  <2>4. VecsOK(vecs')
    BY <1>3, <2>1
  <2> QED BY <1>2, <2>3, <2>4, VecsStep
<1> QED BY <1>4, <1>5

(* What a step has to keep.                                                *)
LEMMA StepIs ==
  ASSUME Base, VecsOK(vecs'), nlpm' \in Nat, table' \in [Classes -> Nat], ChainsOK(chains'),
         ret' \in RetSet, mapped' \in Nat, dropped' \subseteq DroppedSet, user' \subseteq UserSet,
         panicked' \in BOOLEAN, ops' \in Nat, limit' = limit,
         Stacked(frames', chains', ret', mapped', limit, panicked')
  PROVE  Base'
  BY DEF Base, TypeOK, Stacked

(* A call of try_alloc or self_alloc_ on top.                              *)
LEMMA AllocTop ==
  ASSUME Base, frames # <<>>, Top.f = "alloc"
  PROVE  /\ Top \in AllocSet /\ Top.size \in Sizes /\ Top.st \in Nat /\ Top.counted \in BOOLEAN
         /\ Top.own \in BOOLEAN /\ Top.chunk \in Nat /\ Top.large \in Nat
         /\ Usable(Top.st, chains) /\ HasChunk(Top)
         /\ Class \in Classes /\ TopObjects \in Vectors
<1>1. FrameOK(Top, chains) /\ Top \in FrameSet
  BY TopIs
<1>2. Top \in AllocSet
  BY <1>1, FrameIs
<1>3. /\ Top.size \in Sizes /\ Top.st \in Nat /\ Top.counted \in BOOLEAN
      /\ Top.own \in BOOLEAN /\ Top.chunk \in Nat /\ Top.large \in Nat
  BY <1>2 DEF AllocSet
<1>4. Usable(Top.st, chains) /\ HasChunk(Top)
  BY <1>1 DEF FrameOK, ChainOf, Usable
<1>5. Class \in Classes
  BY DEF Class, Define, Classes
<1>6. TopObjects \in Vectors
  BY <1>3, VectorsAre DEF TopObjects
<1> QED BY <1>2, <1>3, <1>4, <1>5, <1>6

(* The places of such a call, and what is in hand there.                   *)
WithChunk == {"split", "putback", "extended", "have", "pushed", "carved"}
MayBeAt(at, chunk, large) ==
  /\ at \in WithChunk \union {"check", "slow", "handled"}
  /\ chunk \in Nat /\ large \in Nat
  /\ at \in WithChunk => chunk # 0
  /\ at \in {"putback", "extended"} => large # 0

AllocAs(fr, at, chunk, large, q) ==
  /\ MayBeAt(at, chunk, large)
  /\ at = "handled" /\ chunk = 0 => q >= limit
  /\ fr = [Top EXCEPT !.at = at, !.chunk = chunk, !.large = large]

(* Such a call at another place.                                           *)
LEMMA AllocMoved ==
  ASSUME Base, frames # <<>>, Top.f = "alloc",
         NEW at, NEW chunk, NEW large, NEW q, NEW fr, AllocAs(fr, at, chunk, large, q)
  PROVE  /\ FrameOK(fr, chains) /\ Same(Last(frames), fr) /\ Room(fr, chains, mapped)
         /\ Handled(fr, q, limit) /\ ~ Receives(fr) /\ fr.f = "alloc" /\ fr.at = at
<1>1. Top \in AllocSet /\ Usable(Top.st, chains) /\ Top = Last(frames)
  BY AllocTop, TopIs
<1>2. fr \in AllocSet
  BY <1>1 DEF AllocSet, WithChunk, MayBeAt, AllocAs
<1>3. fr.f = "alloc" /\ fr.at = at /\ fr.chunk = chunk /\ fr.large = large /\ fr.st = Top.st
  BY <1>1 DEF AllocSet, AllocAs
<1>4. HasChunk(fr) /\ HasCap(fr) /\ InPass(fr, chains) /\ ChainOf(fr) = Top.st
  BY <1>3 DEF HasChunk, HasCap, InPass, ChainOf, MayBeAt, WithChunk, Ptr, AllocAs
<1>5. FrameOK(fr, chains)
  BY <1>1, <1>2, <1>3, <1>4 DEF FrameOK, FrameSet, Usable
<1>6. Same(Last(frames), fr)
  <2>1. Last(frames).f = "alloc" /\ Last(frames).st = fr.st
    BY <1>1, <1>3
  <2> QED BY <1>3, <2>1 DEF Same, ChainOf
<1>7. Handled(fr, q, limit) /\ Room(fr, chains, mapped) /\ ~ Receives(fr)
  BY <1>3 DEF Room, Handled, Receives, AllocAs
<1> QED BY <1>3, <1>5, <1>6, <1>7

(* It goes on there ...                                                    *)
LEMMA AllocGoto ==
  ASSUME Base, frames # <<>>, Top.f = "alloc",
         NEW at, NEW chunk, NEW large, MayBeAt(at, chunk, large), at # "handled",
         Goto([Top EXCEPT !.at = at, !.chunk = chunk, !.large = large])
  PROVE  Stacked(frames', chains, ret', mapped, limit, panicked) /\ ret' \in RetSet
<1> DEFINE fr == [Top EXCEPT !.at = at, !.chunk = chunk, !.large = large]
<1>1. frames' = Append(Front(frames), fr) /\ ret' = Nothing
  BY DEF Goto
<1>2. AllocAs(fr, at, chunk, large, mapped)
  BY DEF AllocAs
<1> HIDE DEF fr
<1>3. /\ FrameOK(fr, chains) /\ Same(Last(frames), fr) /\ Room(fr, chains, mapped)
      /\ Handled(fr, mapped, limit) /\ ~ Receives(fr)
  BY <1>2, AllocMoved
<1>4. Stacked(frames, chains, ret, mapped, limit, panicked)
  BY BaseIs
<1>5. Stacked(Append(Front(frames), fr), chains, Nothing, mapped, limit, panicked)
  BY <1>3, <1>4, GotoStep
<1> QED BY <1>1, <1>5, NothingIs

(* ... or calls reserve there ...                                          *)
LEMMA AllocCalls ==
  ASSUME Base, frames # <<>>, Top.f = "alloc",
         NEW at, NEW chunk, NEW large, MayBeAt(at, chunk, large),
         at \in {"check", "putback", "extended", "pushed", "carved"},
         NEW v, v \in Vectors, NEW add, add \in Nat, NEW put, put \in Seq(Ptr),
         NEW st, Usable(st, chains), NEW counted, counted \in BOOLEAN,
         Call([Top EXCEPT !.at = at, !.chunk = chunk, !.large = large], Reserve(v, add, put, st, counted))
  PROVE  Stacked(frames', chains, ret', mapped, limit, panicked) /\ ret' \in RetSet
<1> DEFINE fr == [Top EXCEPT !.at = at, !.chunk = chunk, !.large = large]
           c == Reserve(v, add, put, st, counted)
<1>1. frames' = Front(frames) \o <<fr, c>> /\ ret' = Nothing
  BY DEF Call
<1>2. AllocAs(fr, at, chunk, large, mapped)
  BY DEF AllocAs
<1>3. Len(chains) \in Nat
  BY TopIs
<1>4. FrameOK(c, chains) /\ c.f = "reserve" /\ ~ Receives(c) /\ Handled(c, mapped, limit)
  BY <1>3, ReserveIs
<1> HIDE DEF fr, c
<1>5. /\ FrameOK(fr, chains) /\ Same(Last(frames), fr) /\ Room(fr, chains, mapped)
      /\ Handled(fr, mapped, limit) /\ ~ Receives(fr)
  BY <1>2, AllocMoved
<1>5a. fr.f = "alloc" /\ fr.at = at
  BY <1>2, AllocTop DEF AllocSet, AllocAs
<1>6. Calls(fr, c) /\ c.f # "handle"
  BY <1>4, <1>5a DEF Calls
<1>7. Stacked(frames, chains, ret, mapped, limit, panicked)
  BY BaseIs
<1>8. Stacked(Front(frames) \o <<fr, c>>, chains, Nothing, mapped, limit, panicked)
  BY <1>4, <1>5, <1>6, <1>7, CallStep
<1> QED BY <1>1, <1>8, NothingIs

(* ... or returns memory, or none because the limit is reached.            *)
LEMMA ReturnPtrIs ==
  ASSUME frames # <<>>, Top.f = "alloc", NEW chs, NEW q,
         Stacked(frames, chs, ret, q, limit, panicked),
         NEW p, p \in Nat, p = 0 => q >= limit, ReturnPtr(p)
  PROVE  Stacked(frames', chs, ret', q, limit, panicked) /\ ret' \in RetSet
<1> DEFINE r == [Nothing EXCEPT !.ptr = p]
<1>1. r.ptr = p /\ r.err = FALSE /\ r \in RetSet
  BY DEF Nothing, RetSet
<1>2. ret' = r /\ frames' = Front(frames)
  BY DEF ReturnPtr, Return
<1> HIDE DEF r
<1>3. Last(frames).f = "alloc"
  BY DEF Top
<1>4. Stacked(Front(frames), chs, r, q, limit, panicked)
  BY <1>1, <1>3, ReturnStep
<1> QED BY <1>1, <1>2, <1>4

(* A chunk that is in no list any more.                                    *)
LEMMA DroppedIs ==
  ASSUME NEW ptr, ptr \in Ptr, NEW class
  PROVE  Chunk(ptr, class) \in DroppedSet
  BY Constants DEF Chunk, DroppedSet

(* An object is there.                                                     *)
LEMMA PopReturns ==
  ASSUME Base, frames # <<>>, Top.f = "alloc", vecs[TopObjects].items # <<>>,
         vecs' = Pop(TopObjects), ReturnPtr(Last(vecs[TopObjects].items))
  PROVE  /\ VecsOK(vecs')
         /\ Stacked(frames', chains, ret', mapped, limit, panicked) /\ ret' \in RetSet
<1>1. TopObjects \in Vectors /\ VecsOK(vecs)
  BY AllocTop DEF Base, TypeOK
<1> DEFINE p == Last(vecs[TopObjects].items)
<1>2. VecsOK([vecs EXCEPT ![TopObjects].items = Front(@)]) /\ p \in Ptr
  BY <1>1, PopVec
<1>3. VecsOK(vecs')
  BY <1>2 DEF Pop
<1>4. Stacked(frames, chains, ret, mapped, limit, panicked) /\ ReturnPtr(p) /\ p \in Nat /\ p # 0
  BY <1>2, BaseIs DEF Ptr
<1> HIDE DEF p
<1>5. Stacked(frames', chains, ret', mapped, limit, panicked) /\ ret' \in RetSet
  BY <1>4, ReturnPtrIs
<1> QED BY <1>3, <1>5

(* alloc_common, alloc_large                                               *)
LEMMA AllocPopKeeps ==
  ASSUME Base, AllocPop
  PROVE  Base'
<1>1. frames # <<>> /\ Top.f = "alloc"
  BY DEF AllocPop, At
<1>2. UNCHANGED <<nlpm, table, chains, mapped, dropped, user, panicked, ops, limit>>
  BY DEF AllocPop
<1>3. CASE vecs[TopObjects].items # <<>>
  <2>1. vecs' = Pop(TopObjects) /\ ReturnPtr(Last(vecs[TopObjects].items))
    BY <1>3 DEF AllocPop
  <2> QED BY <1>1, <1>2, <1>3, <2>1, PopReturns, VecsStep
<1>4. CASE vecs[TopObjects].items = <<>>
  <2> DEFINE at == "check"
  <2>1. Goto([Top EXCEPT !.at = at]) /\ UNCHANGED vecs
    BY <1>4 DEF AllocPop
  <2>2. Top \in AllocSet /\ Top.chunk \in Nat /\ Top.large \in Nat
    BY <1>1, AllocTop
  <2>3. [Top EXCEPT !.at = at] = [Top EXCEPT !.at = at, !.chunk = Top.chunk, !.large = Top.large]
    BY <2>2 DEF AllocSet
  <2>4. MayBeAt(at, Top.chunk, Top.large) /\ at # "handled"
    BY <2>2 DEF WithChunk, MayBeAt
  <2>4a. Goto([Top EXCEPT !.at = at, !.chunk = Top.chunk, !.large = Top.large])
    BY <2>1, <2>3
  <2> HIDE DEF at
  <2>5. Stacked(frames', chains, ret', mapped, limit, panicked) /\ ret' \in RetSet
    BY <1>1, <2>2, <2>4, <2>4a, AllocGoto
  <2>6. VecsOK(vecs')
    BY <2>1 DEF Base, TypeOK
  <2> QED BY <1>2, <2>5, <2>6, VecsStep
<1> QED BY <1>3, <1>4

(* check_non_local_ptrs                                                    *)
LEMMA CheckNonLocalPtrsKeeps ==
  ASSUME Base, CheckNonLocalPtrs
  PROVE  Base'
<1>1. frames # <<>> /\ Top.f = "alloc" /\ Top.at = "check"
  BY DEF CheckNonLocalPtrs, At
<1>2. UNCHANGED <<vecs, nlpm, table, chains, mapped, dropped, panicked, ops, limit>>
  BY DEF CheckNonLocalPtrs
<1>3. PICK x \in user : /\ user' = user \ {x}
                        /\ Call(Top, Reserve(Objects(x.size), 1, <<x.ptr>>, 0, FALSE))
  BY DEF CheckNonLocalPtrs
<1>4. user \subseteq UserSet
  BY DEF Base, TypeOK
<1>5. x \in UserSet
  BY <1>3, <1>4
<1>5a. x.ptr \in Ptr /\ x.size \in Sizes
  BY <1>5, Constants DEF UserSet
<1> DEFINE at == "check"
           v == Objects(x.size)
           one == 1
           put == <<x.ptr>>
           st == 0
           no == FALSE
<1>6. Top \in AllocSet /\ Top.chunk \in Nat /\ Top.large \in Nat /\ Len(chains) \in Nat
  BY <1>1, AllocTop, TopIs
<1>7. Top = [Top EXCEPT !.at = at, !.chunk = Top.chunk, !.large = Top.large]
  BY <1>1, <1>6 DEF AllocSet
<1>8. v \in Vectors /\ one \in Nat /\ put \in Seq(Ptr) /\ Usable(st, chains) /\ no \in BOOLEAN
  BY <1>5a, <1>6, VectorsAre DEF Usable
<1>9. Call([Top EXCEPT !.at = at, !.chunk = Top.chunk, !.large = Top.large], Reserve(v, one, put, st, no))
  <2>1. Call(Top, Reserve(v, one, put, st, no))
    BY <1>3
  <2> QED BY <2>1, <1>7
<1>10. at \in {"check", "putback", "extended", "pushed", "carved"} /\ MayBeAt(at, Top.chunk, Top.large)
  BY <1>6 DEF WithChunk, MayBeAt
<1> HIDE DEF at, v, one, put, st, no
<1>11. Stacked(frames', chains, ret', mapped, limit, panicked) /\ ret' \in RetSet
  BY <1>1, <1>8, <1>9, <1>10, AllocCalls
<1>12. user' \subseteq UserSet
  BY <1>3, <1>4
<1> QED BY <1>2, <1>11, <1>12 DEF Base, TypeOK, Stacked

(* A State of a new region.                                                *)
LEMMA FreshIs ==
  ASSUME World
  PROVE  /\ FreshState \in WorkSet /\ FreshState.chain # <<>> /\ Len(FreshState.chain) = 1
         /\ FreshState.mapped = mapped + 1
<1> DEFINE region == RegionAt(mapped + 1)
           s == FromRegion(region)
           ch == <<s>>
<1>1. region \in Ptr
  <2>1. mapped + 1 \in Nat \ {0} /\ REGION_SIZE \in Nat \ {0}
    BY Constants DEF World
  <2> QED BY <2>1 DEF RegionAt, Ptr
<1>2. s \in StateSet
  <2> HIDE DEF region
  <2> QED BY <1>1, FromRegionIs
<1>3. ch \in Seq(StateSet) /\ ch # <<>> /\ Len(ch) = 1
  <2> HIDE DEF s
  <2> QED BY <1>2
<1> HIDE DEF ch
<1>4. FreshState = [chain |-> ch, mapped |-> mapped + 1, dropped |-> dropped, owner |-> 0, ptr |-> 0]
  BY DEF FreshState, Work, ch
<1>5. mapped + 1 \in Nat /\ dropped \in SUBSET DroppedSet
  BY DEF World
<1> QED BY <1>3, <1>4, <1>5 DEF WorkSet

(* A chain that began with it.                                             *)
LEMMA FreshGrown ==
  ASSUME World, NEW x, x \in WorkSet, Grows(FreshState, x)
  PROVE  /\ x.chain \in Seq(StateSet) /\ x.chain # <<>> /\ Len(x.chain) <= x.mapped
         /\ x.mapped \in Nat /\ mapped <= x.mapped /\ x.dropped \subseteq DroppedSet
         /\ \A i \in 2 .. Len(x.chain) : x.chain[i].at # 0
<1>1. Len(FreshState.chain) = 1 /\ FreshState.mapped = mapped + 1
  BY FreshIs
<1>2. x.chain \in Seq(StateSet) /\ Len(x.chain) \in Nat /\ x.mapped \in Nat /\ x.dropped \subseteq DroppedSet
  BY WorkIs
<1> DEFINE n == Len(x.chain)
           m == x.mapped
<1>3. 1 <= n /\ m + 1 = mapped + 1 + n
  BY <1>1 DEF Grows
<1>4. n \in Nat /\ m \in Nat /\ mapped \in Nat
  BY <1>2 DEF World
<1>5. \A i \in 2 .. n : x.chain[i].at # 0
  <2>1. \A i \in 1 + 1 .. n : x.chain[i].at # 0
    BY <1>1 DEF Grows
  <2> QED BY <2>1
<1> HIDE DEF n, m
<1>6. n <= m /\ mapped <= m /\ n # 0
  BY <1>3, <1>4
<1>7. x.chain # <<>>
  BY <1>2, <1>6, Indices DEF n
<1> QED BY <1>2, <1>5, <1>6, <1>7 DEF n, m

(* A chain more.                                                           *)
LEMMA OneChainMore ==
  ASSUME NEW chs, ChainsOK(chs), NEW ch, ch \in Seq(StateSet), \A i \in 2 .. Len(ch) : ch[i].at # 0
  PROVE  ChainsOK(Append(chs, ch))
<1> DEFINE dhs == Append(chs, ch)
           n == Len(chs)
<1>1. chs \in Seq(Seq(StateSet)) /\ \A k \in 1 .. n : \A i \in 2 .. Len(chs[k]) : chs[k][i].at # 0
  BY DEF ChainsOK
<1>2. n \in Nat
  BY <1>1, Indices
<1>3. /\ dhs \in Seq(Seq(StateSet)) /\ Len(dhs) = n + 1
      /\ \A k \in 1 .. n : dhs[k] = chs[k]
      /\ dhs[n + 1] = ch
  BY <1>1, AppendIs
<1> HIDE DEF dhs, n
<1>4. ASSUME NEW k \in 1 .. n + 1, NEW i \in 2 .. Len(dhs[k]) PROVE dhs[k][i].at # 0
  <2>1. CASE k = n + 1
    BY <2>1, <1>3
  <2>2. CASE k # n + 1
    <3>1. k \in 1 .. n
      BY <2>2, <1>2
    <3> QED BY <3>1, <1>1, <1>3
  <2> QED BY <2>1, <2>2
<1> QED BY <1>3, <1>4 DEF ChainsOK, dhs

(* A new region: handle_state is called on its State.                      *)
LEMMA NewStateIs ==
  ASSUME Base, frames # <<>>, Top.f = "alloc", NEW x, x \in WorkSet, Grows(FreshState, x),
         NEW at, NEW chunk, MayBeAt(at, chunk, Top.large), at \in {"split", "have", "handled"},
         at = "handled" /\ chunk = 0 => x.mapped >= limit,
         NewState(x, [Top EXCEPT !.at = at, !.chunk = chunk, !.large = Top.large])
  PROVE  /\ Stacked(frames', chains', ret', mapped', limit, panicked) /\ ret' \in RetSet
         /\ ChainsOK(chains') /\ mapped' \in Nat /\ dropped' \subseteq DroppedSet
<1> DEFINE fr == [Top EXCEPT !.at = at, !.chunk = chunk, !.large = Top.large]
           q == x.mapped
           ch == x.chain
<1>1. /\ chains' = Append(chains, ch) /\ mapped' = q /\ dropped' = x.dropped
      /\ frames' = Front(frames) \o <<fr, Handle(Len(chains) + 1)>> /\ ret' = Nothing
  BY DEF NewState, Call
<1>2. World /\ ChainsOK(chains) /\ limit \in Nat /\ mapped \in Nat
  BY DEF World, Base, TypeOK
<1>3. /\ ch \in Seq(StateSet) /\ ch # <<>> /\ Len(ch) <= q
      /\ q \in Nat /\ mapped <= q /\ x.dropped \subseteq DroppedSet
      /\ \A i \in 2 .. Len(ch) : ch[i].at # 0
  BY <1>2, FreshGrown
<1>4. AllocAs(fr, at, chunk, Top.large, q)
  BY DEF AllocAs
<1> HIDE DEF fr, q, ch
<1>5. /\ FrameOK(fr, chains) /\ Same(Last(frames), fr) /\ Room(fr, chains, mapped)
      /\ Handled(fr, q, limit) /\ ~ Receives(fr)
  BY <1>4, AllocMoved
<1>6. Stacked(frames, chains, ret, mapped, limit, panicked)
  BY BaseIs
<1>7. fr.f = "alloc" /\ fr.at \in {"split", "have", "handled"}
  BY <1>4, AllocTop DEF AllocSet, AllocAs
<1>8. Stacked(Front(frames) \o <<fr, Handle(Len(chains) + 1)>>, Append(chains, ch), Nothing, q, limit, panicked)
  BY <1>2, <1>3, <1>5, <1>6, <1>7, HandleStep
<1>9. ChainsOK(Append(chains, ch))
  BY <1>2, <1>3, OneChainMore
<1> QED BY <1>1, <1>3, <1>8, <1>9, NothingIs

(* alloc_common_slow, alloc_large_slow: a chunk is looked for              *)
LEMMA AllocGetChunkKeeps ==
  ASSUME Base, AllocGetChunk
  PROVE  Base'
<1> DEFINE from == FreeChunks(Class)
           large == FreeChunks("large")
           with(chunk, at) == [Top EXCEPT !.chunk = chunk, !.at = at]
<1>1. frames # <<>> /\ Top.f = "alloc"
  BY DEF AllocGetChunk, At
<1>2. UNCHANGED <<nlpm, table, user, panicked, ops, limit>>
  BY DEF AllocGetChunk
<1>3. /\ Top \in AllocSet /\ Top.chunk \in Nat /\ Top.large \in Nat /\ Class \in Classes
      /\ VecsOK(vecs) /\ Top.own \in BOOLEAN
  BY <1>1, AllocTop DEF Base, TypeOK
<1>4. from \in Vectors /\ large \in Vectors
  BY <1>3, VectorsAre DEF Classes
<1>4a. Stacked(frames, chains, ret, mapped, limit, panicked)
  BY BaseIs
<1>5. \/ /\ vecs[TopObjects].items # <<>>
         /\ vecs' = Pop(TopObjects) /\ ReturnPtr(Last(vecs[TopObjects].items))
         /\ UNCHANGED <<chains, mapped, dropped>>
      \/ /\ vecs[from].items # <<>>
         /\ vecs' = Pop(from) /\ Goto(with(Last(vecs[from].items), "have"))
         /\ UNCHANGED <<chains, mapped, dropped>>
      \/ /\ Goto([Top EXCEPT !.at = "slow"])
         /\ UNCHANGED <<vecs, chains, mapped, dropped>>
      \/ /\ vecs[large].items # <<>>
         /\ vecs' = Pop(large) /\ Goto(with(Last(vecs[large].items), "split"))
         /\ UNCHANGED <<chains, mapped, dropped>>
      \/ /\ UNCHANGED vecs
         /\ IF MayMap(mapped, TRUE)
            THEN \E got \in {GetFreeLargeChunk(FreshState, 1, FALSE)} :
                   NewState(got, with(got.ptr, IF Class = "common" THEN "split" ELSE "have"))
            ELSE ReturnPtr(0) /\ UNCHANGED <<chains, mapped, dropped>>
  BY DEF AllocGetChunk
<1>5a. ASSUME VecsOK(vecs'), UNCHANGED <<chains, mapped, dropped>>, ret' \in RetSet,
              Stacked(frames', chains, ret', mapped, limit, panicked)
       PROVE  Base'
  <2>1. UNCHANGED <<nlpm, table, chains, mapped, dropped, user, panicked, ops, limit>>
    BY <1>2, <1>5a
  <2> QED BY <1>5a, <2>1, VecsStep
<1>6. CASE /\ vecs[TopObjects].items # <<>>
           /\ vecs' = Pop(TopObjects) /\ ReturnPtr(Last(vecs[TopObjects].items))
           /\ UNCHANGED <<chains, mapped, dropped>>
  BY <1>1, <1>5a, <1>6, PopReturns
<1>7. ASSUME NEW v, v \in Vectors, vecs[v].items # <<>>, vecs' = Pop(v),
             NEW at, at \in {"have", "split"}, Goto(with(Last(vecs[v].items), at)),
             UNCHANGED <<chains, mapped, dropped>>
      PROVE  Base'
  <2> DEFINE p == Last(vecs[v].items)
  <2>1. VecsOK([vecs EXCEPT ![v].items = Front(@)]) /\ p \in Ptr
    BY <1>3, <1>7, PopVec
  <2>2. VecsOK(vecs')
    BY <2>1, <1>7 DEF Pop
  <2> HIDE DEF p
  <2>3. [Top EXCEPT !.chunk = p, !.at = at] = [Top EXCEPT !.at = at, !.chunk = p, !.large = Top.large]
    BY <1>3 DEF AllocSet
  <2>4. Goto([Top EXCEPT !.at = at, !.chunk = p, !.large = Top.large])
    BY <1>7, <2>3 DEF p
  <2>5. MayBeAt(at, p, Top.large) /\ at # "handled"
    BY <1>3, <1>7, <2>1 DEF MayBeAt, WithChunk, Ptr
  <2>6. Stacked(frames', chains, ret', mapped, limit, panicked) /\ ret' \in RetSet
    BY <1>1, <2>4, <2>5, AllocGoto
  <2> QED BY <1>5a, <1>7, <2>2, <2>6
<1>8. CASE /\ vecs[from].items # <<>>
           /\ vecs' = Pop(from) /\ Goto(with(Last(vecs[from].items), "have"))
           /\ UNCHANGED <<chains, mapped, dropped>>
  <2> HIDE DEF from
  <2> QED BY <1>4, <1>7, <1>8
<1>9. CASE /\ vecs[large].items # <<>>
           /\ vecs' = Pop(large) /\ Goto(with(Last(vecs[large].items), "split"))
           /\ UNCHANGED <<chains, mapped, dropped>>
  <2> HIDE DEF large
  <2> QED BY <1>4, <1>7, <1>9
<1>10. CASE Goto([Top EXCEPT !.at = "slow"]) /\ UNCHANGED <<vecs, chains, mapped, dropped>>
  <2> DEFINE at == "slow"
  <2>1. [Top EXCEPT !.at = at] = [Top EXCEPT !.at = at, !.chunk = Top.chunk, !.large = Top.large]
    BY <1>3 DEF AllocSet
  <2>2. Goto([Top EXCEPT !.at = at, !.chunk = Top.chunk, !.large = Top.large])
    BY <1>10, <2>1
  <2>3. MayBeAt(at, Top.chunk, Top.large) /\ at # "handled"
    BY <1>3 DEF MayBeAt, WithChunk
  <2> HIDE DEF at
  <2>4. Stacked(frames', chains, ret', mapped, limit, panicked) /\ ret' \in RetSet
    BY <1>1, <2>2, <2>3, AllocGoto
  <2>5. VecsOK(vecs')
    BY <1>3, <1>10
  <2> QED BY <1>5a, <1>10, <2>4, <2>5
<1>11. CASE UNCHANGED vecs /\ ~ MayMap(mapped, TRUE) /\ ReturnPtr(0) /\ UNCHANGED <<chains, mapped, dropped>>
  <2> DEFINE zero == 0
  <2>1. zero \in Nat /\ ReturnPtr(zero)
    BY <1>11
  <2>2. mapped >= limit
    BY <1>11 DEF MayMap, Base, TypeOK
  <2> HIDE DEF zero
  <2>3. Stacked(frames', chains, ret', mapped, limit, panicked) /\ ret' \in RetSet
    BY <1>1, <1>4a, <2>1, <2>2, ReturnPtrIs
  <2>4. VecsOK(vecs')
    BY <1>3, <1>11
  <2> QED BY <1>5a, <1>11, <2>3, <2>4
<1>12. CASE /\ UNCHANGED vecs /\ MayMap(mapped, TRUE)
            /\ \E got \in {GetFreeLargeChunk(FreshState, 1, FALSE)} :
                   NewState(got, with(got.ptr, IF Class = "common" THEN "split" ELSE "have"))
  <2> DEFINE one == 1
             no == FALSE
             x == GetFreeLargeChunk(FreshState, one, no)
             at == IF Class = "common" THEN "split" ELSE "have"
  <2>1. NewState(x, with(x.ptr, at))
    BY <1>12
  <2>2. World /\ one \in Nat \ {0} /\ no \in BOOLEAN /\ ~ no
    BY DEF World, Base, TypeOK
  <2>3. FreshState \in WorkSet
    BY <2>2, FreshIs
  <2>4. at \in {"split", "have"}
    OBVIOUS
  <2> HIDE DEF one, no, at
  <2>5. Got(FreshState, x, no)
    BY <2>2, <2>3, GetLargeIs
  <2> HIDE DEF x
  <2>6. x \in WorkSet /\ Grows(FreshState, x) /\ x.ptr \in Ptr
    BY <2>2, <2>5 DEF Got
  <2> DEFINE p == x.ptr
  <2>7. [Top EXCEPT !.chunk = p, !.at = at] = [Top EXCEPT !.at = at, !.chunk = p, !.large = Top.large]
    BY <1>3 DEF AllocSet
  <2>8. NewState(x, [Top EXCEPT !.at = at, !.chunk = p, !.large = Top.large])
    BY <2>1, <2>7
  <2>9. MayBeAt(at, p, Top.large) /\ at # "handled" /\ at \in {"split", "have", "handled"}
    BY <1>3, <2>4, <2>6 DEF MayBeAt, WithChunk, Ptr
  <2> HIDE DEF p
  <2>10. /\ Stacked(frames', chains', ret', mapped', limit, panicked) /\ ret' \in RetSet
         /\ ChainsOK(chains') /\ mapped' \in Nat /\ dropped' \subseteq DroppedSet
    BY <1>1, <2>6, <2>8, <2>9, NewStateIs
  <2>11. VecsOK(vecs')
    BY <1>3, <1>12
  <2> QED BY <1>2, <2>10, <2>11 DEF Base, TypeOK, Stacked
<1> QED BY <1>5, <1>6, <1>7, <1>8, <1>9, <1>10, <1>11, <1>12

(* get_common_chunk_slow                                                   *)
LEMMA AllocSplitKeeps ==
  ASSUME Base, AllocSplit
  PROVE  Base'
<1> DEFINE common == FreeChunks("common")
           split == Stride(Top.chunk, COMMON_CHUNK_SIZE, COMMON_CHUNKS_IN_LARGE_CHUNK)
<1>1. frames # <<>> /\ Top.f = "alloc" /\ Top.at = "split"
  BY DEF AllocSplit, At
<1>2. UNCHANGED <<nlpm, table, chains, mapped, dropped, user, panicked, ops, limit>>
  BY DEF AllocSplit
<1>3. /\ Top \in AllocSet /\ HasChunk(Top) /\ VecsOK(vecs) /\ Len(chains) \in Nat
  BY <1>1, AllocTop, TopIs DEF Base, TypeOK
<1>4. Top.chunk \in Ptr
  BY <1>1, <1>3 DEF HasChunk
<1>5. common \in Vectors /\ FreeChunks("large") \in Vectors
  BY VectorsAre DEF Classes
<1> DEFINE st == 0
           yes == TRUE
<1>6. Usable(st, chains) /\ yes \in BOOLEAN
  BY <1>3 DEF Usable
<1>7. CASE vecs[common].items # <<>>
  <2> DEFINE at == "putback"
             p == Last(vecs[common].items)
             v == FreeChunks("large")
             one == 1
             put == <<Top.chunk>>
             fr == [Top EXCEPT !.at = at, !.large = Top.chunk, !.chunk = p]
  <2>1. vecs' = Pop(common) /\ Call(fr, Reserve(v, one, put, st, yes))
    BY <1>7 DEF AllocSplit
  <2>2. VecsOK([vecs EXCEPT ![common].items = Front(@)]) /\ p \in Ptr
    <3> HIDE DEF common
    <3> QED BY <1>3, <1>5, <1>7, PopVec DEF p
  <2>3. VecsOK(vecs')
    BY <2>1, <2>2 DEF Pop
  <2>4. v \in Vectors /\ one \in Nat /\ put \in Seq(Ptr)
    BY <1>4, <1>5
  <2>4a. at \in {"check", "putback", "extended", "pushed", "carved"} /\ MayBeAt(at, p, Top.chunk)
    BY <1>4, <2>2 DEF MayBeAt, WithChunk, Ptr
  <2> HIDE DEF p
  <2>5. fr = [Top EXCEPT !.at = at, !.chunk = p, !.large = Top.chunk]
    BY <1>3 DEF AllocSet
  <2>6. Call([Top EXCEPT !.at = at, !.chunk = p, !.large = Top.chunk], Reserve(v, one, put, st, yes))
    BY <2>1, <2>5
  <2> HIDE DEF at, v, one, put, st, yes, fr
  <2>7. Stacked(frames', chains, ret', mapped, limit, panicked) /\ ret' \in RetSet
    BY <1>1, <1>6, <2>4, <2>4a, <2>6, AllocCalls
  <2> QED BY <1>2, <2>3, <2>7, VecsStep
<1>8. CASE vecs[common].items = <<>>
  <2> DEFINE at == "extended"
             p == Last(split)
             add == COMMON_CHUNKS_IN_LARGE_CHUNK - 1
             put == Front(split)
             fr == [Top EXCEPT !.at = at, !.large = Top.chunk, !.chunk = p]
  <2>1. UNCHANGED vecs /\ Call(fr, Reserve(common, add, put, st, yes))
    BY <1>8 DEF AllocSplit
  <2>2. /\ COMMON_CHUNKS_IN_LARGE_CHUNK \in Nat \ {0} /\ COMMON_CHUNK_SIZE \in Nat /\ add \in Nat
    BY Constants
  <2>3. split \in Seq(Ptr) /\ Len(split) = COMMON_CHUNKS_IN_LARGE_CHUNK
    BY <1>4, <2>2, StrideIs
  <2> HIDE DEF split
  <2>3a. split # <<>>
    BY <2>2, <2>3, Indices
  <2>4. p \in Ptr /\ put \in Seq(Ptr)
    BY <2>3, <2>3a, Ends
  <2>4a. at \in {"check", "putback", "extended", "pushed", "carved"} /\ MayBeAt(at, p, Top.chunk)
    BY <1>4, <2>4 DEF MayBeAt, WithChunk, Ptr
  <2> HIDE DEF p, put, add
  <2>5. fr = [Top EXCEPT !.at = at, !.chunk = p, !.large = Top.chunk]
    BY <1>3 DEF AllocSet
  <2>6. Call([Top EXCEPT !.at = at, !.chunk = p, !.large = Top.chunk], Reserve(common, add, put, st, yes))
    BY <2>1, <2>5
  <2> HIDE DEF at, st, yes, fr, common
  <2>7. Stacked(frames', chains, ret', mapped, limit, panicked) /\ ret' \in RetSet
    BY <1>1, <1>5, <1>6, <2>2, <2>4, <2>4a, <2>6, AllocCalls
  <2>8. VecsOK(vecs')
    BY <1>3, <2>1
  <2> QED BY <1>2, <2>7, <2>8, VecsStep
<1> QED BY <1>7, <1>8

(* A step of such a call that changes what is dropped.                     *)
LEMMA DroppedStep ==
  ASSUME Base, UNCHANGED <<nlpm, table, chains, mapped, user, panicked, ops, limit>>,
         VecsOK(vecs'), dropped' \subseteq DroppedSet, ret' \in RetSet,
         Stacked(frames', chains, ret', mapped, limit, panicked)
  PROVE  Base'
  BY DEF Base, TypeOK, Stacked

(* What is in a call's hands is lost.                                      *)
LEMMA Drops ==
  ASSUME Base, NEW ptr, ptr \in Ptr, NEW class
  PROVE  dropped \union {Chunk(ptr, class)} \subseteq DroppedSet /\ dropped \subseteq DroppedSet
<1>1. dropped \subseteq DroppedSet
  BY DEF Base, TypeOK
<1>2. Chunk(ptr, class) \in DroppedSet
  BY DroppedIs
<1> QED BY <1>1, <1>2

(* An error comes from the limit.                                          *)
LEMMA ErrIs ==
  ASSUME Base, ret.err
  PROVE  mapped >= limit
<1>1. Stacked(frames, chains, ret, mapped, limit, panicked) /\ ret \in RetSet
  BY BaseIs DEF TypeOK
<1>2. ret.err = TRUE
  BY <1>1 DEF RetSet
<1> QED BY <1>1, <1>2, StackedIs

(* get_common_chunk_slow after push or extend_from_slice                   *)
LEMMA AllocSplitDoneKeeps ==
  ASSUME Base, AllocSplitDone
  PROVE  Base'
<1>1. frames # <<>> /\ Top.f = "alloc" /\ Top.at \in {"putback", "extended"}
  BY DEF AllocSplitDone, At
<1>2. UNCHANGED <<vecs, nlpm, table, chains, mapped, user, panicked, ops, limit>>
  BY DEF AllocSplitDone
<1>3. /\ Top \in AllocSet /\ HasChunk(Top) /\ VecsOK(vecs) /\ Top.large \in Nat
  BY <1>1, AllocTop DEF Base, TypeOK
<1>4. Top.chunk \in Ptr /\ Top.large \in Ptr
  BY <1>1, <1>3 DEF HasChunk
<1>5. dropped' \subseteq DroppedSet
  <2> DEFINE class == "large"
  <2>1. dropped \union {Chunk(Top.large, class)} \subseteq DroppedSet /\ dropped \subseteq DroppedSet
    BY <1>4, Drops
  <2> QED BY <2>1 DEF AllocSplitDone
<1>6. Stacked(frames', chains, ret', mapped, limit, panicked) /\ ret' \in RetSet
  <2>1. CASE ret.err /\ Top.at = "extended"
    <3> DEFINE zero == 0
    <3>1. ReturnPtr(zero) /\ zero \in Nat /\ Stacked(frames, chains, ret, mapped, limit, panicked)
      BY <2>1, BaseIs DEF AllocSplitDone
    <3>2. mapped >= limit
      BY <2>1, ErrIs
    <3> HIDE DEF zero
    <3> QED BY <1>1, <3>1, <3>2, ReturnPtrIs
  <2>2. CASE ~ (ret.err /\ Top.at = "extended")
    <3> DEFINE at == "have"
    <3>1. Goto([Top EXCEPT !.at = at])
      BY <2>2 DEF AllocSplitDone
    <3>2. [Top EXCEPT !.at = at] = [Top EXCEPT !.at = at, !.chunk = Top.chunk, !.large = Top.large]
      BY <1>3 DEF AllocSet
    <3>3. Goto([Top EXCEPT !.at = at, !.chunk = Top.chunk, !.large = Top.large])
      BY <3>1, <3>2
    <3>4. MayBeAt(at, Top.chunk, Top.large) /\ at # "handled"
      BY <1>3, <1>4 DEF MayBeAt, WithChunk, Ptr
    <3> HIDE DEF at
    <3> QED BY <1>1, <3>3, <3>4, AllocGoto
  <2> QED BY <2>1, <2>2
<1>7. VecsOK(vecs')
  BY <1>2, <1>3
<1> QED BY <1>2, <1>5, <1>6, <1>7, DroppedStep

(* The end of alloc_common_slow and alloc_large_slow                       *)
LEMMA AllocHaveKeeps ==
  ASSUME Base, AllocHave
  PROVE  Base'
<1>1. frames # <<>> /\ Top.f = "alloc" /\ Top.at = "have"
  BY DEF AllocHave, At
<1>2. UNCHANGED <<nlpm, table, chains, mapped, user, panicked, ops, limit>>
  BY DEF AllocHave
<1>3. /\ Top \in AllocSet /\ HasChunk(Top) /\ VecsOK(vecs) /\ Top.large \in Nat
      /\ Usable(Top.st, chains) /\ Top.size \in Sizes
  BY <1>1, AllocTop DEF Base, TypeOK
<1>4. Top.chunk \in Ptr
  BY <1>1, <1>3 DEF HasChunk
<1>5. dropped \union {Chunk(Top.chunk, Class)} \subseteq DroppedSet /\ dropped \subseteq DroppedSet
  BY <1>4, Drops
<1>6. CASE vecs[TopObjects].items # <<>>
  <2>1. /\ vecs' = Pop(TopObjects) /\ ReturnPtr(Last(vecs[TopObjects].items))
        /\ dropped' = dropped \union {Chunk(Top.chunk, Class)}
    BY <1>6 DEF AllocHave
  <2>2. /\ VecsOK(vecs')
        /\ Stacked(frames', chains, ret', mapped, limit, panicked) /\ ret' \in RetSet
    BY <1>1, <1>6, <2>1, PopReturns
  <2>3. dropped' \subseteq DroppedSet
    BY <1>5, <2>1
  <2> QED BY <1>2, <2>2, <2>3, DroppedStep
<1>7. CASE vecs[TopObjects].items = <<>>
  <2> DEFINE at == "pushed"
             v == Chunks(Top.size)
             one == 1
             put == <<Top.chunk>>
             yes == TRUE
  <2>1. /\ UNCHANGED <<vecs, dropped>>
        /\ Call([Top EXCEPT !.at = at], Reserve(v, one, put, Top.st, yes))
    BY <1>7 DEF AllocHave
  <2>2. v \in Vectors /\ one \in Nat /\ put \in Seq(Ptr) /\ yes \in BOOLEAN
    BY <1>3, <1>4, VectorsAre
  <2>3. [Top EXCEPT !.at = at] = [Top EXCEPT !.at = at, !.chunk = Top.chunk, !.large = Top.large]
    BY <1>3 DEF AllocSet
  <2>4. Call([Top EXCEPT !.at = at, !.chunk = Top.chunk, !.large = Top.large], Reserve(v, one, put, Top.st, yes))
    BY <2>1, <2>3
  <2>5. at \in {"check", "putback", "extended", "pushed", "carved"} /\ MayBeAt(at, Top.chunk, Top.large)
    BY <1>3, <1>4 DEF MayBeAt, WithChunk, Ptr
  <2> HIDE DEF at, v, one, put, yes
  <2>6. Stacked(frames', chains, ret', mapped, limit, panicked) /\ ret' \in RetSet
    BY <1>1, <1>3, <2>2, <2>4, <2>5, AllocCalls
  <2>7. VecsOK(vecs') /\ dropped' \subseteq DroppedSet
    BY <1>3, <1>5, <2>1
  <2> QED BY <1>2, <2>6, <2>7, DroppedStep
<1> QED BY <1>6, <1>7

(* There is no memory for the tables: self_alloc_ goes on to a State.      *)
LEMMA GiveUpIs ==
  ASSUME Base, frames # <<>>, Top.f = "alloc", ret.err, GiveUp
  PROVE  Stacked(frames', chains, ret', mapped, limit, panicked) /\ ret' \in RetSet
<1>1. Top \in AllocSet /\ Top.chunk \in Nat /\ Top.large \in Nat
  BY AllocTop
<1>2. CASE Top.own
  <2> DEFINE at == "slow"
  <2>1. Goto([Top EXCEPT !.at = at])
    BY <1>2 DEF GiveUp
  <2>2. [Top EXCEPT !.at = at] = [Top EXCEPT !.at = at, !.chunk = Top.chunk, !.large = Top.large]
    BY <1>1 DEF AllocSet
  <2>3. Goto([Top EXCEPT !.at = at, !.chunk = Top.chunk, !.large = Top.large])
    BY <2>1, <2>2
  <2>4. MayBeAt(at, Top.chunk, Top.large) /\ at # "handled"
    BY <1>1 DEF MayBeAt, WithChunk
  <2> HIDE DEF at
  <2> QED BY <2>3, <2>4, AllocGoto
<1>3. CASE ~ Top.own
  <2> DEFINE zero == 0
  <2>1. ReturnPtr(zero) /\ zero \in Nat /\ Stacked(frames, chains, ret, mapped, limit, panicked)
    BY <1>3, BaseIs DEF GiveUp
  <2>2. mapped >= limit
    BY ErrIs
  <2> HIDE DEF zero
  <2> QED BY <2>1, <2>2, ReturnPtrIs
<1> QED BY <1>2, <1>3

(* The chunk is in its table, or the call gives up.                        *)
LEMMA AllocPushedKeeps ==
  ASSUME Base, AllocPushed
  PROVE  Base'
<1>1. frames # <<>> /\ Top.f = "alloc" /\ Top.at = "pushed"
  BY DEF AllocPushed, At
<1>2. UNCHANGED <<nlpm, table, chains, mapped, user, panicked, ops, limit>> /\ UNCHANGED vecs
  BY DEF AllocPushed
<1>3. /\ Top \in AllocSet /\ HasChunk(Top) /\ VecsOK(vecs) /\ Top.large \in Nat
      /\ Usable(Top.st, chains) /\ Top.size \in Sizes /\ TopObjects \in Vectors
  BY <1>1, AllocTop DEF Base, TypeOK
<1>4. Top.chunk \in Ptr
  BY <1>1, <1>3 DEF HasChunk
<1>5. dropped \union {Chunk(Top.chunk, Class)} \subseteq DroppedSet /\ dropped \subseteq DroppedSet
  BY <1>4, Drops
<1>5a. VecsOK(vecs')
  BY <1>2, <1>3
<1>6. CASE ret.err
  <2>1. GiveUp /\ dropped' = dropped \union {Chunk(Top.chunk, Class)}
    BY <1>6 DEF AllocPushed
  <2>2. Stacked(frames', chains, ret', mapped, limit, panicked) /\ ret' \in RetSet
    BY <1>1, <1>6, <2>1, GiveUpIs
  <2>3. dropped' \subseteq DroppedSet
    BY <1>5, <2>1
  <2> QED BY <1>2, <1>5a, <2>2, <2>3, DroppedStep
<1>7. CASE ~ ret.err
  <2> DEFINE at == "carved"
             n == PerChunk(Top.size) - 1
             put == Stride(Top.chunk, Top.size, n)
             yes == TRUE
  <2>1. UNCHANGED dropped /\ Call([Top EXCEPT !.at = at], Reserve(TopObjects, n, put, Top.st, yes))
    BY <1>7 DEF AllocPushed
  <2>2. n \in Nat /\ yes \in BOOLEAN /\ Top.size \in Nat
    BY <1>3, PerChunkIs, Constants
  <2>2a. put \in Seq(Ptr)
    <3> HIDE DEF n
    <3> QED BY <1>4, <2>2, StrideIs
  <2>3. [Top EXCEPT !.at = at] = [Top EXCEPT !.at = at, !.chunk = Top.chunk, !.large = Top.large]
    BY <1>3 DEF AllocSet
  <2>4. Call([Top EXCEPT !.at = at, !.chunk = Top.chunk, !.large = Top.large],
             Reserve(TopObjects, n, put, Top.st, yes))
    BY <2>1, <2>3
  <2>5. at \in {"check", "putback", "extended", "pushed", "carved"} /\ MayBeAt(at, Top.chunk, Top.large)
    BY <1>3, <1>4 DEF MayBeAt, WithChunk, Ptr
  <2> HIDE DEF at, n, put, yes
  <2>6. Stacked(frames', chains, ret', mapped, limit, panicked) /\ ret' \in RetSet
    BY <1>1, <1>3, <2>2, <2>2a, <2>4, <2>5, AllocCalls
  <2>7. dropped' \subseteq DroppedSet
    BY <1>5, <2>1
  <2> QED BY <1>2, <1>5a, <2>6, <2>7, DroppedStep
<1> QED BY <1>6, <1>7

(* The objects of the chunk are in their vector, or the call gives up.     *)
LEMMA AllocCarvedKeeps ==
  ASSUME Base, AllocCarved
  PROVE  Base'
<1>1. frames # <<>> /\ Top.f = "alloc" /\ Top.at = "carved"
  BY DEF AllocCarved, At
<1>2. UNCHANGED <<nlpm, table, chains, mapped, user, panicked, ops, limit>> /\ UNCHANGED vecs
  BY DEF AllocCarved
<1>3. /\ Top \in AllocSet /\ HasChunk(Top) /\ VecsOK(vecs) /\ Top.size \in Sizes
  BY <1>1, AllocTop DEF Base, TypeOK
<1>4. Top.chunk \in Ptr
  BY <1>1, <1>3 DEF HasChunk
<1>5. dropped \union {Chunk(Top.chunk, Class)} \subseteq DroppedSet /\ dropped \subseteq DroppedSet
  BY <1>4, Drops
<1>5a. VecsOK(vecs')
  BY <1>2, <1>3
<1>6. CASE ret.err
  <2>1. GiveUp /\ dropped' = dropped \union {Chunk(Top.chunk, Class)}
    BY <1>6 DEF AllocCarved
  <2>2. Stacked(frames', chains, ret', mapped, limit, panicked) /\ ret' \in RetSet
    BY <1>1, <1>6, <2>1, GiveUpIs
  <2>3. dropped' \subseteq DroppedSet
    BY <1>5, <2>1
  <2> QED BY <1>2, <1>5a, <2>2, <2>3, DroppedStep
<1>7. CASE ~ ret.err
  <2> DEFINE n == PerChunk(Top.size) - 1
             p == Top.chunk + Top.size * n
  <2>1. UNCHANGED dropped /\ ReturnPtr(p)
    BY <1>7 DEF AllocCarved
  <2>2. n \in Nat /\ Top.size \in Nat
    BY <1>3, PerChunkIs, Constants
  <2>3. p \in Nat /\ p # 0
    <3> HIDE DEF n
    <3> QED BY <1>4, <2>2 DEF Ptr
  <2> HIDE DEF p
  <2>4. Stacked(frames, chains, ret, mapped, limit, panicked)
    BY BaseIs
  <2>5. Stacked(frames', chains, ret', mapped, limit, panicked) /\ ret' \in RetSet
    BY <1>1, <2>1, <2>3, <2>4, ReturnPtrIs
  <2>6. dropped' \subseteq DroppedSet
    BY <1>5, <2>1
  <2> QED BY <1>2, <1>5a, <2>5, <2>6, DroppedStep
<1> QED BY <1>6, <1>7

(* One chain grows.                                                        *)
LEMMA OneChainGrows ==
  ASSUME NEW chs, ChainsOK(chs), NEW k, k \in 1 .. Len(chs), chs[k] # <<>>,
         NEW w, w \in WorkSet, w.chain = chs[k], NEW x, x \in WorkSet, Grows(w, x)
  PROVE  LET dhs == [chs EXCEPT ![k] = x.chain] IN
         /\ ChainsOK(dhs) /\ Len(dhs) = Len(chs)
         /\ \A j \in 1 .. Len(chs) : Keeps(chs, dhs, j)
         /\ w.mapped <= x.mapped
         /\ \A j \in 1 .. Len(chs) : Len(dhs[j]) + w.mapped <= Len(chs[j]) + x.mapped
<1> DEFINE ch == x.chain
           dhs == [chs EXCEPT ![k] = ch]
<1>1. /\ chs \in Seq(Seq(StateSet)) /\ Len(chs) \in Nat
      /\ \A j \in 1 .. Len(chs) : \A i \in 2 .. Len(chs[j]) : chs[j][i].at # 0
      /\ \A j \in 1 .. Len(chs) : chs[j] \in Seq(StateSet)
  BY Indices DEF ChainsOK
<1>2. /\ ch \in Seq(StateSet) /\ Len(ch) \in Nat /\ Len(chs[k]) \in Nat
      /\ w.mapped \in Nat /\ x.mapped \in Nat
      /\ \A i \in 1 .. Len(ch) : ch[i] \in StateSet
      /\ \A i \in 1 .. Len(chs[k]) : chs[k][i] \in StateSet
  BY <1>1, WorkIs
<1>3. /\ Len(chs[k]) <= Len(ch)
      /\ x.mapped + Len(chs[k]) = w.mapped + Len(ch)
      /\ \A i \in 1 .. Len(chs[k]) : StateGrows(chs[k][i], ch[i])
      /\ \A i \in Len(chs[k]) + 1 .. Len(ch) : ch[i].at # 0
  BY DEF Grows
<1> HIDE DEF ch
<1>4. /\ dhs \in Seq(Seq(StateSet)) /\ Len(dhs) = Len(chs) /\ dhs[k] = ch
      /\ \A j \in 1 .. Len(chs) : j # k => dhs[j] = chs[j]
  BY <1>1, <1>2, PutIs
<1> HIDE DEF dhs
<1>5. ASSUME NEW i \in 2 .. Len(ch) PROVE ch[i].at # 0
  <2>1. CASE i <= Len(chs[k])
    <3>1. i \in 1 .. Len(chs[k]) /\ i \in 2 .. Len(chs[k])
      BY <2>1, <1>2
    <3>2. chs[k][i].at # 0 /\ StateGrows(chs[k][i], ch[i])
      BY <3>1, <1>1, <1>3
    <3> QED BY <3>2 DEF StateGrows
  <2>2. CASE ~ (i <= Len(chs[k]))
    <3>1. i \in Len(chs[k]) + 1 .. Len(ch)
      BY <2>2, <1>2
    <3> QED BY <3>1, <1>3
  <2> QED BY <2>1, <2>2
<1>6. ChainsOK(dhs)
  <2>1. ASSUME NEW j \in 1 .. Len(dhs), NEW i \in 2 .. Len(dhs[j]) PROVE dhs[j][i].at # 0
    <3>1. CASE j = k
      BY <3>1, <1>4, <1>5
    <3>2. CASE j # k
      BY <3>2, <1>1, <1>4
    <3> QED BY <3>1, <3>2
  <2> QED BY <2>1, <1>4 DEF ChainsOK
<1>7. ASSUME NEW j \in 1 .. Len(chs) PROVE Keeps(chs, dhs, j)
  <2>1. CASE j # k
    BY <2>1, <1>4 DEF Keeps
  <2>2. CASE j = k
    <3>1. Len(chs[k]) # 0 /\ Len(ch) # 0 /\ 1 \in 1 .. Len(chs[k]) /\ 1 \in 1 .. Len(ch)
      <4>1. Len(chs[k]) # 0
        BY <1>1, Indices
      <4> QED BY <4>1, <1>2, <1>3
    <3>2. ch # <<>>
      BY <3>1, <1>2, Indices
    <3>3. StateGrows(chs[k][1], ch[1]) /\ chs[k][1] \in StateSet /\ ch[1] \in StateSet
      BY <3>1, <1>2, <1>3
    <3>4. ASSUME NEW c \in Classes
          PROVE  DOMAIN chs[k][1].used[c] \subseteq DOMAIN ch[1].used[c]
      <4>1. chs[k][1].used[c] \in Seq(UsedSet) /\ ch[1].used[c] \in Seq(UsedSet)
        BY <3>3, StateIs
      <4>2. Len(chs[k][1].used[c]) <= Len(ch[1].used[c])
        BY <3>3 DEF StateGrows
      <4> DEFINE a == Len(chs[k][1].used[c])
                 b == Len(ch[1].used[c])
      <4>3. /\ a \in Nat /\ b \in Nat /\ DOMAIN chs[k][1].used[c] = 1 .. a
            /\ DOMAIN ch[1].used[c] = 1 .. b /\ a <= b
        BY <4>1, <4>2, Indices
      <4> HIDE DEF a, b
      <4> QED BY <4>3
    <3> QED BY <2>2, <3>2, <3>4, <1>4 DEF Keeps
  <2> QED BY <2>1, <2>2
<1> DEFINE a == Len(chs[k])
           b == Len(ch)
<1>8. /\ a \in Nat /\ b \in Nat /\ w.mapped \in Nat /\ x.mapped \in Nat /\ a <= b
      /\ x.mapped + a = w.mapped + b
  BY <1>2, <1>3
<1>9. w.mapped <= x.mapped /\ b + w.mapped <= a + x.mapped
  <2> HIDE DEF a, b
  <2> QED BY <1>8
<1>10. ASSUME NEW j \in 1 .. Len(chs) PROVE Len(dhs[j]) + w.mapped <= Len(chs[j]) + x.mapped
  <2>1. CASE j = k
    BY <2>1, <1>4, <1>9
  <2>2. CASE j # k
    <3> DEFINE d == Len(chs[j])
    <3>1. dhs[j] = chs[j] /\ d \in Nat
      BY <2>2, <1>1, <1>4, Indices
    <3>2. d + w.mapped <= d + x.mapped
      <4> HIDE DEF d
      <4> QED BY <3>1, <1>8, <1>9
    <3> QED BY <3>1, <3>2
  <2> QED BY <2>1, <2>2
<1> QED BY <1>4, <1>6, <1>7, <1>9, <1>10 DEF dhs, ch

(* What a State's functions begin with.                                    *)
LEMMA WorkOn ==
  ASSUME World, NEW ch, ch \in Seq(StateSet)
  PROVE  Work(ch) \in WorkSet /\ Work(ch).chain = ch /\ Work(ch).mapped = mapped
<1>1. Work(ch) = [chain |-> ch, mapped |-> mapped, dropped |-> dropped, owner |-> 0, ptr |-> 0]
  BY DEF Work
<1>2. mapped \in Nat /\ dropped \in SUBSET DroppedSet
  BY DEF World
<1> QED BY <1>1, <1>2 DEF WorkSet

(* slow_self_alloc_                                                        *)
LEMMA SlowSelfAllocKeeps ==
  ASSUME Base, SlowSelfAlloc
  PROVE  Base'
<1>1. frames # <<>> /\ Top.f = "alloc"
  BY DEF SlowSelfAlloc, At
<1>2. UNCHANGED <<vecs, nlpm, table, user, panicked, ops, limit>>
  BY DEF SlowSelfAlloc
<1>3. /\ Top \in AllocSet /\ Top.large \in Nat /\ VecsOK(vecs) /\ Top.size \in OwnSizes
      /\ Top.counted \in BOOLEAN /\ Usable(Top.st, chains) /\ World /\ Top.st \in Nat
  BY <1>1, AllocTop, Constants DEF Base, TypeOK, World
<1>4. ChainsOK(chains) /\ chains \in Seq(Seq(StateSet)) /\ mapped \in Nat /\ limit \in Nat
      /\ Stacked(frames, chains, ret, mapped, limit, panicked)
  BY BaseIs DEF TypeOK, ChainsOK
<1>5. CASE /\ Top.st # 0
           /\ \E w \in {AllocSize(Work(chains[Top.st]), Top.size, Top.counted)} :
                /\ chains' = [chains EXCEPT ![Top.st] = w.chain]
                /\ mapped' = w.mapped
                /\ dropped' = w.dropped
                /\ ReturnPtr(w.ptr)
  <2> DEFINE k == Top.st
             ch == chains[k]
             w == Work(ch)
             x == AllocSize(w, Top.size, Top.counted)
             dhs == [chains EXCEPT ![k] = x.chain]
  <2>1. chains' = dhs /\ mapped' = x.mapped /\ dropped' = x.dropped /\ ReturnPtr(x.ptr)
    BY <1>5
  <2>2. k \in 1 .. Len(chains) /\ chains[k] # <<>>
    BY <1>3, <1>5 DEF Usable
  <2>3. ch \in Seq(StateSet)
    BY <1>4, <2>2, Indices
  <2>4. w \in WorkSet /\ w.chain = ch /\ w.mapped = mapped
    <3> HIDE DEF ch
    <3> QED BY <1>3, <2>3, WorkOn
  <2>5. w.chain # <<>>
    BY <2>2, <2>4
  <2> HIDE DEF w
  <2>6. /\ x \in WorkSet /\ Grows(w, x)
        /\ x.ptr \in Ptr \/ (x.ptr = 0 /\ Top.counted /\ x.mapped >= limit)
    BY <1>3, <2>4, <2>5, AllocSizeIs
  <2> HIDE DEF x
  <2>7. w.chain = chains[k]
    BY <2>4
  <2> HIDE DEF k, ch
  <2>8. /\ ChainsOK(dhs) /\ Len(dhs) = Len(chains)
        /\ \A j \in 1 .. Len(chains) : Keeps(chains, dhs, j)
        /\ w.mapped <= x.mapped
        /\ \A j \in 1 .. Len(chains) : Len(dhs[j]) + w.mapped <= Len(chains[j]) + x.mapped
    BY <1>4, <2>2, <2>4, <2>6, <2>7, OneChainGrows
  <2> HIDE DEF dhs
  <2>9. x.mapped \in Nat /\ x.dropped \subseteq DroppedSet
    BY <2>6, WorkIs
  <2> DEFINE q == x.mapped
  <2>10. /\ q \in Nat /\ mapped <= q
         /\ \A j \in 1 .. Len(chains) : Len(dhs[j]) + mapped <= Len(chains[j]) + q
    BY <2>4, <2>8, <2>9
  <2> HIDE DEF q
  <2>11. Stacked(frames, dhs, ret, q, limit, panicked)
    BY <1>4, <2>8, <2>10, GrowStep
  <2> DEFINE p == x.ptr
  <2>12. p \in Nat /\ (p = 0 => q >= limit) /\ ReturnPtr(p)
    BY <2>1, <2>6 DEF Ptr, q
  <2> HIDE DEF p
  <2>13. Stacked(frames', dhs, ret', q, limit, panicked) /\ ret' \in RetSet
    BY <1>1, <2>11, <2>12, ReturnPtrIs
  <2>14. /\ Stacked(frames', chains', ret', mapped', limit, panicked) /\ ret' \in RetSet
         /\ ChainsOK(chains') /\ mapped' \in Nat /\ dropped' \subseteq DroppedSet
    BY <2>1, <2>8, <2>9, <2>13 DEF q
  <2> QED BY <1>2, <2>14 DEF Base, TypeOK, Stacked
<1>6. CASE /\ ~ MayMap(mapped, Top.counted)
           /\ ReturnPtr(0)
           /\ UNCHANGED <<chains, mapped, dropped>>
  <2> DEFINE zero == 0
  <2>1. zero \in Nat /\ ReturnPtr(zero)
    BY <1>6
  <2>2. mapped >= limit
    BY <1>4, <1>6 DEF MayMap
  <2> HIDE DEF zero
  <2>3. Stacked(frames', chains, ret', mapped, limit, panicked) /\ ret' \in RetSet
    BY <1>1, <1>4, <2>1, <2>2, ReturnPtrIs
  <2> QED BY <1>2, <1>6, <2>3 DEF Base, TypeOK, Stacked
<1>7. CASE \E w \in {AllocSize(FreshState, Top.size, Top.counted)} :
             NewState(w, [Top EXCEPT !.chunk = w.ptr, !.at = "handled"])
  <2> DEFINE x == AllocSize(FreshState, Top.size, Top.counted)
             p == x.ptr
             at == "handled"
  <2>1. NewState(x, [Top EXCEPT !.chunk = p, !.at = at])
    BY <1>7
  <2>2. FreshState \in WorkSet /\ FreshState.chain # <<>>
    BY <1>3, FreshIs
  <2>3. /\ x \in WorkSet /\ Grows(FreshState, x)
        /\ x.ptr \in Ptr \/ (x.ptr = 0 /\ Top.counted /\ x.mapped >= limit)
    BY <1>3, <2>2, AllocSizeIs
  <2> HIDE DEF x
  <2>4. p \in Nat /\ (p = 0 => x.mapped >= limit)
    BY <2>3 DEF Ptr
  <2> HIDE DEF p
  <2>5. [Top EXCEPT !.chunk = p, !.at = at] = [Top EXCEPT !.at = at, !.chunk = p, !.large = Top.large]
    BY <1>3 DEF AllocSet
  <2>6. NewState(x, [Top EXCEPT !.at = at, !.chunk = p, !.large = Top.large])
    BY <2>1, <2>5
  <2>7. MayBeAt(at, p, Top.large) /\ at \in {"split", "have", "handled"}
    BY <1>3, <2>4 DEF MayBeAt, WithChunk
  <2> HIDE DEF at
  <2>10. /\ Stacked(frames', chains', ret', mapped', limit, panicked) /\ ret' \in RetSet
         /\ ChainsOK(chains') /\ mapped' \in Nat /\ dropped' \subseteq DroppedSet
    BY <1>1, <2>3, <2>4, <2>6, <2>7, NewStateIs
  <2> QED BY <1>2, <2>10 DEF Base, TypeOK, Stacked
<1> QED BY <1>5, <1>6, <1>7 DEF SlowSelfAlloc

(* slow_self_alloc_ after handle_state                                     *)
LEMMA SlowSelfAllocHandledKeeps ==
  ASSUME Base, SlowSelfAllocHandled
  PROVE  Base'
<1>1. frames # <<>> /\ Top.f = "alloc" /\ Top.at = "handled" /\ ReturnPtr(Top.chunk)
  BY DEF SlowSelfAllocHandled, At
<1>2. UNCHANGED <<vecs, nlpm, table, chains, mapped, dropped, user, panicked, ops, limit>>
  BY DEF SlowSelfAllocHandled
<1>3. Top.chunk \in Nat /\ Handled(Top, mapped, limit)
  BY <1>1, AllocTop, TopIs
<1>4. Top.chunk = 0 => mapped >= limit
  BY <1>1, <1>3 DEF Handled
<1> DEFINE p == Top.chunk
<1>5. p \in Nat /\ (p = 0 => mapped >= limit) /\ ReturnPtr(p)
  BY <1>1, <1>3, <1>4
<1> HIDE DEF p
<1>6. Stacked(frames, chains, ret, mapped, limit, panicked)
  BY BaseIs
<1>7. Stacked(frames', chains, ret', mapped, limit, panicked) /\ ret' \in RetSet
  BY <1>1, <1>5, <1>6, ReturnPtrIs
<1> QED BY <1>2, <1>7 DEF Base, TypeOK, Stacked

-----------------------------------------------------------------------------
(* What handle_state reserves                                              *)

(* An array that counts sizes of objects.                                  *)
Counts(arr) == Sorted(arr) /\ \A i \in DOMAIN arr : arr[i].size \in OwnSizes

(* One object more is counted.                                             *)
LEMMA CountOne ==
  ASSUME NEW arr, Counts(arr), NEW size, size \in OwnSizes
  PROVE  Counts(WriteUsedNumberAndSize(arr, size, 1))
<1> DEFINE one == 1
           hit == BinarySearch(arr, size)
           new == WriteAt(arr, hit, size, one)
<1>1. size \in Nat /\ size # 0 /\ one \in Nat /\ one # 0
  BY Constants
<1>2. WriteUsedNumberAndSize(arr, size, one) = new
  BY <1>1 DEF WriteUsedNumberAndSize
<1>3. Sorted(arr)
  BY DEF Counts
<1>4. Hit(arr, size, 1, Len(arr) + 1, hit)
  BY <1>1, <1>3, BinarySearchFinds
<1> HIDE DEF hit, one
<1>5. Written(arr, size, one, new)
  <2>1. hit.found = TRUE \/ hit.found = FALSE
    BY <1>4 DEF Hit
  <2> QED BY <1>1, <1>3, <1>4, <2>1, WriteFound, WriteNew
<1> HIDE DEF new
<1>6. Counts(new)
  <2>1. Sorted(new)
    BY <1>5 DEF Written
  <2>2. ASSUME NEW j \in DOMAIN new PROVE new[j].size \in OwnSizes
    <3>1. new[j].size = size \/ \E i \in DOMAIN arr : new[j] = arr[i]
      BY <1>5 DEF Written
    <3> QED BY <3>1 DEF Counts
  <2> QED BY <2>1, <2>2 DEF Counts
<1> QED BY <1>2, <1>6 DEF one

(* The loop over the used chunks, as a function.                           *)
CountAt(f, used, i) ==
  f[i] = IF i = 0 THEN NewUsedObjects ELSE WriteUsedNumberAndSize(f[i - 1], used[i].size, 1)
Counting(f, used) ==
  f = [i \in 0 .. Len(used) |->
         IF i = 0 THEN NewUsedObjects ELSE WriteUsedNumberAndSize(f[i - 1], used[i].size, 1)]

(* There is such a function.                                               *)
LEMMA CountingExists ==
  ASSUME NEW used, used \in Seq(UsedSet)
  PROVE  \E f : Counting(f, used)
<1> DEFINE n == Len(used)
           Upto(g, m) == /\ DOMAIN g = 0 .. n /\ g = [i \in 0 .. n |-> g[i]]
                         /\ \A i \in 0 .. m : CountAt(g, used, i)
           S == {m \in 0 .. n : \E g : Upto(g, m)}
<1>0. n \in Nat
  BY Indices
<1> HIDE DEF n
<1>1. 0 \in S
  <2> DEFINE g == [i \in 0 .. n |-> NewUsedObjects]
  <2>1. DOMAIN g = 0 .. n /\ g = [i \in 0 .. n |-> g[i]] /\ \A i \in 0 .. 0 : CountAt(g, used, i)
    BY <1>0 DEF CountAt
  <2>2. Upto(g, 0)
    BY <2>1
  <2> HIDE DEF g
  <2> QED BY <1>0, <2>2
<1>2. ASSUME NEW m \in 0 .. n, m + 1 <= n, m \in S PROVE m + 1 \in S
  <2>1. PICK g : Upto(g, m)
    BY <1>2
  <2> DEFINE e == WriteUsedNumberAndSize(g[m], used[m + 1].size, 1)
             h == [i \in 0 .. n |-> IF i = m + 1 THEN e ELSE g[i]]
  <2>2. m \in Nat /\ m + 1 \in 0 .. n /\ m + 1 # 0 /\ m + 1 - 1 = m
    BY <1>0, <1>2
  <2>3. h[m + 1] = e /\ \A i \in 0 .. n : i # m + 1 => h[i] = g[i]
    BY <2>2
  <2>4. DOMAIN h = 0 .. n /\ h = [i \in 0 .. n |-> h[i]]
    OBVIOUS
  <2> HIDE DEF h
  <2>5. ASSUME NEW i \in 0 .. m + 1 PROVE CountAt(h, used, i)
    <3>1. CASE i = m + 1
      <4>1. h[i - 1] = g[m] /\ m # m + 1
        BY <3>1, <2>2, <2>3
      <4> QED BY <3>1, <4>1, <2>2, <2>3 DEF CountAt
    <3>2. CASE i # m + 1
      <4>1. i \in 0 .. m /\ i \in 0 .. n /\ (i # 0 => i - 1 \in 0 .. n /\ i - 1 # m + 1)
        <5>1. i \in 0 .. m + 1 /\ m \in Nat /\ n \in Nat /\ m + 1 <= n
          BY <2>2, <1>0, <1>2, <2>5
        <5> QED BY <5>1, <3>2
      <4>2. h[i] = g[i] /\ (i # 0 => h[i - 1] = g[i - 1]) /\ CountAt(g, used, i)
        BY <4>1, <2>1, <2>3, <3>2
      <4> QED BY <4>2 DEF CountAt
    <3> QED BY <3>1, <3>2
  <2>6. Upto(h, m + 1)
    BY <2>4, <2>5
  <2> QED BY <2>2, <2>6
<1>3. n \in S
  <2> HIDE DEF S
  <2>1. \A m \in 0 .. n : m \in S
    BY <1>0, <1>1, <1>2, UpTo
  <2> QED BY <2>1, <1>0
<1>4. PICK g : Upto(g, n)
  BY <1>3
<1>5. g = [i \in 0 .. n |-> IF i = 0 THEN NewUsedObjects ELSE WriteUsedNumberAndSize(g[i - 1], used[i].size, 1)]
  BY <1>4 DEF CountAt
<1> QED BY <1>5 DEF Counting, n

(* count_all_common_used_chunks, count_all_large_used_chunks: the numbers  *)
(* of chunks, by size.                                                     *)
LEMMA CountIs ==
  ASSUME NEW used, used \in Seq(UsedSet)
  PROVE  Counts(CountAllUsedChunks(used))
<1> DEFINE f == CHOOSE h : Counting(h, used)
           n == Len(used)
<1>1. Counting(f, used)
  BY CountingExists
<1>2. CountAllUsedChunks(used) = f[n]
  BY DEF CountAllUsedChunks, CountUsedChunks, Counting
<1>3. n \in Nat /\ \A i \in 1 .. n : used[i] \in UsedSet
  BY Indices
<1> HIDE DEF f, n
<1>4. ASSUME NEW i \in 0 .. n PROVE CountAt(f, used, i)
  BY <1>1, <1>4 DEF Counting, CountAt, n
<1> DEFINE S == {m \in 0 .. n : Counts(f[m])}
<1>5. 0 \in S
  <2>1. f[0] = <<>>
    BY <1>3, <1>4 DEF CountAt, NewUsedObjects
  <2>2. Counts(<<>>)
    BY DEF Counts, Sorted
  <2> QED BY <2>1, <2>2, <1>3
<1>6. ASSUME NEW m \in 0 .. n, m + 1 <= n, m \in S PROVE m + 1 \in S
  <2>1. m \in Nat /\ m + 1 \in 0 .. n /\ m + 1 # 0 /\ m + 1 - 1 = m /\ m + 1 \in 1 .. n
    BY <1>3, <1>6
  <2>2. used[m + 1].size \in OwnSizes
    BY <1>3, <2>1 DEF UsedSet
  <2>3. f[m + 1] = WriteUsedNumberAndSize(f[m], used[m + 1].size, 1)
    BY <1>4, <2>1 DEF CountAt
  <2>4. Counts(f[m])
    BY <1>6
  <2>5. Counts(f[m + 1])
    BY <2>2, <2>3, <2>4, CountOne
  <2> QED BY <2>1, <2>5
<1>7. n \in S
  <2> HIDE DEF S
  <2>1. \A m \in 0 .. n : m \in S
    BY <1>3, <1>5, <1>6, UpTo
  <2> QED BY <2>1, <1>3
<1> QED BY <1>2, <1>7

(* An object of one of these sizes has a vector.                           *)
LEMMA OwnVectors ==
  ASSUME NEW size, size \in OwnSizes
  PROVE  /\ RecommendedSize(size) \in Sizes
         /\ Objects(RecommendedSize(size)) \in Vectors /\ Chunks(RecommendedSize(size)) \in Vectors
<1>1. size \in Nat \ {0}
  BY Constants
<1>2. \E s \in Sizes : size <= s
  <2>1. CASE size = SIZE_OF_STATE
    BY <2>1, SelfAllocAssumption
  <2>2. CASE size \in Sizes
    <3>1. size <= size
      BY <1>1
    <3> QED BY <2>2, <3>1
  <2> QED BY <2>1, <2>2 DEF OwnSizes
<1>3. RecommendedSize(size) \in Sizes
  BY <1>1, <1>2, RecommendedIs
<1> QED BY <1>3, VectorsAre

(* The tasks of a phase.                                                   *)
Placed(todo, state) ==
  /\ todo \in Seq(TaskSet)
  /\ \A n \in DOMAIN todo : todo[n].slot # <<>> => todo[n].slot[2] \in DOMAIN state.used[todo[n].slot[1]]

(* The tasks of a phase name chunks that the State has.                    *)
LEMMA ToReserveIs ==
  ASSUME NEW state, state \in StateSet, NEW phase, phase \in 1 .. 7
  PROVE  Placed(ToReserve(state, phase), state)
<1> DEFINE c == PhaseClass[phase]
           used == state.used[c]
           arr == CountAllUsedChunks(used)
           todo == ToReserve(state, phase)
<1>0. state.used \in [Classes -> Seq(UsedSet)] /\ state.free \in [Classes -> Seq(Ptr)]
  BY DEF StateSet
<1>1. phase \in {1, 2, 3, 4} => used \in Seq(UsedSet) /\ c \in Classes
  <2>1. phase \in {1, 2, 3, 4} => c \in Classes
    BY DEF PhaseClass, Classes
  <2> QED BY <2>1, <1>0
<1>2. CASE phase \in {1, 2}
  <2> DEFINE task(i) == [v |-> Objects(RecommendedSize(used[i].size)), slot |-> <<c, i>>,
                         add |-> 0, counted |-> FALSE]
  <2>1. todo = [i \in DOMAIN used |-> task(i)]
    BY <1>2 DEF ToReserve
  <2>2. used \in Seq(UsedSet) /\ c \in Classes
    BY <1>1, <1>2
  <2> HIDE DEF used, c
  <2> DEFINE n == Len(used)
  <2>3. n \in Nat /\ DOMAIN used = 1 .. n /\ \A i \in 1 .. n : used[i] \in UsedSet
    BY <2>2, Indices
  <2> HIDE DEF n
  <2>4. ASSUME NEW i \in 1 .. n PROVE task(i) \in TaskSet
    <3>1. used[i].size \in OwnSizes
      BY <2>3 DEF UsedSet
    <3>2. Objects(RecommendedSize(used[i].size)) \in Vectors
      BY <3>1, OwnVectors
    <3>3. <<c, i>> \in Classes \X Nat
      BY <2>2, <2>3
    <3> QED BY <3>2, <3>3 DEF TaskSet
  <2> HIDE DEF todo
  <2>5. todo \in [1 .. n -> TaskSet]
    BY <2>1, <2>3, <2>4
  <2>6. todo \in Seq(TaskSet) /\ DOMAIN todo = 1 .. n
    BY <2>3, <2>5, MapIs
  <2>7. ASSUME NEW i \in DOMAIN todo PROVE todo[i].slot[2] \in DOMAIN state.used[todo[i].slot[1]]
    <3>1. todo[i].slot = <<c, i>> /\ i \in DOMAIN used
      BY <2>1, <2>3, <2>6
    <3> QED BY <3>1 DEF used
  <2> QED BY <2>6, <2>7 DEF Placed, todo
<1>3. CASE phase \in {3, 4}
  <2> DEFINE task(i) == [v |-> Chunks(RecommendedSize(arr[i].size)), slot |-> <<>>,
                         add |-> arr[i].number, counted |-> TRUE]
  <2>1. todo = [i \in DOMAIN arr |-> task(i)]
    BY <1>3 DEF ToReserve
  <2>2. Counts(arr)
    BY <1>1, <1>3, CountIs
  <2> HIDE DEF arr
  <2> DEFINE n == Len(arr)
  <2>3. /\ n \in Nat /\ DOMAIN arr = 1 .. n
        /\ \A i \in 1 .. n : arr[i].number \in Nat /\ arr[i].size \in OwnSizes
    <3>1. Sorted(arr) /\ \A i \in DOMAIN arr : arr[i].size \in OwnSizes
      BY <2>2 DEF Counts
    <3> QED BY <3>1, SortedIs
  <2> HIDE DEF n
  <2>4. ASSUME NEW i \in 1 .. n PROVE task(i) \in TaskSet
    <3>1. Chunks(RecommendedSize(arr[i].size)) \in Vectors
      BY <2>3, OwnVectors
    <3> QED BY <2>3, <3>1 DEF TaskSet
  <2> HIDE DEF todo
  <2>5. todo \in [1 .. n -> TaskSet]
    BY <2>1, <2>3, <2>4
  <2>6. todo \in Seq(TaskSet) /\ DOMAIN todo = 1 .. n
    BY <2>3, <2>5, MapIs
  <2>7. \A i \in DOMAIN todo : todo[i].slot = <<>>
    BY <2>1, <2>3, <2>6
  <2> QED BY <2>6, <2>7 DEF Placed, todo
<1>4. CASE phase \in {5, 6, 7}
  <2> DEFINE v == IF phase = 5 THEN Regions ELSE IF phase = 6 THEN FreeChunks("large") ELSE FreeChunks("common")
             add == IF phase = 5 THEN 1 ELSE IF phase = 6 THEN Len(state.free["large"])
                    ELSE Len(state.free["common"])
             task == [v |-> v, slot |-> <<>>, add |-> add, counted |-> FALSE]
  <2>1. todo = <<task>>
    <3>1. CASE phase = 5
      <4> DEFINE t == <<[v |-> Regions, slot |-> <<>>, add |-> 1, counted |-> FALSE]>>
      <4> HIDE DEF t
      <4>1. phase \notin {1, 2} /\ phase \notin {3, 4} /\ phase = 5 /\ phase # 6 /\ phase # 7
        BY <3>1
      <4>2. todo = CASE phase \in {1, 2} -> 1 [] phase = 5 -> t
        BY <4>1 DEF ToReserve, t
      <4>3. todo = t
        BY <4>1, <4>2
      <4> QED BY <3>1, <4>3 DEF t
    <3>2. CASE phase = 6
      <4> DEFINE t == <<[v |-> FreeChunks("large"), slot |-> <<>>, add |-> Len(state.free["large"]),
                      counted |-> FALSE]>>
      <4> HIDE DEF t
      <4>1. phase \notin {1, 2} /\ phase \notin {3, 4} /\ phase = 6 /\ phase # 5 /\ phase # 7
        BY <3>2
      <4>2. todo = CASE phase \in {1, 2} -> 1 [] phase = 6 -> t
        BY <4>1 DEF ToReserve, t
      <4>3. todo = t
        BY <4>1, <4>2
      <4> QED BY <3>2, <4>3 DEF t
    <3>3. CASE phase = 7
      <4> DEFINE t == <<[v |-> FreeChunks("common"), slot |-> <<>>, add |-> Len(state.free["common"]),
                      counted |-> FALSE]>>
      <4> HIDE DEF t
      <4>1. phase \notin {1, 2} /\ phase \notin {3, 4} /\ phase = 7 /\ phase # 5 /\ phase # 6
        BY <3>3
      <4>2. todo = CASE phase \in {1, 2} -> 1 [] phase = 7 -> t
        BY <4>1 DEF ToReserve, t
      <4>3. todo = t
        BY <4>1, <4>2
      <4> QED BY <3>3, <4>3 DEF t
    <3> QED BY <1>4, <3>1, <3>2, <3>3
  <2>2. v \in Vectors
    BY VectorsAre DEF Classes
  <2>3. add \in Nat
    <3>1. state.free["large"] \in Seq(Ptr) /\ state.free["common"] \in Seq(Ptr)
      BY <1>0 DEF Classes
    <3>2. Len(state.free["large"]) \in Nat /\ Len(state.free["common"]) \in Nat
      BY <3>1, Indices
    <3> QED BY <3>2
  <2> HIDE DEF v, add
  <2>4. task \in TaskSet /\ task.slot = <<>>
    BY <2>2, <2>3 DEF TaskSet
  <2> HIDE DEF task, todo
  <2>5. todo \in Seq(TaskSet) /\ \A i \in DOMAIN todo : todo[i].slot = <<>>
    BY <2>1, <2>4
  <2> QED BY <2>5 DEF Placed, todo
<1> QED BY <1>2, <1>3, <1>4

(* A call of handle_state on top.                                          *)
LEMMA HandleTop ==
  ASSUME Base, frames # <<>>, Top.f = "handle"
  PROVE  /\ Top \in HandleSet /\ Top.k \in Nat /\ Top.phase \in 0 .. 7 /\ Top.todo \in Seq(TaskSet)
         /\ Top.more \in BOOLEAN /\ Top.to_dealloc \in Seq(Ptr)
         /\ Top.k \in 1 .. Len(chains) /\ InPass(Top, chains) /\ chains[Top.k] \in Seq(StateSet)
         /\ Top.at # "dealloc" =>
              /\ Usable(Top.k, chains) /\ chains[Top.k] # <<>>
              /\ State = chains[Top.k][1] /\ State \in StateSet
         /\ Len(Top.to_dealloc) + Len(chains[Top.k]) <= mapped
<1>1. FrameOK(Top, chains) /\ Top \in FrameSet /\ Room(Top, chains, mapped) /\ Len(chains) \in Nat
      /\ chains \in Seq(Seq(StateSet))
  BY TopIs
<1>2. Top \in HandleSet
  BY <1>1, FrameIs
<1>3. /\ Top.k \in Nat /\ Top.phase \in 0 .. 7 /\ Top.todo \in Seq(TaskSet)
      /\ Top.more \in BOOLEAN /\ Top.to_dealloc \in Seq(Ptr)
  BY <1>2 DEF HandleSet
<1>4. Top.k \in 1 .. Len(chains)
  BY <1>1 DEF FrameOK, ChainOf
<1>5. InPass(Top, chains)
  BY <1>1 DEF FrameOK
<1>6. chains[Top.k] \in Seq(StateSet)
  BY <1>1, <1>4, Indices
<1>7. Top.at # "dealloc" => chains[Top.k] # <<>>
  BY <1>5 DEF InPass
<1>8. ASSUME chains[Top.k] # <<>> PROVE State = chains[Top.k][1] /\ State \in StateSet
  BY <1>6, <1>8, TailIs DEF State
<1>9. ASSUME chains[Top.k] # <<>> PROVE Usable(Top.k, chains)
  BY <1>1, <1>4, <1>9 DEF Usable
<1>10. Len(Top.to_dealloc) + Len(chains[Top.k]) <= mapped
  BY <1>1 DEF Room
<1> QED BY <1>2, <1>3, <1>4, <1>5, <1>6, <1>7, <1>8, <1>9, <1>10

(* handle_state at another place.                                          *)
LEMMA HandleMoved ==
  ASSUME Base, frames # <<>>, Top.f = "handle", NEW fr, fr \in HandleSet, fr.k = Top.k,
         Len(fr.to_dealloc) <= Len(Top.to_dealloc), InPass(fr, chains)
  PROVE  /\ FrameOK(fr, chains) /\ Same(Last(frames), fr) /\ Room(fr, chains, mapped)
         /\ Handled(fr, mapped, limit) /\ fr.f = "handle"
<1>1. /\ Top.k \in 1 .. Len(chains) /\ Len(Top.to_dealloc) + Len(chains[Top.k]) <= mapped
      /\ Top = Last(frames) /\ Top.to_dealloc \in Seq(Ptr) /\ chains[Top.k] \in Seq(StateSet)
      /\ Len(chains) \in Nat /\ mapped \in Nat
  BY HandleTop, TopIs DEF Base, TypeOK
<1>2. fr.f = "handle" /\ fr.to_dealloc \in Seq(Ptr)
  BY DEF HandleSet
<1>3. HasChunk(fr) /\ HasCap(fr) /\ ChainOf(fr) = Top.k
  BY <1>2 DEF HasChunk, HasCap, ChainOf
<1>4. FrameOK(fr, chains)
  BY <1>1, <1>2, <1>3 DEF FrameOK, FrameSet
<1>5. Same(Last(frames), fr)
  <2>1. Last(frames).f = "handle" /\ Last(frames).k = fr.k
    BY <1>1
  <2> QED BY <1>2, <2>1 DEF Same, ChainOf
<1>6. Room(fr, chains, mapped)
  <2> DEFINE a == Len(fr.to_dealloc)
             b == Len(Top.to_dealloc)
             d == Len(chains[Top.k])
  <2>1. a \in Nat /\ b \in Nat /\ d \in Nat /\ a <= b /\ b + d <= mapped /\ mapped \in Nat
    BY <1>1, <1>2, Indices
  <2>2. a + d <= mapped
    <3> HIDE DEF a, b, d
    <3> QED BY <2>1
  <2> QED BY <2>2 DEF Room
<1> QED BY <1>2, <1>4, <1>5, <1>6 DEF Handled

(* It goes on there ...                                                    *)
LEMMA HandleGoto ==
  ASSUME Base, frames # <<>>, Top.f = "handle", NEW fr, fr \in HandleSet, fr.k = Top.k,
         Len(fr.to_dealloc) <= Len(Top.to_dealloc), InPass(fr, chains),
         fr.at \notin {"inited", "boxed"}, Goto(fr)
  PROVE  Stacked(frames', chains, ret', mapped, limit, panicked) /\ ret' \in RetSet
<1>1. /\ FrameOK(fr, chains) /\ Same(Last(frames), fr) /\ Room(fr, chains, mapped)
      /\ Handled(fr, mapped, limit) /\ fr.f = "handle"
  BY HandleMoved
<1>2. ~ Receives(fr)
  BY <1>1 DEF Receives
<1>3. Stacked(frames, chains, ret, mapped, limit, panicked)
  BY BaseIs
<1>4. Stacked(Append(Front(frames), fr), chains, Nothing, mapped, limit, panicked)
  BY <1>1, <1>2, <1>3, GotoStep
<1> QED BY <1>4, NothingIs DEF Goto

(* ... or calls reserve or self_alloc_ there.                              *)
LEMMA HandleCalls ==
  ASSUME Base, frames # <<>>, Top.f = "handle", NEW fr, fr \in HandleSet, fr.k = Top.k,
         Len(fr.to_dealloc) <= Len(Top.to_dealloc), InPass(fr, chains),
         NEW c, FrameOK(c, chains), Calls(fr, c), c.f # "handle", ~ Receives(c), Handled(c, mapped, limit),
         Call(fr, c)
  PROVE  Stacked(frames', chains, ret', mapped, limit, panicked) /\ ret' \in RetSet
<1>1. /\ FrameOK(fr, chains) /\ Same(Last(frames), fr) /\ Room(fr, chains, mapped)
      /\ Handled(fr, mapped, limit) /\ fr.f = "handle"
  BY HandleMoved
<1>3. Stacked(frames, chains, ret, mapped, limit, panicked)
  BY BaseIs
<1>4. Stacked(Front(frames) \o <<fr, c>>, chains, Nothing, mapped, limit, panicked)
  BY <1>1, <1>3, CallStep
<1> QED BY <1>4, NothingIs DEF Call

(* A step that changes boxes and the stack only.                           *)
LEMMA BoxStep ==
  ASSUME Base, UNCHANGED <<vecs, chains, mapped, dropped, user, panicked, ops, limit>>,
         nlpm' \in Nat, table' \in [Classes -> Nat],
         ret' \in RetSet, Stacked(frames', chains, ret', mapped, limit, panicked)
  PROVE  Base'
  BY DEF Base, TypeOK, Stacked

(* The only change is in at.                                               *)
MovesTo(fr, at, gr) ==
  /\ at \in {"inited", "reserve", "boxed", "reserved"}
  /\ fr.at # "dealloc"
  /\ at \in {"boxed", "reserved"} => fr.todo # <<>>
  /\ at = "boxed" => fr.phase \in {3, 4}
  /\ gr = [fr EXCEPT !.at = at]

(* handle_state knows there what it knew before.                           *)
LEMMA MovedTo ==
  ASSUME NEW fr, fr \in HandleSet, NEW chs, InPass(fr, chs), NEW at, NEW gr, MovesTo(fr, at, gr)
  PROVE  /\ gr \in HandleSet /\ gr.k = fr.k /\ Len(gr.to_dealloc) <= Len(fr.to_dealloc) /\ InPass(gr, chs)
         /\ gr.f = "handle" /\ gr.at = at
<1>1. gr \in HandleSet
  BY DEF HandleSet, MovesTo
<1>2. /\ gr.f = "handle" /\ gr.at = at /\ gr.k = fr.k /\ gr.to_dealloc = fr.to_dealloc
      /\ gr.todo = fr.todo /\ gr.phase = fr.phase /\ fr.f = "handle" /\ fr.to_dealloc \in Seq(Ptr)
  BY DEF HandleSet, MovesTo
<1>3. Len(gr.to_dealloc) <= Len(fr.to_dealloc)
  <2> DEFINE n == Len(fr.to_dealloc)
  <2>1. n \in Nat /\ Len(gr.to_dealloc) = n
    BY <1>2, Indices
  <2> HIDE DEF n
  <2> QED BY <2>1 DEF n
<1>4. InPass(gr, chs)
  BY <1>2 DEF InPass, MovesTo
<1> QED BY <1>1, <1>2, <1>3, <1>4

(* handle_state: the non-local pointer manager                             *)
LEMMA HandleNlpmKeeps ==
  ASSUME Base, HandleNlpm
  PROVE  Base'
<1>1. frames # <<>> /\ Top.f = "handle" /\ Top.at = "nlpm"
  BY DEF HandleNlpm, At
<1>2. UNCHANGED <<nlpm, table, chains, mapped, dropped, user, panicked, ops, limit>> /\ UNCHANGED vecs
  BY DEF HandleNlpm
<1>3. Top \in HandleSet /\ InPass(Top, chains) /\ Usable(Top.k, chains) /\ Len(chains) \in Nat
  BY <1>1, HandleTop, TopIs
<1>4. VecsOK(vecs')
  BY <1>2 DEF Base, TypeOK
<1>5. CASE nlpm = 0
  <2> DEFINE at == "inited"
             fr == [Top EXCEPT !.at = at]
             yes == TRUE
             c == Alloc(SIZE_OF_NLPM, Top.k, yes, yes)
  <2>1. Call(fr, c)
    BY <1>5 DEF HandleNlpm
  <2>2. /\ fr \in HandleSet /\ fr.k = Top.k /\ Len(fr.to_dealloc) <= Len(Top.to_dealloc)
        /\ InPass(fr, chains) /\ fr.f = "handle" /\ fr.at = at
    <3>1. MovesTo(Top, at, fr)
      BY <1>1, <1>3 DEF MovesTo
    <3>2. Top \in HandleSet /\ InPass(Top, chains)
      BY <1>1, <1>3
    <3> HIDE DEF at, fr
    <3> QED BY <3>1, <3>2, MovedTo
  <2>3. SIZE_OF_NLPM \in Sizes /\ yes \in BOOLEAN
    BY Constants
  <2>4. FrameOK(c, chains) /\ c.f = "alloc" /\ ~ Receives(c) /\ Handled(c, mapped, limit)
    <3> HIDE DEF yes
    <3> QED BY <1>3, <2>3, AllocIs
  <2>5. Calls(fr, c) /\ c.f # "handle"
    <3> HIDE DEF fr, c
    <3> QED BY <2>2, <2>4 DEF Calls
  <2> HIDE DEF fr, c
  <2>6. Stacked(frames', chains, ret', mapped, limit, panicked) /\ ret' \in RetSet
    BY <1>1, <2>1, <2>2, <2>4, <2>5, HandleCalls
  <2> QED BY <1>2, <1>4, <2>6, VecsStep
<1>6. CASE nlpm # 0
  <2> DEFINE at == "reserve"
             fr == [Top EXCEPT !.at = at]
  <2>1. Goto(fr)
    BY <1>6 DEF HandleNlpm
  <2>2. /\ fr \in HandleSet /\ fr.k = Top.k /\ Len(fr.to_dealloc) <= Len(Top.to_dealloc)
        /\ InPass(fr, chains) /\ fr.f = "handle" /\ fr.at = at
    <3>1. MovesTo(Top, at, fr)
      BY <1>1, <1>3 DEF MovesTo
    <3>2. Top \in HandleSet /\ InPass(Top, chains)
      BY <1>1, <1>3
    <3> HIDE DEF at, fr
    <3> QED BY <3>1, <3>2, MovedTo
  <2>3. fr.at \notin {"inited", "boxed"}
    BY <2>2
  <2> HIDE DEF fr
  <2>6. Stacked(frames', chains, ret', mapped, limit, panicked) /\ ret' \in RetSet
    BY <1>1, <2>1, <2>2, <2>3, HandleGoto
  <2> QED BY <1>2, <1>4, <2>6, VecsStep
<1> QED BY <1>5, <1>6

(* handle_state has the memory for it.                                     *)
LEMMA HandleInitedKeeps ==
  ASSUME Base, HandleInited
  PROVE  Base'
<1>1. frames # <<>> /\ Top.f = "handle" /\ Top.at = "inited"
  BY DEF HandleInited, At
<1>2. UNCHANGED <<vecs, chains, mapped, dropped, user, panicked, ops, limit>> /\ UNCHANGED table
  BY DEF HandleInited
<1>3. Top \in HandleSet /\ InPass(Top, chains)
  BY <1>1, HandleTop
<1> DEFINE at == "reserve"
           fr == [Top EXCEPT !.at = at]
<1>4. Goto(fr) /\ nlpm' = ret.ptr
  BY DEF HandleInited
<1>5. /\ fr \in HandleSet /\ fr.k = Top.k /\ Len(fr.to_dealloc) <= Len(Top.to_dealloc)
      /\ InPass(fr, chains) /\ fr.f = "handle" /\ fr.at = at
  <2>1. MovesTo(Top, at, fr)
    BY <1>1, <1>3 DEF MovesTo
  <2>2. Top \in HandleSet /\ InPass(Top, chains)
    BY <1>1, <1>3
  <2> HIDE DEF at, fr
  <2> QED BY <2>1, <2>2, MovedTo
<1>6. fr.at \notin {"inited", "boxed"}
  BY <1>5
<1> HIDE DEF fr
<1>7. Stacked(frames', chains, ret', mapped, limit, panicked) /\ ret' \in RetSet
  BY <1>1, <1>4, <1>5, <1>6, HandleGoto
<1>8. nlpm' \in Nat /\ table' \in [Classes -> Nat]
  BY <1>2, <1>4 DEF Base, TypeOK, RetSet
<1> QED BY <1>2, <1>7, <1>8, BoxStep

(* A panic keeps everything as it is.                                      *)
LEMMA PanicIs ==
  ASSUME Base, Panic
  PROVE  Base'
<1>1. /\ panicked' = TRUE /\ ret' = Nothing
      /\ UNCHANGED <<vecs, nlpm, table, chains, frames, mapped, dropped, user, ops, limit>>
  BY DEF Panic
<1>2. Stacked(frames, chains, ret, mapped, limit, panicked)
  BY BaseIs
<1> DEFINE yes == TRUE
<1>3. Stacked(frames, chains, Nothing, mapped, limit, yes)
  BY <1>2, NothingIs, StackedIs
<1>4. Stacked(frames', chains', ret', mapped', limit', panicked')
  BY <1>1, <1>3
<1> QED BY <1>1, <1>4, NothingIs DEF Base, TypeOK, Stacked

(* handle_state begins a phase, or ends the passes.                        *)
LEMMA HandlePhaseKeeps ==
  ASSUME Base, HandlePhase
  PROVE  Base'
<1> DEFINE phase == IF Top.phase = 7 THEN 1 ELSE Top.phase + 1
<1>1. frames # <<>> /\ Top.f = "handle" /\ Top.at = "reserve" /\ Top.todo = <<>>
  BY DEF HandlePhase, At
<1>2. UNCHANGED <<nlpm, table, chains, mapped, dropped, user, panicked, ops, limit>> /\ UNCHANGED vecs
  BY DEF HandlePhase
<1>3. /\ Top \in HandleSet /\ InPass(Top, chains) /\ State \in StateSet /\ State = chains[Top.k][1]
      /\ Top.phase \in 0 .. 7 /\ chains[Top.k] # <<>> /\ Top.to_dealloc \in Seq(Ptr)
  BY <1>1, HandleTop
<1>4. VecsOK(vecs')
  BY <1>2 DEF Base, TypeOK
<1>4a. Len(Top.to_dealloc) <= Len(Top.to_dealloc)
  <2> DEFINE n == Len(Top.to_dealloc)
  <2>1. n \in Nat
    BY <1>3, Indices
  <2> HIDE DEF n
  <2>2. n <= n
    BY <2>1
  <2> QED BY <2>2 DEF n
<1>5. CASE Top.phase = 7 /\ ~ Top.more
  <2> DEFINE fr == [Top EXCEPT !.at = "commit"]
  <2>1. Goto(fr)
    BY <1>5 DEF HandlePhase
  <2>2. fr \in HandleSet
    BY <1>3 DEF HandleSet
  <2>3. /\ fr.k = Top.k /\ fr.to_dealloc = Top.to_dealloc /\ fr.at = "commit" /\ fr.todo = <<>>
        /\ fr.f = "handle"
    BY <1>1, <1>3 DEF HandleSet
  <2> HIDE DEF fr
  <2>4. InPass(fr, chains)
    BY <1>3, <2>3 DEF InPass
  <2>5. Len(fr.to_dealloc) <= Len(Top.to_dealloc) /\ fr.at \notin {"inited", "boxed"}
    BY <1>4a, <2>3
  <2>6. Stacked(frames', chains, ret', mapped, limit, panicked) /\ ret' \in RetSet
    BY <1>1, <2>1, <2>2, <2>3, <2>4, <2>5, HandleGoto
  <2> QED BY <1>2, <1>4, <2>6, VecsStep
<1>6. CASE ~ (Top.phase = 7 /\ ~ Top.more)
  <2> DEFINE todo == ToReserve(State, phase)
             more == IF phase = 1 THEN FALSE ELSE Top.more
             fr == [Top EXCEPT !.phase = phase, !.todo = todo, !.more = more]
  <2>1. Goto(fr)
    BY <1>3, <1>6 DEF HandlePhase, HandleSet
  <2>1a. phase \in 1 .. 7
    BY <1>3
  <2>1b. Placed(todo, State)
    <3> HIDE DEF phase
    <3> QED BY <1>3, <2>1a, ToReserveIs
  <2>1c. todo \in Seq(TaskSet) /\ more \in BOOLEAN
    BY <1>3, <2>1b DEF Placed, HandleSet
  <2> HIDE DEF todo, phase, more
  <2>1d. phase \in 0 .. 7
    BY <2>1a
  <2>2. fr \in HandleSet
    BY <1>3, <2>1c, <2>1d DEF HandleSet
  <2>3. /\ fr.k = Top.k /\ fr.to_dealloc = Top.to_dealloc /\ fr.at = "reserve" /\ fr.todo = todo
        /\ fr.f = "handle" /\ fr.phase = phase
    BY <1>1, <1>3 DEF HandleSet
  <2> HIDE DEF fr
  <2>4. InPass(fr, chains)
    BY <1>3, <2>1a, <2>1b, <2>3 DEF InPass, Placed
  <2>5. Len(fr.to_dealloc) <= Len(Top.to_dealloc) /\ fr.at \notin {"inited", "boxed"}
    BY <1>4a, <2>3
  <2>6. Stacked(frames', chains, ret', mapped, limit, panicked) /\ ret' \in RetSet
    BY <1>1, <2>1, <2>2, <2>3, <2>4, <2>5, HandleGoto
  <2> QED BY <1>2, <1>4, <2>6, VecsStep
<1> QED BY <1>5, <1>6

(* What a task reserves room for.                                          *)
LEMMA TaskIs ==
  ASSUME Base, frames # <<>>, Top.f = "handle", Top.todo # <<>>
  PROVE  LET task == Head(Top.todo)
             add == IF task.slot = <<>> THEN task.add
                    ELSE State.used[task.slot[1]][task.slot[2]].slots
         IN /\ task.v \in Vectors /\ task.counted \in BOOLEAN /\ add \in Nat
            /\ Top.phase \in 1 .. 7 /\ Top.at # "dealloc"
<1> DEFINE task == Head(Top.todo)
           one == 1
<1>1. /\ Top \in HandleSet /\ Top.todo \in Seq(TaskSet) /\ InPass(Top, chains) /\ Top \in FrameSet
  BY HandleTop, TopIs
<1>2. Top.phase \in 1 .. 7 /\ Top.at # "dealloc"
  BY <1>1 DEF InPass
<1>3. task = Top.todo[one] /\ task \in TaskSet
  BY <1>1, TailIs
<1>4. one \in DOMAIN Top.todo
  <2> DEFINE n == Len(Top.todo)
  <2>1. n \in Nat /\ n # 0 /\ DOMAIN Top.todo = 1 .. n
    BY <1>1, Indices
  <2> HIDE DEF n
  <2> QED BY <2>1
<1> HIDE DEF one, task
<1>5. task.v \in Vectors /\ task.counted \in BOOLEAN /\ task.add \in Nat
  BY <1>3 DEF TaskSet
<1>6. ASSUME task.slot # <<>> PROVE State.used[task.slot[1]][task.slot[2]].slots \in Nat
  <2>1. State = chains[Top.k][1] /\ State \in StateSet
    BY <1>2, HandleTop
  <2>2. Top.todo[one].slot # <<>>
    BY <1>3, <1>6
  <2>3. Top.todo[one].slot[1] \in Classes
    BY <1>1, <1>4, <2>2, Slots
  <2>4. Top.todo[one].slot[2] \in DOMAIN chains[Top.k][1].used[Top.todo[one].slot[1]]
    BY <1>1, <1>4, <2>2 DEF InPass
  <2> DEFINE c == task.slot[1]
             i == task.slot[2]
  <2>5. c \in Classes /\ i \in DOMAIN State.used[c]
    BY <1>3, <2>1, <2>3, <2>4
  <2> HIDE DEF c, i
  <2>6. State.used[c] \in Seq(UsedSet)
    BY <2>1, <2>5 DEF StateSet
  <2>7. State.used[c][i] \in UsedSet
    BY <2>5, <2>6
  <2>8. State.used[c][i].slots \in Nat
    BY <2>7 DEF UsedSet
  <2> QED BY <2>8 DEF c, i
<1> QED BY <1>2, <1>5, <1>6 DEF task

(* handle_state: a chunk table or room in a vector is asked for.           *)
LEMMA HandleReserveKeeps ==
  ASSUME Base, HandleReserve
  PROVE  Base'
<1> DEFINE task == Head(Top.todo)
           add == IF task.slot = <<>> THEN task.add ELSE State.used[task.slot[1]][task.slot[2]].slots
           class == PhaseClass[Top.phase]
<1>1. frames # <<>> /\ Top.f = "handle" /\ Top.at = "reserve" /\ Top.todo # <<>>
  BY DEF HandleReserve, At
<1>2. UNCHANGED <<nlpm, table, chains, mapped, dropped, user, panicked, ops, limit>> /\ UNCHANGED vecs
  BY DEF HandleReserve
<1>3. Top \in HandleSet /\ InPass(Top, chains) /\ Usable(Top.k, chains) /\ Len(chains) \in Nat
  BY <1>1, HandleTop, TopIs
<1>4. VecsOK(vecs')
  BY <1>2 DEF Base, TypeOK
<1>5. CASE Top.phase \in {3, 4} /\ table[class] = 0
  <2> DEFINE at == "boxed"
             fr == [Top EXCEPT !.at = at]
             yes == TRUE
             c == Alloc(SizeOfTable[class], Top.k, yes, yes)
  <2>1. Call(fr, c)
    BY <1>5 DEF HandleReserve
  <2>2. /\ fr \in HandleSet /\ fr.k = Top.k /\ Len(fr.to_dealloc) <= Len(Top.to_dealloc)
        /\ InPass(fr, chains) /\ fr.f = "handle" /\ fr.at = at
    <3>1. MovesTo(Top, at, fr)
      BY <1>1, <1>3, <1>5 DEF MovesTo
    <3>2. Top \in HandleSet /\ InPass(Top, chains)
      BY <1>1, <1>3, <1>5
    <3> HIDE DEF at, fr
    <3> QED BY <3>1, <3>2, MovedTo
  <2>3. class \in Classes
    BY <1>5 DEF PhaseClass, Classes
  <2>3a. SizeOfTable[class] \in Sizes /\ yes \in BOOLEAN
    <3> HIDE DEF class
    <3> QED BY <2>3, SelfAllocAssumption
  <2>4. FrameOK(c, chains) /\ c.f = "alloc" /\ ~ Receives(c) /\ Handled(c, mapped, limit)
    <3> HIDE DEF yes, class
    <3> QED BY <1>3, <2>3a, AllocIs
  <2>5. Calls(fr, c) /\ c.f # "handle"
    <3> HIDE DEF fr, c
    <3> QED BY <2>2, <2>4 DEF Calls
  <2> HIDE DEF fr, c
  <2>6. Stacked(frames', chains, ret', mapped, limit, panicked) /\ ret' \in RetSet
    BY <1>1, <2>1, <2>2, <2>4, <2>5, HandleCalls
  <2> QED BY <1>2, <1>4, <2>6, VecsStep
<1>6. CASE ~ (Top.phase \in {3, 4} /\ table[class] = 0)
  <2> DEFINE at == "reserved"
             fr == [Top EXCEPT !.at = at]
             none == <<>>
             v == task.v
             counted == task.counted
             st == Top.k
             c == Reserve(v, add, none, st, counted)
  <2>1. Call(fr, c)
    BY <1>6 DEF HandleReserve
  <2>2. /\ fr \in HandleSet /\ fr.k = Top.k /\ Len(fr.to_dealloc) <= Len(Top.to_dealloc)
        /\ InPass(fr, chains) /\ fr.f = "handle" /\ fr.at = at
    <3>1. MovesTo(Top, at, fr)
      BY <1>1, <1>3 DEF MovesTo
    <3>2. Top \in HandleSet /\ InPass(Top, chains)
      BY <1>1, <1>3
    <3> HIDE DEF at, fr
    <3> QED BY <3>1, <3>2, MovedTo
  <2>3. v \in Vectors /\ counted \in BOOLEAN /\ add \in Nat
    BY <1>1, TaskIs
  <2>3a. none \in Seq(Ptr)
    BY EmptySeq
  <2>3b. Usable(st, chains) /\ Len(chains) \in Nat
    BY <1>3
  <2>4. FrameOK(c, chains) /\ c.f = "reserve" /\ ~ Receives(c) /\ Handled(c, mapped, limit)
    <3> HIDE DEF add, none, v, counted, st
    <3> QED BY <2>3, <2>3a, <2>3b, ReserveIs
  <2>5. Calls(fr, c) /\ c.f # "handle"
    <3> HIDE DEF fr, c
    <3> QED BY <2>2, <2>4 DEF Calls
  <2> HIDE DEF fr, c
  <2>6. Stacked(frames', chains, ret', mapped, limit, panicked) /\ ret' \in RetSet
    BY <1>1, <2>1, <2>2, <2>4, <2>5, HandleCalls
  <2> QED BY <1>2, <1>4, <2>6, VecsStep
<1> QED BY <1>5, <1>6

(* handle_state has the memory for a chunk table, or panics.               *)
LEMMA HandleBoxedKeeps ==
  ASSUME Base, HandleBoxed
  PROVE  Base'
<1>1. frames # <<>> /\ Top.f = "handle" /\ Top.at = "boxed"
  BY DEF HandleBoxed, At
<1>2. CASE ret.ptr = 0
  BY <1>2, PanicIs DEF HandleBoxed
<1>3. CASE ret.ptr # 0
  <2>1. UNCHANGED <<vecs, chains, mapped, dropped, user, panicked, ops, limit>> /\ UNCHANGED nlpm
    BY <1>3 DEF HandleBoxed
  <2>2. Top \in HandleSet /\ InPass(Top, chains)
    BY <1>1, HandleTop
  <2> DEFINE at == "reserve"
             fr == [Top EXCEPT !.at = at]
  <2>3. Goto(fr) /\ table' = [table EXCEPT ![PhaseClass[Top.phase]] = ret.ptr]
    BY <1>3 DEF HandleBoxed
  <2>4. /\ fr \in HandleSet /\ fr.k = Top.k /\ Len(fr.to_dealloc) <= Len(Top.to_dealloc)
        /\ InPass(fr, chains) /\ fr.f = "handle" /\ fr.at = at
    <3>1. MovesTo(Top, at, fr)
      BY <1>1, <2>2 DEF MovesTo
    <3>2. Top \in HandleSet /\ InPass(Top, chains)
      BY <1>1, <2>2
    <3> HIDE DEF at, fr
    <3> QED BY <3>1, <3>2, MovedTo
  <2>5. fr.at \notin {"inited", "boxed"}
    BY <2>4
  <2> HIDE DEF fr
  <2>6. Stacked(frames', chains, ret', mapped, limit, panicked) /\ ret' \in RetSet
    BY <1>1, <2>3, <2>4, <2>5, HandleGoto
  <2>7. nlpm' \in Nat /\ table' \in [Classes -> Nat]
    BY <2>1, <2>3 DEF Base, TypeOK, RetSet
  <2> QED BY <2>1, <2>6, <2>7, BoxStep
<1> QED BY <1>2, <1>3

(* handle_state has the room, or panics.                                   *)
LEMMA HandleReservedKeeps ==
  ASSUME Base, HandleReserved
  PROVE  Base'
<1>1. frames # <<>> /\ Top.f = "handle" /\ Top.at = "reserved"
  BY DEF HandleReserved, At
<1>2. ret \in RetSet /\ ret.err \in BOOLEAN /\ ret.grew \in BOOLEAN
  BY DEF Base, TypeOK, RetSet
<1>3. CASE ret.err
  BY <1>3, PanicIs DEF HandleReserved
<1>4. CASE ~ ret.err
  <2>1. UNCHANGED <<nlpm, table, chains, mapped, dropped, user, panicked, ops, limit>> /\ UNCHANGED vecs
    BY <1>4 DEF HandleReserved
  <2>2. VecsOK(vecs')
    BY <2>1 DEF Base, TypeOK
  <2>3. /\ Top \in HandleSet /\ InPass(Top, chains) /\ Top.todo \in Seq(TaskSet) /\ Top.more \in BOOLEAN
        /\ Top.to_dealloc \in Seq(Ptr)
    BY <1>1, HandleTop
  <2> DEFINE todo == Tail(Top.todo)
             more == Top.more \/ ret.grew
             fr == [Top EXCEPT !.at = "reserve", !.todo = todo, !.more = more]
  <2>4. Goto(fr)
    BY <1>4, <2>3 DEF HandleReserved, HandleSet
  <2>5. Top.todo # <<>>
    BY <1>1, <2>3 DEF InPass
  <2>6. /\ todo \in Seq(TaskSet) /\ Len(todo) = Len(Top.todo) - 1
        /\ \A i \in 1 .. Len(Top.todo) - 1 : todo[i] = Top.todo[i + 1]
    BY <2>3, <2>5, TailIs
  <2>6a. more \in BOOLEAN
    BY <1>2, <2>3
  <2> HIDE DEF todo, more
  <2>7. fr \in HandleSet
    BY <2>3, <2>6, <2>6a DEF HandleSet
  <2>8. /\ fr.k = Top.k /\ fr.to_dealloc = Top.to_dealloc /\ fr.at = "reserve" /\ fr.todo = todo
        /\ fr.f = "handle" /\ fr.phase = Top.phase
    BY <1>1, <2>3 DEF HandleSet
  <2>9. Len(fr.to_dealloc) <= Len(Top.to_dealloc) /\ fr.at \notin {"inited", "boxed"}
    <3> DEFINE n == Len(Top.to_dealloc)
    <3>1. n \in Nat /\ Len(fr.to_dealloc) = n
      BY <2>3, <2>8, Indices
    <3>2. n <= n
      <4> HIDE DEF n
      <4> QED BY <3>1
    <3> QED BY <2>8, <3>1, <3>2
  <2> HIDE DEF fr
  <2>10. InPass(fr, chains)
    <3>1. chains[fr.k] # <<>> /\ Top.phase \in 1 .. 7
      BY <1>1, <2>3, <2>5, <2>8 DEF InPass
    <3>2. ASSUME NEW i \in DOMAIN fr.todo, fr.todo[i].slot # <<>>
          PROVE  fr.todo[i].slot[2] \in DOMAIN chains[fr.k][1].used[fr.todo[i].slot[1]]
      <4> DEFINE n == Len(Top.todo)
                 j == i + 1
      <4>1. n \in Nat /\ DOMAIN Top.todo = 1 .. n
        BY <2>3, Indices
      <4>2. DOMAIN fr.todo = 1 .. Len(todo) /\ Len(todo) = n - 1
        BY <2>6, <2>8, Indices
      <4>3. i \in 1 .. n - 1 /\ j \in 1 .. n
        <5> HIDE DEF n
        <5> QED BY <3>2, <4>1, <4>2
      <4>4. fr.todo[i] = Top.todo[j]
        BY <2>6, <2>8, <4>3
      <4> HIDE DEF n, j
      <4>5. j \in DOMAIN Top.todo /\ Top.todo[j].slot # <<>>
        BY <3>2, <4>1, <4>3, <4>4
      <4>6. Top.todo[j].slot[2] \in DOMAIN chains[Top.k][1].used[Top.todo[j].slot[1]]
        BY <1>1, <2>3, <4>5 DEF InPass
      <4> QED BY <2>8, <4>4, <4>6
    <3> QED BY <2>8, <3>1, <3>2 DEF InPass
  <2>11. Stacked(frames', chains, ret', mapped, limit, panicked) /\ ret' \in RetSet
    BY <1>1, <2>4, <2>7, <2>8, <2>9, <2>10, HandleGoto
  <2> QED BY <2>1, <2>2, <2>11, VecsStep
<1> QED BY <1>3, <1>4

(* FlattenSeq puts sequences one after another.                            *)
FlattenAt(f, seqs, i) == f[i] = IF i = 1 THEN seqs[i] ELSE f[i - 1] \o seqs[i]
Flattening(f, seqs) ==
  f = [i \in 1 .. Len(seqs) |-> IF i = 1 THEN seqs[i] ELSE f[i - 1] \o seqs[i]]

(* There is such a function.                                               *)
LEMMA FlatteningExists ==
  ASSUME NEW S, NEW seqs, seqs \in Seq(Seq(S)), seqs # <<>>
  PROVE  \E f : Flattening(f, seqs)
<1> DEFINE n == Len(seqs)
           Upto(g, m) == /\ DOMAIN g = 1 .. n /\ g = [i \in 1 .. n |-> g[i]]
                         /\ \A i \in 1 .. m : FlattenAt(g, seqs, i)
           T == {m \in 0 .. n : \E g : Upto(g, m)}
<1>0. n \in Nat \ {0}
  BY Indices
<1> HIDE DEF n
<1>1. 0 \in T
  <2> DEFINE g == [i \in 1 .. n |-> <<>>]
  <2>1. DOMAIN g = 1 .. n /\ g = [i \in 1 .. n |-> g[i]] /\ \A i \in 1 .. 0 : FlattenAt(g, seqs, i)
    BY <1>0
  <2>2. Upto(g, 0)
    BY <2>1
  <2> HIDE DEF g
  <2>3. 0 \in 0 .. n
    BY <1>0
  <2> QED BY <2>2, <2>3
<1>2. ASSUME NEW m \in 0 .. n, m + 1 <= n, m \in T PROVE m + 1 \in T
  <2>1. PICK g : Upto(g, m)
    BY <1>2
  <2> DEFINE e == IF m + 1 = 1 THEN seqs[m + 1] ELSE g[m] \o seqs[m + 1]
             h == [i \in 1 .. n |-> IF i = m + 1 THEN e ELSE g[i]]
  <2>2. m \in Nat /\ m + 1 \in 1 .. n /\ m + 1 - 1 = m /\ m # m + 1 /\ (m + 1 # 1 => m \in 1 .. n)
    BY <1>0, <1>2
  <2>3. h[m + 1] = e /\ \A i \in 1 .. n : i # m + 1 => h[i] = g[i]
    BY <2>2
  <2>4. DOMAIN h = 1 .. n /\ h = [i \in 1 .. n |-> h[i]]
    OBVIOUS
  <2> HIDE DEF h
  <2>5. ASSUME NEW i \in 1 .. m + 1 PROVE FlattenAt(h, seqs, i)
    <3>1. CASE i = m + 1
      <4>1. m + 1 # 1 => h[i - 1] = g[m]
        BY <3>1, <2>2, <2>3
      <4> QED BY <3>1, <4>1, <2>2, <2>3 DEF FlattenAt
    <3>2. CASE i # m + 1
      <4>1. i \in 1 .. m /\ i \in 1 .. n /\ (i # 1 => i - 1 \in 1 .. n /\ i - 1 # m + 1)
        <5>1. i \in 1 .. m + 1 /\ m \in Nat /\ n \in Nat /\ m + 1 <= n
          BY <2>2, <1>0, <1>2, <2>5
        <5> QED BY <5>1, <3>2
      <4>2. h[i] = g[i] /\ (i # 1 => h[i - 1] = g[i - 1]) /\ FlattenAt(g, seqs, i)
        BY <4>1, <2>1, <2>3, <3>2
      <4> QED BY <4>2 DEF FlattenAt
    <3> QED BY <3>1, <3>2
  <2>6. Upto(h, m + 1)
    BY <2>4, <2>5
  <2>7. m + 1 \in 0 .. n
    BY <2>2
  <2> QED BY <2>6, <2>7
<1>3. n \in T
  <2> HIDE DEF T
  <2>1. \A m \in 0 .. n : m \in T
    BY <1>0, <1>1, <1>2, UpTo
  <2> QED BY <2>1, <1>0
<1>4. PICK g : Upto(g, n)
  BY <1>3
<1>5. g = [i \in 1 .. n |-> IF i = 1 THEN seqs[i] ELSE g[i - 1] \o seqs[i]]
  BY <1>4 DEF FlattenAt
<1> QED BY <1>5 DEF Flattening, n

(* The result is a sequence of the elements.                               *)
LEMMA FlattenIs ==
  ASSUME NEW S, NEW seqs, seqs \in Seq(Seq(S))
  PROVE  FlattenSeq(seqs) \in Seq(S)
<1> DEFINE f == CHOOSE h : Flattening(h, seqs)
           n == Len(seqs)
<1>0. n \in Nat /\ \A i \in 1 .. n : seqs[i] \in Seq(S)
  BY Indices
<1>1. CASE n = 0
  <2>1. seqs = <<>>
    BY <1>1, Indices
  <2>2. FlattenSeq(seqs) = seqs
    BY <1>1 DEF FlattenSeq
  <2> QED BY <2>1, <2>2, EmptySeq
<1>2. CASE n # 0
  <2>1. Flattening(f, seqs)
    BY <1>2, FlatteningExists, Indices
  <2>2. FlattenSeq(seqs) = f[n]
    BY <1>2 DEF FlattenSeq, Flattening
  <2> HIDE DEF f, n
  <2>3. ASSUME NEW i \in 1 .. n PROVE FlattenAt(f, seqs, i)
    BY <2>1, <2>3 DEF Flattening, FlattenAt, n
  <2> DEFINE T == {m \in 0 .. n : m # 0 => f[m] \in Seq(S)}
  <2>4. 0 \in T
    BY <1>0
  <2>5. ASSUME NEW m \in 0 .. n, m + 1 <= n, m \in T PROVE m + 1 \in T
    <3>1. m \in Nat /\ m + 1 \in 0 .. n /\ m + 1 - 1 = m /\ m + 1 \in 1 .. n /\ (m + 1 # 1 => m # 0)
      BY <1>0, <2>5
    <3>2. seqs[m + 1] \in Seq(S)
      BY <1>0, <3>1
    <3>3. f[m + 1] = IF m + 1 = 1 THEN seqs[m + 1] ELSE f[m] \o seqs[m + 1]
      BY <2>3, <3>1 DEF FlattenAt
    <3>4. m + 1 # 1 => f[m] \in Seq(S)
      BY <2>5, <3>1
    <3>5. f[m + 1] \in Seq(S)
      BY <3>2, <3>3, <3>4, ConcatIs
    <3> QED BY <3>1, <3>5
  <2>6. n \in T
    <3> HIDE DEF T
    <3>1. \A m \in 0 .. n : m \in T
      BY <1>0, <2>4, <2>5, UpTo
    <3> QED BY <3>1, <1>0
  <2> QED BY <1>2, <2>2, <2>6
<1> QED BY <1>1, <1>2

(* What a State gives to the vectors are pointers.                         *)
LEMMA GivenIs ==
  ASSUME NEW state, state \in StateSet, NEW v, v \in Vectors
  PROVE  Given(state, v) \in Seq(Ptr)
<1> DEFINE used == state.used["common"] \o state.used["large"]
           n == Len(used)
           each(give) == [i \in 1 .. n |->
                            IF RecommendedSize(used[i].size) = v[2] THEN give[i] ELSE <<>>]
           objects == [i \in 1 .. n |-> Stride(used[i].ptr, used[i].size, used[i].slots)]
           chunks == [i \in 1 .. n |-> <<used[i].ptr>>]
<1>1. /\ state.region \in Ptr /\ \A c \in Classes : state.free[c] \in Seq(Ptr)
      /\ state.used["common"] \in Seq(UsedSet) /\ state.used["large"] \in Seq(UsedSet)
  BY DEF StateSet, Classes
<1>2. used \in Seq(UsedSet)
  BY <1>1, ConcatIs
<1>3. n \in Nat /\ DOMAIN used = 1 .. n /\ \A i \in 1 .. n : used[i] \in UsedSet
  BY <1>2, Indices
<1>4. /\ v[1] = "objects" => Given(state, v) = FlattenSeq(each(objects))
      /\ v[1] = "chunks" => Given(state, v) = FlattenSeq(each(chunks))
  <2> DEFINE all(give) == [i \in DOMAIN used |->
                             IF RecommendedSize(used[i].size) = v[2] THEN give[i] ELSE <<>>]
             os == [i \in DOMAIN used |-> Stride(used[i].ptr, used[i].size, used[i].slots)]
             cs == [i \in DOMAIN used |-> <<used[i].ptr>>]
  <2>1. v[1] \in {"objects", "chunks"} => v # Regions
    BY SMTT(40) DEF Regions
  <2>2. v[1] = "objects" => Given(state, v) = FlattenSeq(all(os))
    BY <2>1, ZenonT(80) DEF Given
  <2>3. v[1] = "chunks" => Given(state, v) = FlattenSeq(all(cs))
    BY <2>1 DEF Given
  <2>4. all(os) = each(objects) /\ all(cs) = each(chunks)
    <3> HIDE DEF used, n
    <3> QED BY <1>3
  <2> QED BY <2>2, <2>3, <2>4
<1> HIDE DEF n, used
<1>5. ASSUME NEW give, \A i \in 1 .. n : give[i] \in Seq(Ptr) PROVE FlattenSeq(each(give)) \in Seq(Ptr)
  <2>1. <<>> \in Seq(Ptr)
    BY EmptySeq
  <2>2. each(give) \in [1 .. n -> Seq(Ptr)]
    BY <1>5, <2>1
  <2> HIDE DEF each
  <2>3. each(give) \in Seq(Seq(Ptr))
    BY <1>3, <2>2, MapIs
  <2> QED BY <2>3, FlattenIs
<1>6. CASE v[1] = "objects"
  <2>1. ASSUME NEW i \in 1 .. n PROVE objects[i] \in Seq(Ptr)
    <3>1. used[i].ptr \in Ptr /\ used[i].size \in Nat /\ used[i].slots \in Nat
      BY <1>3, Constants DEF UsedSet, OwnSizes
    <3>2. Stride(used[i].ptr, used[i].size, used[i].slots) \in Seq(Ptr)
      BY <3>1, StrideIs
    <3> QED BY <3>2
  <2> HIDE DEF each, objects
  <2> QED BY <1>4, <1>5, <1>6, <2>1
<1>7. CASE v[1] = "chunks"
  <2>1. ASSUME NEW i \in 1 .. n PROVE chunks[i] \in Seq(Ptr)
    <3>1. used[i].ptr \in Ptr
      BY <1>3 DEF UsedSet
    <3>2. <<used[i].ptr>> \in Seq(Ptr)
      BY <3>1
    <3> QED BY <3>2
  <2> HIDE DEF each, chunks
  <2> QED BY <1>4, <1>5, <1>7, <2>1
<1>8. CASE v[1] # "objects" /\ v[1] # "chunks"
  <2>1. v = Regions \/ \E c \in Classes : v = FreeChunks(c)
    BY <1>8 DEF Vectors, Objects, Chunks
  <2>2. CASE v = Regions
    <3>1. Given(state, v) = <<state.region>>
      BY <1>8, <2>2 DEF Given
    <3> QED BY <1>1, <3>1
  <2>3. ASSUME NEW c \in Classes, v = FreeChunks(c) PROVE Given(state, v) \in Seq(Ptr)
    <3>1. v # Regions /\ v[1] = c
      BY <2>3 DEF Regions, FreeChunks, Classes
    <3>2. Given(state, v) = state.free[v[1]]
      BY <1>8, <3>1 DEF Given
    <3> QED BY <1>1, <3>1, <3>2
  <2> QED BY <2>1, <2>2, <2>3
<1> QED BY <1>6, <1>7, <1>8

(* The State on top of a chain is taken off it.                            *)
RestOf(chs, k, rest, dhs) == rest = Tail(chs[k]) /\ dhs = [chs EXCEPT ![k] = rest]

(* What is left are the other States of the chain, and the other chains.   *)
LEMMA RestIs ==
  ASSUME NEW chs, ChainsOK(chs), NEW k, k \in 1 .. Len(chs), chs[k] # <<>>,
         NEW rest, NEW dhs, RestOf(chs, k, rest, dhs)
  PROVE  /\ ChainsOK(dhs) /\ Len(dhs) = Len(chs) /\ dhs[k] = rest
         /\ \A j \in 1 .. Len(chs) : j # k => dhs[j] = chs[j]
         /\ rest \in Seq(StateSet) /\ Len(rest) = Len(chs[k]) - 1
         /\ rest # <<>> => Head(rest).at \in Ptr
<1> DEFINE n == Len(chs[k])
<1>1. chs \in Seq(Seq(StateSet)) /\ \A j \in 1 .. Len(chs) : \A i \in 2 .. Len(chs[j]) : chs[j][i].at # 0
  BY DEF ChainsOK
<1>2. chs[k] \in Seq(StateSet)
  BY <1>1, Indices
<1>3. n \in Nat /\ n # 0
  BY <1>2, Indices
<1>4. rest \in Seq(StateSet) /\ Len(rest) = n - 1 /\ \A i \in 1 .. n - 1 : rest[i] = chs[k][i + 1]
  BY <1>2, TailIs DEF RestOf
<1> HIDE DEF n
<1>5. /\ dhs \in Seq(Seq(StateSet)) /\ Len(dhs) = Len(chs) /\ dhs[k] = rest
      /\ \A j \in 1 .. Len(chs) : j # k => dhs[j] = chs[j]
  BY <1>1, <1>4, PutIs DEF RestOf
<1>6. ASSUME NEW i \in 1 .. n - 1 PROVE rest[i].at # 0
  <2>1. i + 1 \in 2 .. n
    BY <1>3
  <2>2. chs[k][i + 1].at # 0
    BY <1>1, <2>1 DEF n
  <2> QED BY <1>4, <2>2
<1>7. ASSUME NEW j \in 1 .. Len(dhs), NEW i \in 2 .. Len(dhs[j]) PROVE dhs[j][i].at # 0
  <2>1. CASE j = k
    <3>1. i \in 1 .. n - 1
      BY <1>3, <1>4, <1>5, <1>7, <2>1
    <3> QED BY <1>5, <1>6, <2>1, <3>1
  <2>2. CASE j # k
    <3>1. j \in 1 .. Len(chs) /\ dhs[j] = chs[j]
      BY <1>5, <2>2
    <3> QED BY <1>1, <3>1
  <2> QED BY <2>1, <2>2
<1>8. ChainsOK(dhs)
  BY <1>5, <1>7 DEF ChainsOK
<1>9. ASSUME rest # <<>> PROVE Head(rest).at \in Ptr
  <2>1. Head(rest) = rest[1] /\ Head(rest) \in StateSet
    BY <1>4, <1>9, TailIs
  <2>2. Len(rest) # 0
    BY <1>4, <1>9, Indices
  <2>2a. n - 1 # 0
    BY <1>4, <2>2
  <2>3. 1 \in 1 .. n - 1
    BY <1>3, <2>2a
  <2>4. rest[1].at # 0
    BY <1>6, <2>3
  <2>5. Head(rest).at \in Nat
    BY <2>1 DEF StateSet
  <2> QED BY <2>1, <2>4, <2>5 DEF Ptr
<1> QED BY <1>4, <1>5, <1>8, <1>9 DEF n

(* What a commit writes into the vectors.                                  *)
LEMMA CommitVecs ==
  ASSUME NEW vs, VecsOK(vs), NEW state, state \in StateSet,
         NEW ws, ws = [v \in Vectors |-> [vs[v] EXCEPT !.items = @ \o Given(state, v)]]
  PROVE  VecsOK(ws)
<1>1. ASSUME NEW v \in Vectors
      PROVE  ws[v] \in VecSet /\ ws[v].cap = vs[v].cap /\ ws[v].ptr = vs[v].ptr
  <2>1. vs[v] \in VecSet
    BY DEF VecsOK
  <2>2. vs[v].items \in Seq(Ptr)
    BY <2>1 DEF VecSet
  <2>3. Given(state, v) \in Seq(Ptr)
    BY GivenIs
  <2> DEFINE items == vs[v].items \o Given(state, v)
  <2>4. items \in Seq(Ptr)
    BY <2>2, <2>3, ConcatIs
  <2>5. ws[v] = [vs[v] EXCEPT !.items = items]
    OBVIOUS
  <2> HIDE DEF items
  <2> QED BY <2>1, <2>4, <2>5 DEF VecSet
<1>2. DOMAIN ws = Vectors /\ ws = [v \in Vectors |-> ws[v]]
  OBVIOUS
<1> QED BY <1>1, <1>2, ItemsOK

(* handle_state with the rest of its chain.                                *)
LEMMA CommitMoved ==
  ASSUME NEW fr, fr \in HandleSet, NEW chs, ChainsOK(chs), fr.k \in 1 .. Len(chs), fr.todo = <<>>,
         fr.at \in {"reserve", "dealloc"}, fr.at = "reserve" => chs[fr.k] # <<>>
  PROVE  FrameOK(fr, chs) /\ ~ Receives(fr)
<1>1. fr.f = "handle"
  BY DEF HandleSet
<1>2. chs \in Seq(Seq(StateSet))
  BY DEF ChainsOK
<1>3. Len(chs) \in Nat
  BY <1>2, Indices
<1>4. HasChunk(fr) /\ HasCap(fr) /\ ChainOf(fr) = fr.k
  BY <1>1 DEF HasChunk, HasCap, ChainOf
<1>5. InPass(fr, chs)
  BY <1>1 DEF InPass
<1>6. fr.k # 0 /\ fr.k \in 0 .. Len(chs)
  BY <1>3
<1>7. FrameOK(fr, chs)
  BY <1>1, <1>4, <1>5, <1>6 DEF FrameOK, FrameSet
<1>8. ~ Receives(fr)
  BY <1>1 DEF Receives
<1> QED BY <1>7, <1>8

(* handle_state: a State is given to the vectors.                          *)
LEMMA HandleCommitKeeps ==
  ASSUME Base, HandleCommit
  PROVE  Base'
<1> DEFINE k == Top.k
           rest == Tail(chains[k])
           full == rest # <<>> /\ Len(Top.to_dealloc) = MAX_STATES
<1>1. frames # <<>> /\ Top.f = "handle" /\ Top.at = "commit"
  BY DEF HandleCommit, At
<1>2. CASE full
  BY <1>2, PanicIs DEF HandleCommit
<1>3. CASE ~ full
  <2>1. UNCHANGED <<nlpm, table, mapped, dropped, user, panicked, ops, limit>>
    BY <1>3 DEF HandleCommit
  <2>2. /\ vecs' = [v \in Vectors |-> [vecs[v] EXCEPT !.items = @ \o Given(State, v)]]
        /\ chains' = [chains EXCEPT ![k] = Tail(chains[k])]
    BY <1>3 DEF HandleCommit
  <2>3. /\ Top \in HandleSet /\ InPass(Top, chains) /\ k \in 1 .. Len(chains) /\ chains[k] # <<>>
        /\ State \in StateSet /\ Top.to_dealloc \in Seq(Ptr) /\ chains[k] \in Seq(StateSet)
        /\ Len(Top.to_dealloc) + Len(chains[k]) <= mapped
    BY <1>1, HandleTop
  <2>4. Top = Last(frames) /\ ChainsOK(chains)
    BY <1>1, TopIs
  <2>5. Top.todo = <<>>
    BY <1>1, <2>3 DEF InPass
  <2>6. /\ ChainsOK(chains') /\ Len(chains') = Len(chains) /\ chains'[k] = rest
        /\ \A j \in 1 .. Len(chains) : j # k => chains'[j] = chains[j]
        /\ rest \in Seq(StateSet) /\ Len(rest) = Len(chains[k]) - 1
        /\ rest # <<>> => Head(rest).at \in Ptr
    <3>1. k \in 1 .. Len(chains) /\ chains[k] # <<>>
      BY <2>3
    <3> DEFINE dhs == chains'
    <3>2. RestOf(chains, k, rest, dhs)
      BY <2>2 DEF RestOf
    <3>2a. ChainsOK(chains)
      BY <2>4
    <3> HIDE DEF k, rest, dhs
    <3>3. /\ ChainsOK(dhs) /\ Len(dhs) = Len(chains) /\ dhs[k] = rest
          /\ \A j \in 1 .. Len(chains) : j # k => dhs[j] = chains[j]
          /\ rest \in Seq(StateSet) /\ Len(rest) = Len(chains[k]) - 1
          /\ rest # <<>> => Head(rest).at \in Ptr
      BY <3>1, <3>2, <3>2a, RestIs
    <3> QED BY <3>3 DEF dhs
  <2>7. VecsOK(vecs')
    <3>1. VecsOK(vecs)
      BY DEF Base, TypeOK
    <3> QED BY <2>2, <2>3, <3>1, CommitVecs
  <2>8. Stacked(frames, chains, ret, mapped, limit, panicked)
    BY BaseIs
  <2> DEFINE a == Len(Top.to_dealloc)
             b == Len(chains[k])
             r == Len(rest)
  <2>9. a \in Nat /\ b \in Nat /\ r = b - 1 /\ a + b <= mapped /\ mapped \in Nat
    BY <2>3, <2>6, Indices DEF Base, TypeOK
  <2>10. ASSUME NEW fr, fr \in HandleSet, fr.f = "handle", fr.k = k, fr.todo = <<>>, fr.at \in {"reserve", "dealloc"},
                fr.at = "reserve" => rest # <<>>, Len(fr.to_dealloc) + r <= mapped, Goto(fr)
         PROVE  Stacked(frames', chains', ret', mapped', limit, panicked') /\ ret' \in RetSet
    <3>1. FrameOK(fr, chains') /\ ~ Receives(fr)
      <4>1. fr.k \in 1 .. Len(chains')
        BY <2>3, <2>6, <2>10
      <4>2. fr.at = "reserve" => chains'[fr.k] # <<>>
        BY <2>6, <2>10
      <4> QED BY <2>6, <2>10, <4>1, <4>2, CommitMoved
    <3>2. Same(Last(frames), fr)
      <4>1. Last(frames).f = "handle" /\ Last(frames).k = fr.k
        BY <1>1, <2>4, <2>10
      <4> QED BY <2>10, <4>1 DEF Same, ChainOf
    <3>3. Room(fr, chains', mapped)
      <4>1. chains'[fr.k] = rest
        BY <2>6, <2>10
      <4> QED BY <2>10, <4>1 DEF Room
    <3>4. Last(frames).f = "handle" /\ \A j \in 1 .. Len(chains) : j # Last(frames).k => chains'[j] = chains[j]
      BY <1>1, <2>4, <2>6
    <3>5. Stacked(Append(Front(frames), fr), chains', Nothing, mapped, limit, panicked)
      BY <1>1, <2>4, <2>6, <2>8, <3>1, <3>2, <3>3, <3>4, CommitStep
    <3> QED BY <2>1, <2>10, <3>5, NothingIs DEF Goto
  <2>11. Stacked(frames', chains', ret', mapped', limit, panicked') /\ ret' \in RetSet
    <3>1. CASE rest = <<>>
      <4> DEFINE fr == [Top EXCEPT !.at = "dealloc"]
      <4>1. Goto(fr)
        BY <1>3, <3>1 DEF HandleCommit
      <4>2. fr \in HandleSet
        BY <2>3 DEF HandleSet
      <4>3. fr.f = "handle" /\ fr.k = k /\ fr.todo = <<>> /\ fr.at = "dealloc" /\ fr.to_dealloc = Top.to_dealloc
        BY <1>1, <2>3, <2>5 DEF HandleSet
      <4>4. Len(fr.to_dealloc) + r <= mapped
        <5>1. a + r <= mapped
          <6> HIDE DEF a, b, r
          <6> QED BY <2>9
        <5> QED BY <4>3, <5>1
      <4> HIDE DEF fr
      <4> QED BY <2>10, <4>1, <4>2, <4>3, <4>4
    <3>2. CASE rest # <<>>
      <4> DEFINE td == Append(Top.to_dealloc, Head(rest).at)
                 fr == [Top EXCEPT !.at = "reserve", !.phase = 0, !.to_dealloc = td]
      <4>1. Goto(fr)
        BY <1>3, <2>3, <3>2 DEF HandleCommit, HandleSet
      <4>2. td \in Seq(Ptr) /\ Len(td) = a + 1
        BY <2>3, <2>6, <3>2, AppendIs
      <4>3. fr \in HandleSet
        <5> HIDE DEF td
        <5>1. 0 \in 0 .. 7
          OBVIOUS
        <5> QED BY <2>3, <4>2, <5>1 DEF HandleSet
      <4>4. fr.f = "handle" /\ fr.k = k /\ fr.todo = <<>> /\ fr.at = "reserve" /\ fr.to_dealloc = td
        BY <1>1, <2>3, <2>5 DEF HandleSet
      <4>5. Len(fr.to_dealloc) + r <= mapped
        <5>1. a + 1 + r <= mapped
          <6> HIDE DEF a, b, r
          <6> QED BY <2>9
        <5> QED BY <4>2, <4>4, <5>1
      <4> HIDE DEF fr
      <4> QED BY <2>10, <3>2, <4>1, <4>3, <4>4, <4>5
    <3> QED BY <3>1, <3>2
  <2>12. /\ nlpm' \in Nat /\ table' \in [Classes -> Nat] /\ mapped' \in Nat /\ dropped' \subseteq DroppedSet
         /\ user' \subseteq UserSet /\ panicked' \in BOOLEAN /\ ops' \in Nat /\ limit' = limit
    BY <2>1 DEF Base, TypeOK
  <2> QED BY <2>6, <2>7, <2>11, <2>12, StepIs
<1> QED BY <1>2, <1>3

(* handle_state gives the memory of the States back.                       *)
LEMMA HandleDeallocKeeps ==
  ASSUME Base, HandleDealloc
  PROVE  Base'
<1>1. frames # <<>> /\ Top.f = "handle" /\ Top.at = "dealloc"
  BY DEF HandleDealloc, At
<1>2. UNCHANGED <<nlpm, table, mapped, dropped, user, panicked, ops, limit>> /\ UNCHANGED vecs
  BY DEF HandleDealloc
<1>3. VecsOK(vecs')
  BY <1>2 DEF Base, TypeOK
<1>4. /\ Top \in HandleSet /\ InPass(Top, chains) /\ Top.to_dealloc \in Seq(Ptr) /\ Top = Last(frames)
      /\ ChainsOK(chains) /\ Len(chains) \in Nat
  BY <1>1, HandleTop, TopIs
<1>5. CASE Top.to_dealloc # <<>>
  <2> DEFINE td == Tail(Top.to_dealloc)
             fr == [Top EXCEPT !.to_dealloc = td]
             zero == 0
             ptr == Head(Top.to_dealloc)
             c == Dealloc(ptr, SIZE_OF_STATE, zero)
  <2>1. Call(fr, c) /\ UNCHANGED chains
    BY <1>4, <1>5 DEF HandleDealloc, HandleSet
  <2>2. ptr \in Ptr /\ td \in Seq(Ptr) /\ Len(td) = Len(Top.to_dealloc) - 1
    BY <1>4, <1>5, TailIs
  <2>3. Len(td) <= Len(Top.to_dealloc)
    <3> DEFINE n == Len(Top.to_dealloc)
    <3>1. n \in Nat /\ Len(td) = n - 1
      BY <1>4, <2>2, Indices
    <3> HIDE DEF n
    <3>2. n - 1 <= n
      BY <3>1
    <3> QED BY <3>1, <3>2 DEF n
  <2> HIDE DEF td
  <2>4. fr \in HandleSet
    BY <1>4, <2>2 DEF HandleSet
  <2>5. /\ fr.k = Top.k /\ fr.to_dealloc = td /\ fr.at = "dealloc" /\ fr.todo = Top.todo
        /\ fr.f = "handle" /\ fr.phase = Top.phase
    BY <1>1, <1>4 DEF HandleSet
  <2> HIDE DEF fr
  <2>6. Len(fr.to_dealloc) <= Len(Top.to_dealloc)
    BY <2>3, <2>5
  <2>7. InPass(fr, chains)
    BY <1>1, <1>4, <2>5 DEF InPass
  <2>8. Usable(zero, chains)
    BY <1>4 DEF Usable
  <2>9. FrameOK(c, chains) /\ c.f = "reserve" /\ ~ Receives(c) /\ Handled(c, mapped, limit)
    <3> HIDE DEF ptr, zero
    <3> QED BY <1>4, <2>2, <2>8, DeallocState
  <2> HIDE DEF c
  <2>10. Calls(fr, c) /\ c.f # "handle"
    BY <2>5, <2>9 DEF Calls
  <2>11. Stacked(frames', chains, ret', mapped, limit, panicked) /\ ret' \in RetSet
    BY <1>1, <2>1, <2>4, <2>5, <2>6, <2>7, <2>9, <2>10, HandleCalls
  <2> QED BY <1>2, <1>3, <2>1, <2>11, VecsStep
<1>6. CASE Top.to_dealloc = <<>>
  <2>1. chains' = Front(chains) /\ frames' = Front(frames) /\ ret' = Nothing
    BY <1>6 DEF HandleDealloc, Return
  <2>2. Stacked(frames, chains, ret, mapped, limit, panicked)
    BY BaseIs
  <2>3. chains # <<>> /\ Stacked(Front(frames), Front(chains), Nothing, mapped, limit, panicked)
    BY <1>1, <1>4, <2>2, ReturnHandleStep
  <2>4. ChainsOK(Front(chains))
    <3> DEFINE n == Len(chains)
               dhs == Front(chains)
    <3>1. chains \in Seq(Seq(StateSet)) /\ \A j \in 1 .. n : \A i \in 2 .. Len(chains[j]) : chains[j][i].at # 0
      BY <1>4 DEF ChainsOK
    <3>2. /\ n \in Nat \ {0} /\ dhs \in Seq(Seq(StateSet)) /\ Len(dhs) = n - 1
          /\ \A i \in 1 .. n - 1 : dhs[i] = chains[i]
      BY <2>3, <3>1, Ends
    <3> HIDE DEF n, dhs
    <3>3. ASSUME NEW j \in 1 .. Len(dhs), NEW i \in 2 .. Len(dhs[j]) PROVE dhs[j][i].at # 0
      <4>1. j \in 1 .. n - 1 /\ j \in 1 .. n
        BY <3>2, <3>3
      <4> QED BY <3>1, <3>2, <3>3, <4>1
    <3>4. ChainsOK(dhs)
      BY <3>2, <3>3 DEF ChainsOK
    <3> QED BY <3>4 DEF dhs
  <2>5. /\ nlpm' \in Nat /\ table' \in [Classes -> Nat] /\ mapped' \in Nat /\ dropped' \subseteq DroppedSet
        /\ user' \subseteq UserSet /\ panicked' \in BOOLEAN /\ ops' \in Nat /\ limit' = limit
        /\ mapped' = mapped /\ panicked' = panicked
    BY <1>2 DEF Base, TypeOK
  <2>6. /\ Stacked(frames', chains', ret', mapped', limit, panicked') /\ ret' \in RetSet
        /\ ChainsOK(chains')
    BY <2>1, <2>3, <2>4, <2>5, NothingIs
  <2> QED BY <1>3, <2>5, <2>6, StepIs
<1> QED BY <1>5, <1>6

(* Between the calls of the program there is no State.                     *)
LEMMA NoChains ==
  ASSUME Base, frames = <<>>
  PROVE  chains = <<>>
<1>1. chains \in Seq(Seq(StateSet)) /\ Nested(frames, Len(chains))
  BY DEF Base, TypeOK, ChainsOK, StackOK
<1>2. Len(chains) \in Nat /\ (chains # <<>> => Len(chains) # 0)
  BY <1>1, Indices
<1>3. Len(frames) = 0
  OBVIOUS
<1> DEFINE n == Len(chains)
<1>4. \A k \in 1 .. n : \E i \in 1 .. 0 : frames[i].f = "handle" /\ frames[i].k = k
  BY <1>1, <1>3 DEF Nested
<1>5. \A k \in 1 .. n : FALSE
  BY <1>4
<1>6. n = 0
  <2> HIDE DEF n
  <2>1. n \in Nat
    BY <1>2 DEF n
  <2> QED BY <1>5, <2>1
<1> QED BY <1>2, <1>6

(* No call is being made.                                                  *)
LEMMA NoFrames ==
  ASSUME NEW m, NEW lim, NEW pn
  PROVE  Stacked(<<>>, <<>>, Nothing, m, lim, pn) /\ ChainsOK(<<>>)
<1> DEFINE fs == <<>>
           chs == <<>>
<1>1. fs \in Seq(FrameSet) /\ Len(fs) = 0 /\ Len(chs) = 0 /\ chs \in Seq(Seq(StateSet)) /\ fs = <<>>
  BY EmptySeq
<1> HIDE DEF fs, chs
<1>2. 1 .. Len(fs) = {} /\ 1 .. Len(fs) - 1 = {} /\ 1 .. Len(chs) = {}
  BY <1>1
<1>3. Nested(fs, Len(chs))
  BY <1>1, <1>2 DEF Nested
<1>4. StackOK(fs, chs)
  BY <1>1, <1>2, <1>3 DEF StackOK
<1>5. Stacked(fs, chs, Nothing, m, lim, pn)
  BY <1>1, <1>2, <1>4, NothingIs, StackedIs
<1>6. ChainsOK(chs)
  BY <1>1, <1>2 DEF ChainsOK
<1> QED BY <1>5, <1>6 DEF fs, chs

(* The first call.                                                         *)
LEMMA OneFrame ==
  ASSUME NEW chs, NEW m, NEW lim, NEW pn, NEW c, FrameOK(c, chs), c.f # "alloc",
         c.f = "program" \/ ~ Receives(c), Handled(c, m, lim), Room(c, chs, m),
         \A k \in 1 .. Len(chs) : c.f = "handle" /\ c.k = k
  PROVE  Stacked(<<c>>, chs, Nothing, m, lim, pn)
<1> DEFINE fs == <<c>>
<1>1. c \in FrameSet
  BY DEF FrameOK
<1>2. fs \in Seq(FrameSet) /\ Len(fs) = 1 /\ fs[1] = c /\ fs # <<>> /\ Last(fs) = c
  BY <1>1 DEF Last
<1> HIDE DEF fs
<1>3. 1 .. Len(fs) = {1} /\ 1 .. Len(fs) - 1 = {} /\ 1 .. 1 - 1 = {}
  BY <1>2
<1>4. Nested(fs, Len(chs))
  <2>1. fs # <<>> => fs[1].f # "alloc"
    BY <1>2
  <2>2. \A i \in 1 .. Len(fs) - 1 : Calls(fs[i], fs[i + 1])
    BY <1>3
  <2>3. \A i \in 1 .. Len(fs) : fs[i].f = "handle" => \A j \in 1 .. i - 1 : ChainOf(fs[j]) < fs[i].k
    BY <1>3
  <2>4. \A k \in 1 .. Len(chs) : \E i \in 1 .. Len(fs) : fs[i].f = "handle" /\ fs[i].k = k
    BY <1>2, <1>3
  <2> QED BY <2>1, <2>2, <2>3, <2>4 DEF Nested
<1>5. StackOK(fs, chs)
  BY <1>2, <1>3, <1>4 DEF StackOK
<1>6. \A i \in 1 .. Len(fs) : Handled(fs[i], m, lim) /\ Room(fs[i], chs, m)
  BY <1>2, <1>3
<1>7. Stacked(fs, chs, Nothing, m, lim, pn)
  BY <1>2, <1>5, <1>6, NothingIs, StackedIs
<1> QED BY <1>7 DEF fs

(* The program calls try_alloc ...                                         *)
LEMMA TryAllocKeeps ==
  ASSUME Base, TryAlloc
  PROVE  Base'
<1>1. UNCHANGED <<vecs, nlpm, table, chains, mapped, dropped, user, panicked, limit>>
  BY DEF TryAlloc
<1>2. PICK size \in UserSizes :
        Begin(<<[f |-> "program", at |-> "alloc", size |-> size], Alloc(size, 0, TRUE, FALSE)>>)
  BY DEF TryAlloc
<1> DEFINE p == [f |-> "program", at |-> "alloc", size |-> size]
           st == 0
           yes == TRUE
           no == FALSE
           c == Alloc(size, st, yes, no)
           one == <<p>>
<1>3. frames = <<>> /\ frames' = <<p, c>> /\ ret' = Nothing /\ ops' = ops + 1
  BY <1>2 DEF Begin, Idle
<1>4. chains = <<>> /\ Len(chains) = 0
  BY <1>3, NoChains
<1>5. Usable(st, chains) /\ yes \in BOOLEAN /\ no \in BOOLEAN /\ size \in Sizes /\ Len(chains) \in Nat
  BY <1>4, Constants DEF Usable
<1>6. FrameOK(c, chains) /\ c.f = "alloc" /\ ~ Receives(c) /\ Handled(c, mapped, limit)
  <2> HIDE DEF st, yes, no
  <2> QED BY <1>5, AllocIs
<1>7. p \in ProgramSet /\ p.f = "program"
  BY DEF ProgramSet
<1> HIDE DEF p, c
<1>8. FrameOK(p, chains) /\ Handled(p, mapped, limit) /\ Room(p, chains, mapped) /\ Same(p, p)
  <2>1. HasChunk(p) /\ HasCap(p) /\ InPass(p, chains) /\ ChainOf(p) = 0
    BY <1>7 DEF HasChunk, HasCap, InPass, ChainOf
  <2>2. 0 \in 0 .. Len(chains)
    BY <1>4
  <2>3. FrameOK(p, chains)
    BY <1>7, <2>1, <2>2 DEF FrameOK, FrameSet
  <2> QED BY <1>7, <2>3 DEF Handled, Room, Same
<1>9. \A k \in 1 .. Len(chains) : p.f = "handle" /\ p.k = k
  BY <1>4
<1>10. Stacked(one, chains, Nothing, mapped, limit, panicked)
  BY <1>7, <1>8, <1>9, OneFrame
<1>11. one # <<>> /\ Last(one) = p /\ Front(one) \o <<p, c>> = <<p, c>>
  <2>1. p \in FrameSet /\ c \in FrameSet
    BY <1>6, <1>8 DEF FrameOK
  <2>2. one \in Seq(FrameSet) /\ one # <<>> /\ Len(one) = 1 /\ one[1] = p
    BY <2>1
  <2>3. Front(one) \in Seq(FrameSet) /\ Len(Front(one)) = 0
    <3>1. Front(one) \in Seq(FrameSet) /\ Len(Front(one)) = Len(one) - 1
      BY <2>2, Ends
    <3> QED BY <2>2, <3>1
  <2>4. Front(one) = <<>>
    BY <2>3, Indices
  <2>5. <<p, c>> \in Seq(FrameSet)
    BY <2>1
  <2>6. <<>> \o <<p, c>> = <<p, c>>
    BY <2>5
  <2>7. Last(one) = p
    BY <2>2 DEF Last
  <2> QED BY <2>2, <2>4, <2>6, <2>7
<1> HIDE DEF one
<1>12. Calls(p, c) /\ c.f # "handle" /\ Same(Last(one), p)
  BY <1>6, <1>7, <1>8, <1>11 DEF Calls
<1>13. Stacked(Front(one) \o <<p, c>>, chains, Nothing, mapped, limit, panicked)
  BY <1>6, <1>8, <1>10, <1>11, <1>12, CallStep
<1>14. Stacked(frames', chains, ret', mapped, limit, panicked) /\ ret' \in RetSet /\ ops' \in Nat
  <2>1. frames' = Front(one) \o <<p, c>>
    BY <1>3, <1>11
  <2>2. Stacked(frames', chains, ret', mapped, limit, panicked)
    BY <1>3, <1>13, <2>1
  <2>3. ops' \in Nat
    BY <1>3 DEF Base, TypeOK
  <2> QED BY <1>3, <2>2, <2>3, NothingIs
<1> QED BY <1>1, <1>14 DEF Base, TypeOK, Stacked

(* ... and has what it returned.                                           *)
LEMMA TryAllocDoneKeeps ==
  ASSUME Base, TryAllocDone
  PROVE  Base'
<1>1. frames # <<>> /\ Top.f = "program"
  BY DEF TryAllocDone, At
<1>2. UNCHANGED <<vecs, nlpm, table, chains, mapped, dropped, panicked, ops, limit>>
  BY DEF TryAllocDone
<1>3. /\ user' = user \union {[ptr |-> p, size |-> Top.size] : p \in {ret.ptr} \ {0}}
      /\ frames' = Front(frames) /\ ret' = Nothing
  BY DEF TryAllocDone, Return
<1>4. Top \in ProgramSet /\ Top = Last(frames)
  <2>1. Top \in FrameSet /\ Top = Last(frames)
    BY <1>1, TopIs
  <2> QED BY <1>1, <2>1 DEF FrameSet, ReserveSet, AllocSet, HandleSet
<1>5. user' \subseteq UserSet
  <2>1. Top.size \in UserSizes
    BY <1>4 DEF ProgramSet
  <2>2. ret.ptr \in Nat /\ user \subseteq UserSet
    BY DEF Base, TypeOK, RetSet
  <2>3. ASSUME NEW p \in {ret.ptr} \ {0} PROVE [ptr |-> p, size |-> Top.size] \in UserSet
    BY <2>1, <2>2 DEF UserSet, Ptr
  <2> QED BY <1>3, <2>2, <2>3
<1>6. Stacked(frames, chains, ret, mapped, limit, panicked)
  BY BaseIs
<1> DEFINE r == Nothing
<1>7. /\ Last(frames).f # "handle" /\ (r.ptr # 0 => Last(frames).f = "alloc")
      /\ (r.err = TRUE => mapped >= limit) /\ (Last(frames).f = "alloc" /\ r.ptr = 0 => mapped >= limit)
  BY <1>1, <1>4, NothingIs
<1>8. Stacked(Front(frames), chains, r, mapped, limit, panicked)
  <2> HIDE DEF r
  <2> QED BY <1>1, <1>6, <1>7, ReturnStep
<1>9. Stacked(frames', chains, ret', mapped, limit, panicked) /\ ret' \in RetSet
  BY <1>3, <1>8, NothingIs
<1> QED BY <1>2, <1>5, <1>9 DEF Base, TypeOK, Stacked

(* The program gives an object back.                                       *)
LEMMA DeallocLocalKeeps ==
  ASSUME Base, DeallocLocal
  PROVE  Base'
<1>1. UNCHANGED <<vecs, nlpm, table, chains, mapped, dropped, panicked, limit>>
  BY DEF DeallocLocal
<1>2. PICK x \in user : Begin(<<Dealloc(x.ptr, x.size, 0)>>) /\ user' = user \ {x}
  BY DEF DeallocLocal
<1> DEFINE st == 0
           ptr == x.ptr
           size == x.size
           c == Dealloc(ptr, size, st)
<1>3. frames = <<>> /\ frames' = <<c>> /\ ret' = Nothing /\ ops' = ops + 1
  BY <1>2 DEF Begin, Idle
<1>4. chains = <<>> /\ Len(chains) = 0
  BY <1>3, NoChains
<1>5. user \subseteq UserSet
  BY DEF Base, TypeOK
<1>6. ptr \in Ptr /\ size \in Sizes
  BY <1>2, <1>5, Constants DEF UserSet
<1>7. size \in Nat \ {0} /\ \E s \in Sizes : size <= s
  <2> HIDE DEF size
  <2>1. size \in Nat \ {0}
    BY <1>6, Constants
  <2>2. size <= size
    BY <2>1
  <2> QED BY <1>6, <2>1, <2>2
<1>8. Usable(st, chains) /\ Len(chains) \in Nat
  BY <1>4 DEF Usable
<1>9. FrameOK(c, chains) /\ c.f = "reserve" /\ ~ Receives(c) /\ Handled(c, mapped, limit)
  <2> HIDE DEF st, ptr, size
  <2> QED BY <1>6, <1>7, <1>8, DeallocIs
<1> HIDE DEF c
<1>10. Room(c, chains, mapped) /\ c.f # "alloc" /\ \A k \in 1 .. Len(chains) : c.f = "handle" /\ c.k = k
  BY <1>4, <1>9 DEF Room
<1>11. Stacked(<<c>>, chains, Nothing, mapped, limit, panicked)
  BY <1>9, <1>10, OneFrame
<1>12. Stacked(frames', chains, ret', mapped, limit, panicked) /\ ret' \in RetSet /\ ops' \in Nat
  BY <1>3, <1>11, NothingIs DEF Base, TypeOK
<1>13. user' \subseteq UserSet
  BY <1>2, <1>5
<1> QED BY <1>1, <1>12, <1>13 DEF Base, TypeOK, Stacked

(* A thread whose first call gives back another thread's object.           *)
LEMMA DeallocNonLocalKeeps ==
  ASSUME Base, DeallocNonLocal
  PROVE  Base'
<1>1. UNCHANGED <<vecs, nlpm, table, dropped, user, panicked, limit>>
  BY DEF DeallocNonLocal
<1> DEFINE ch == FreshState.chain
           chs == <<ch>>
           q == FreshState.mapped
           c == Handle(1)
<1>2. /\ frames = <<>> /\ frames' = <<c>> /\ ret' = Nothing /\ ops' = ops + 1
      /\ chains' = chs /\ mapped' = q
  BY DEF DeallocNonLocal, Begin, Idle
<1>3. World /\ mapped \in Nat
  BY DEF World, Base, TypeOK
<1>4. FreshState \in WorkSet /\ ch # <<>> /\ Len(ch) = 1 /\ q = mapped + 1
  BY <1>3, FreshIs
<1>5. ch \in Seq(StateSet)
  BY <1>4, WorkIs
<1> HIDE DEF ch, q
<1>6. chs = Append(<<>>, ch) /\ Len(chs) = 1 /\ chs[1] = ch /\ chs \in Seq(Seq(StateSet))
  BY <1>5
<1>7. ChainsOK(chs)
  <2>1. \A i \in 2 .. Len(ch) : ch[i].at # 0
    BY <1>4
  <2>2. ASSUME NEW k \in 1 .. Len(chs) PROVE \A i \in 2 .. Len(chs[k]) : chs[k][i].at # 0
    <3>1. k = 1
      BY <1>6, <2>2
    <3> QED BY <1>6, <2>1, <3>1
  <2> QED BY <1>6, <2>2 DEF ChainsOK
<1> HIDE DEF chs
<1>8. /\ c \in HandleSet /\ c.f = "handle" /\ c.k = 1 /\ c.at = "nlpm" /\ c.todo = <<>>
      /\ c.to_dealloc = <<>>
  <2>1. c = [f |-> "handle", at |-> "nlpm", k |-> 1, phase |-> 0, todo |-> <<>>,
             more |-> FALSE, to_dealloc |-> <<>>]
    BY DEF Handle
  <2>2. <<>> \in Seq(TaskSet) /\ <<>> \in Seq(Ptr) /\ 0 \in 0 .. 7
    BY EmptySeq
  <2> HIDE DEF c
  <2> QED BY <2>1, <2>2 DEF HandleSet
<1> HIDE DEF c
<1>9. FrameOK(c, chs)
  <2>1. ChainOf(c) = 1 /\ 1 \in 0 .. Len(chs)
    BY <1>6, <1>8 DEF ChainOf
  <2>2. HasChunk(c) /\ HasCap(c)
    BY <1>8 DEF HasChunk, HasCap
  <2>3. InPass(c, chs)
    <3>1. DOMAIN c.todo = {} /\ chs[c.k] # <<>>
      BY <1>4, <1>6, <1>8
    <3> QED BY <1>8, <3>1 DEF InPass
  <2> QED BY <1>8, <2>1, <2>2, <2>3 DEF FrameOK, FrameSet
<1>10. ~ Receives(c) /\ Handled(c, q, limit)
  BY <1>8 DEF Receives, Handled
<1>11. Room(c, chs, q)
  <2>1. Len(c.to_dealloc) = 0 /\ Len(chs[c.k]) = 1
    BY <1>4, <1>6, <1>8
  <2>2. 0 + 1 <= q
    BY <1>3, <1>4
  <2> QED BY <2>1, <2>2 DEF Room
<1>12. \A k \in 1 .. Len(chs) : c.f = "handle" /\ c.k = k
  BY <1>6, <1>8
<1>13. Stacked(<<c>>, chs, Nothing, q, limit, panicked)
  <2>1. c.f # "alloc"
    BY <1>8
  <2> QED BY <1>9, <1>10, <1>11, <1>12, <2>1, OneFrame
<1>14. /\ Stacked(frames', chains', ret', mapped', limit, panicked') /\ ret' \in RetSet
       /\ ChainsOK(chains') /\ mapped' \in Nat
  BY <1>1, <1>2, <1>3, <1>4, <1>7, <1>13, NothingIs
<1>15. /\ VecsOK(vecs') /\ nlpm' \in Nat /\ table' \in [Classes -> Nat] /\ dropped' \subseteq DroppedSet
       /\ user' \subseteq UserSet /\ panicked' \in BOOLEAN /\ ops' \in Nat /\ limit' = limit
  BY <1>1, <1>2 DEF Base, TypeOK
<1> QED BY <1>14, <1>15, StepIs

(* No vector has memory.                                                   *)
LEMMA NullIs == VecsOK([v \in Vectors |-> Null])
<1>1. Null \in VecSet /\ Null.cap = 0
  BY EmptySeq DEF Null, VecSet
<1> QED BY <1>1 DEF VecsOK

(* try_free_all_memory leaves the allocator as it began.                   *)
LEMMA TryFreeAllMemoryKeeps ==
  ASSUME Base, TryFreeAllMemory
  PROVE  Base'
<1>1. /\ frames = <<>> /\ frames' = <<>> /\ ret' = Nothing /\ ops' = ops + 1
      /\ vecs' = [v \in Vectors |-> Null] /\ nlpm' = 0 /\ table' = [c \in Classes |-> 0]
      /\ mapped' = 0 /\ dropped' = {} /\ UNCHANGED <<chains, user, panicked, limit>>
  BY DEF TryFreeAllMemory, Begin, Idle
<1>2. chains = <<>>
  BY <1>1, NoChains
<1>3. Stacked(<<>>, <<>>, Nothing, mapped', limit, panicked') /\ ChainsOK(<<>>)
  BY NoFrames
<1>4. /\ Stacked(frames', chains', ret', mapped', limit, panicked') /\ ret' \in RetSet
      /\ ChainsOK(chains')
  BY <1>1, <1>2, <1>3, NothingIs
<1>5. VecsOK(vecs') /\ nlpm' \in Nat /\ table' \in [Classes -> Nat] /\ mapped' \in Nat
  BY <1>1, NullIs
<1>6. /\ dropped' \subseteq DroppedSet /\ user' \subseteq UserSet /\ panicked' \in BOOLEAN /\ ops' \in Nat
      /\ limit' = limit
  BY <1>1 DEF Base, TypeOK
<1> QED BY <1>4, <1>5, <1>6, StepIs

(* The allocator begins with nothing.                                      *)
LEMMA BaseInit == Init => Base /\ PanicsRightly
<1> SUFFICES ASSUME Init PROVE Base /\ PanicsRightly
  OBVIOUS
<1>1. /\ limit \in Limits /\ vecs = [v \in Vectors |-> Null] /\ nlpm = 0 /\ table = [c \in Classes |-> 0]
      /\ chains = <<>> /\ frames = <<>> /\ ret = Nothing /\ mapped = 0 /\ dropped = {} /\ user = {}
      /\ panicked = FALSE /\ ops = 0
  BY DEF Init
<1>2. limit \in Nat
  BY <1>1, SelfAllocAssumption
<1>3. Stacked(<<>>, <<>>, Nothing, mapped, limit, panicked) /\ ChainsOK(<<>>)
  BY NoFrames
<1>4. Stacked(frames, chains, ret, mapped, limit, panicked) /\ ChainsOK(chains) /\ ret \in RetSet
  BY <1>1, <1>3, NothingIs
<1>5. VecsOK(vecs) /\ nlpm \in Nat /\ table \in [Classes -> Nat] /\ mapped \in Nat
  BY <1>1, NullIs
<1>6. TypeOK
  BY <1>1, <1>2, <1>4, <1>5 DEF TypeOK
<1>7. Base
  BY <1>4, <1>6, BaseIs
<1> QED BY <1>1, <1>7 DEF PanicsRightly

(* Every step keeps the invariant, as long as no buffer is asked for that  *)
(* is larger than every size.                                              *)
LEMMA StepKeeps ==
  ASSUME Base, WithinSizes', Step
  PROVE  Base'
<1>1. CASE ReserveTest \/ ReserveGot \/ ReserveRetry \/ ReserveFreed
  BY <1>1, ReserveTestKeeps, ReserveGotKeeps, ReserveRetryKeeps, ReserveFreedKeeps
<1>2. CASE AllocPop \/ CheckNonLocalPtrs \/ AllocGetChunk \/ AllocSplit \/ AllocSplitDone
  BY <1>2, AllocPopKeeps, CheckNonLocalPtrsKeeps, AllocGetChunkKeeps, AllocSplitKeeps, AllocSplitDoneKeeps
<1>3. CASE AllocHave \/ AllocPushed \/ AllocCarved \/ SlowSelfAlloc \/ SlowSelfAllocHandled
  BY <1>3, AllocHaveKeeps, AllocPushedKeeps, AllocCarvedKeeps, SlowSelfAllocKeeps, SlowSelfAllocHandledKeeps
<1>4. CASE HandleNlpm \/ HandleInited \/ HandlePhase \/ HandleReserve
  BY <1>4, HandleNlpmKeeps, HandleInitedKeeps, HandlePhaseKeeps, HandleReserveKeeps
<1>5. CASE HandleBoxed \/ HandleReserved \/ HandleCommit \/ HandleDealloc
  BY <1>5, HandleBoxedKeeps, HandleReservedKeeps, HandleCommitKeeps, HandleDeallocKeeps
<1>6. CASE TryAllocDone
  BY <1>6, TryAllocDoneKeeps
<1> QED BY <1>1, <1>2, <1>3, <1>4, <1>5, <1>6 DEF Step

(* The same for the calls of the program.                                  *)
LEMMA NextKeeps ==
  ASSUME Base, WithinSizes', [Next]_vars
  PROVE  Base'
<1>1. CASE Step
  BY <1>1, StepKeeps
<1>2. CASE TryAlloc \/ DeallocLocal \/ DeallocNonLocal \/ TryFreeAllMemory
  BY <1>2, TryAllocKeeps, DeallocLocalKeeps, DeallocNonLocalKeeps, TryFreeAllMemoryKeeps
<1>3. CASE UNCHANGED vars
  <2>1. UNCHANGED <<nlpm, table, chains, mapped, dropped, user, panicked, ops, limit>>
        /\ vecs' = vecs /\ frames' = frames /\ ret' = ret
    BY <1>3 DEF vars
  <2>2. VecsOK(vecs') /\ ret' \in RetSet /\ Stacked(frames', chains, ret', mapped, limit, panicked)
    BY <2>1, BaseIs DEF TypeOK
  <2> QED BY <2>1, <2>2, VecsStep
<1> QED BY <1>1, <1>2, <1>3 DEF Next, Rest

(* The limit of the process does not change.                               *)
LEMMA LimitStays ==
  ASSUME [Next]_vars
  PROVE  limit' = limit
<1>1. CASE ReserveTest \/ ReserveGot \/ ReserveRetry \/ ReserveFreed \/ AllocPop \/ CheckNonLocalPtrs
  BY <1>1 DEF ReserveTest, ReserveGot, ReserveRetry, ReserveFreed, AllocPop, CheckNonLocalPtrs
<1>2. CASE AllocGetChunk \/ AllocSplit \/ AllocSplitDone
  BY <1>2 DEF AllocGetChunk, AllocSplit, AllocSplitDone
<1>3. CASE AllocHave \/ AllocPushed \/ AllocCarved \/ SlowSelfAlloc \/ SlowSelfAllocHandled
  BY <1>3 DEF AllocHave, AllocPushed, AllocCarved, SlowSelfAlloc, SlowSelfAllocHandled
<1>4. CASE HandleNlpm \/ HandleInited \/ HandlePhase \/ HandleReserve \/ HandleDealloc
  BY <1>4 DEF HandleNlpm, HandleInited, HandlePhase, HandleReserve, HandleDealloc
<1>5. CASE HandleBoxed \/ HandleReserved \/ HandleCommit
  BY <1>5 DEF HandleBoxed, HandleReserved, HandleCommit, Panic
<1>6. CASE TryAllocDone \/ TryAlloc \/ DeallocLocal \/ DeallocNonLocal \/ TryFreeAllMemory
  BY <1>6 DEF TryAllocDone, TryAlloc, DeallocLocal, DeallocNonLocal, TryFreeAllMemory
<1>7. CASE UNCHANGED vars
  BY <1>7 DEF vars
<1> QED BY <1>1, <1>2, <1>3, <1>4, <1>5, <1>6, <1>7 DEF Next, Step, Rest

(* Where the allocator panics: without memory for a chunk table, when      *)
(* reserve returns an error, and when to_dealloc is full.                  *)
NoTable == At("handle", "boxed") /\ ret.ptr = 0
NoVector == At("handle", "reserved") /\ ret.err
NoPlace == At("handle", "commit") /\ Tail(chains[Top.k]) # <<>> /\ Len(Top.to_dealloc) = MAX_STATES

(* It panics nowhere else.                                                 *)
LEMMA PanicsOnly ==
  ASSUME [Next]_vars
  PROVE  \/ ~ panicked /\ panicked' = panicked
         \/ UNCHANGED <<panicked, mapped, limit, frames>>
         \/ (NoTable \/ NoVector \/ NoPlace) /\ UNCHANGED <<mapped, frames>>
<1>1. CASE ReserveTest \/ ReserveGot \/ ReserveRetry \/ ReserveFreed \/ AllocPop \/ CheckNonLocalPtrs
  BY <1>1 DEF ReserveTest, ReserveGot, ReserveRetry, ReserveFreed, AllocPop, CheckNonLocalPtrs, At
<1>2. CASE AllocGetChunk \/ AllocSplit \/ AllocSplitDone
  BY <1>2 DEF AllocGetChunk, AllocSplit, AllocSplitDone, At
<1>3. CASE AllocHave \/ AllocPushed \/ AllocCarved \/ SlowSelfAlloc \/ SlowSelfAllocHandled
  BY <1>3 DEF AllocHave, AllocPushed, AllocCarved, SlowSelfAlloc, SlowSelfAllocHandled, At
<1>4. CASE HandleNlpm \/ HandleInited \/ HandlePhase \/ HandleReserve \/ HandleDealloc
  BY <1>4 DEF HandleNlpm, HandleInited, HandlePhase, HandleReserve, HandleDealloc, At
<1>5. CASE HandleBoxed
  <2>1. CASE ret.ptr = 0
    BY <1>5, <2>1 DEF HandleBoxed, Panic, NoTable
  <2>2. CASE ret.ptr # 0
    BY <1>5, <2>2 DEF HandleBoxed, At
  <2> QED BY <2>1, <2>2
<1>6. CASE HandleReserved
  <2>1. CASE ret.err
    BY <1>6, <2>1 DEF HandleReserved, Panic, NoVector
  <2>2. CASE ~ ret.err
    BY <1>6, <2>2 DEF HandleReserved, At
  <2> QED BY <2>1, <2>2
<1>7. CASE HandleCommit
  <2> DEFINE full == Tail(chains[Top.k]) # <<>> /\ Len(Top.to_dealloc) = MAX_STATES
  <2>1. CASE full
    BY <1>7, <2>1 DEF HandleCommit, Panic, NoPlace
  <2>2. CASE ~ full
    BY <1>7, <2>2 DEF HandleCommit, At
  <2> QED BY <2>1, <2>2
<1>8. CASE TryAllocDone \/ TryAlloc \/ DeallocLocal \/ DeallocNonLocal \/ TryFreeAllMemory
  BY <1>8 DEF TryAllocDone, TryAlloc, DeallocLocal, DeallocNonLocal, TryFreeAllMemory, At, Begin, Idle
<1>9. CASE UNCHANGED vars
  BY <1>9 DEF vars
<1> QED BY <1>1, <1>2, <1>3, <1>4, <1>5, <1>6, <1>7, <1>8, <1>9 DEF Next, Step, Rest

(* A State more than to_dealloc has room for has a region of its own.      *)
LEMMA NoPlaceIs ==
  ASSUME Base, NoPlace
  PROVE  mapped > MAX_STATES + 1
<1>1. frames # <<>> /\ Top.f = "handle" /\ Top.at = "commit"
  BY DEF NoPlace, At
<1>2. /\ chains[Top.k] \in Seq(StateSet) /\ chains[Top.k] # <<>>
      /\ Len(Top.to_dealloc) + Len(chains[Top.k]) <= mapped
  BY <1>1, HandleTop
<1>3. Tail(chains[Top.k]) # <<>> /\ Len(Top.to_dealloc) = MAX_STATES
  BY DEF NoPlace
<1> DEFINE b == Len(chains[Top.k])
           rest == Tail(chains[Top.k])
           r == Len(rest)
<1>4. rest \in Seq(StateSet) /\ r = b - 1
  BY <1>2, TailIs
<1>5. r \in Nat /\ r # 0
  BY <1>3, <1>4, Indices
<1>6. b \in Nat /\ MAX_STATES \in Nat /\ mapped \in Nat
  BY <1>2, Indices, SelfAllocAssumption DEF Base, TypeOK
<1>7. MAX_STATES + b <= mapped
  BY <1>2, <1>3
<1> HIDE DEF b, r
<1> QED BY <1>4, <1>5, <1>6, <1>7

(* Without memory the limit is reached.                                    *)
LEMMA NoTableIs ==
  ASSUME Base, NoTable
  PROVE  mapped >= limit
<1>1. frames # <<>> /\ Top.f = "handle" /\ Top.at = "boxed" /\ ret.ptr = 0 /\ ~ panicked
  BY DEF NoTable, At
<1>2. Stacked(frames, chains, ret, mapped, limit, panicked) /\ panicked = FALSE
  BY <1>1, BaseIs DEF TypeOK
<1>3. Top = Last(frames)
  BY <1>1, TopIs
<1>4. Last(frames).f # "program" /\ Receives(Last(frames))
  BY <1>1, <1>3 DEF Receives
<1> QED BY <1>1, <1>2, <1>4, StackedIs

(* A panic has one of the two reasons.                                     *)
LEMMA PanicsKeeps ==
  ASSUME Base, PanicsRightly, [Next]_vars
  PROVE  PanicsRightly'
<1>1. panicked \in BOOLEAN /\ limit' = limit
  BY LimitStays DEF Base, TypeOK
<1>2. CASE ~ panicked /\ panicked' = panicked
  BY <1>1, <1>2 DEF PanicsRightly
<1>3. CASE UNCHANGED <<panicked, mapped, limit, frames>>
  BY <1>3 DEF PanicsRightly, Top
<1>4. CASE (NoTable \/ NoVector \/ NoPlace) /\ UNCHANGED <<mapped, frames>>
  <2>1. NoTable \/ NoVector => mapped >= limit /\ Top.at # "commit"
    BY NoTableIs, ErrIs DEF NoVector, NoTable, At
  <2>2. NoPlace => mapped > MAX_STATES + 1 /\ Top.at = "commit"
    BY NoPlaceIs DEF NoPlace, At
  <2>3. Top' = Top /\ mapped' = mapped
    BY <1>4 DEF Top
  <2> QED BY <1>1, <1>4, <2>1, <2>2, <2>3 DEF PanicsRightly
<1> QED BY <1>2, <1>3, <1>4, PanicsOnly

-----------------------------------------------------------------------------
(* Theorems                                                                *)

(* For every limit, every table of sizes and any number of calls: as long  *)
(* as no buffer is asked for that is larger than every size, the calls     *)
(* nest as the code's do, a chain has no more States than there are        *)
(* regions, the State a call works on is still there, memory is refused    *)
(* only at the limit, and a vector's buffer is never larger than a size    *)
(* that has a vector to go to when it is given back.                       *)
THEOREM CallsNest == Spec /\ []WithinSizes => []Base
<1>1. Init => Base
  BY BaseInit
<1>2. Base /\ WithinSizes' /\ [Next]_vars => Base'
  BY NextKeeps
<1> QED BY <1>1, <1>2, PTL DEF Spec

(* For every limit: where handle_state panics because a table or a vector  *)
(* gets no memory, the limit is reached; where it panics because           *)
(* to_dealloc is full, more than MAX_STATES + 1 regions have been mapped.  *)
THEOREM PanicsHaveReasons == Spec /\ []WithinSizes => []PanicsRightly
<1>1. Init => Base /\ PanicsRightly
  BY BaseInit
<1>2. Base /\ PanicsRightly /\ WithinSizes' /\ [Next]_vars => (Base /\ PanicsRightly)'
  BY NextKeeps, PanicsKeeps
<1> QED BY <1>1, <1>2, PTL DEF Spec

(* Whatever the limit, to_dealloc is never full as long as the allocator   *)
(* has no more than MAX_STATES + 1 regions: until then handle_state panics *)
(* only when the limit is reached.                                         *)
THEOREM OnlyTheLimit ==
  Spec /\ []WithinSizes /\ [](mapped <= MAX_STATES + 1) => []OnlyTheLimitPanics
<1>1. Base /\ PanicsRightly /\ mapped <= MAX_STATES + 1 => OnlyTheLimitPanics
  <2> SUFFICES ASSUME Base, PanicsRightly, mapped <= MAX_STATES + 1, panicked
               PROVE  Top.at # "commit" /\ mapped >= limit
    BY DEF OnlyTheLimitPanics
  <2>1. panicked = TRUE
    BY DEF Base, TypeOK
  <2>2. mapped \in Nat /\ MAX_STATES \in Nat
    BY SelfAllocAssumption DEF Base, TypeOK
  <2> QED BY <2>1, <2>2 DEF PanicsRightly
<1> QED BY <1>1, CallsNest, PanicsHaveReasons, PTL
=============================================================================
