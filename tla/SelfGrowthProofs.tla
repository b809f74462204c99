-------------------------- MODULE SelfGrowthProofs --------------------------
(***************************************************************************)
(* SelfAlloc, for every value of its constants: no vector holds more than  *)
(* its buffer has room for.                                                *)
(*                                                                         *)
(* Fit is what the pushes of reserve, of allocations and of the program    *)
(* need.  The pushes of handle_state's commit, which test nothing, need    *)
(* Pass: a pass that has grown nothing has found room for everything its   *)
(* State had when it came to it, and what came to the State since then is  *)
(* what it has found room for.                                             *)
(***************************************************************************)
EXTENDS SelfAllocProofs

-----------------------------------------------------------------------------
(* Vectors have room for what reserve was asked to make room for           *)

(* A call of reserve_slow that gives the old buffer back: until it goes on *)
(* the vector keeps at least the capacity it has just been given, because  *)
(* calls above that grow the same vector aim higher.                       *)
Waits(fr) == fr.f = "reserve" /\ fr.at = "freed"
Aims(fr) == IF fr.at = "retry" THEN fr.min_cap ELSE fr.cap
Holds(fr, gr) ==
  Waits(fr) /\ gr.f = "reserve" /\ gr.at # "test" /\ gr.v = fr.v => fr.cap <= Aims(gr)
CapOK(fr, vs) ==
  /\ fr.f = "reserve" => Len(fr.put) <= fr.add
  /\ Waits(fr) => fr.cap <= vs[fr.v].cap
Capacities(fs, vs) ==
  /\ \A i \in 1 .. Len(fs) : CapOK(fs[i], vs)
  /\ \A i \in 1 .. Len(fs) : \A j \in 1 .. i - 1 : Holds(fs[j], fs[i])

Fitting(vs) == \A v \in Vectors : Len(vs[v].items) <= vs[v].cap
Fit == Capacities(frames, vecs) /\ Fitting(vecs)

(* A stack may be seen as one of more frames.                              *)
LEMMA InMore ==
  ASSUME NEW S, NEW fs \in Seq(S), NEW T, S \subseteq T
  PROVE  fs \in Seq(T)
<1> DEFINE n == Len(fs)
<1>1. n \in Nat /\ fs \in [1 .. n -> S]
  BY LenProperties
<1> HIDE DEF n
<1>2. fs \in [1 .. n -> T]
  BY <1>1
<1> QED BY <1>1, <1>2, MapIs

(* The call on top is at another place.                                    *)
LEMMA CapGoto ==
  ASSUME NEW S, NEW fs \in Seq(S), fs # <<>>, NEW vs, NEW ws, Capacities(fs, vs), NEW fr,
         \A i \in 1 .. Len(fs) - 1 : CapOK(fs[i], ws) /\ Holds(fs[i], fr),
         CapOK(fr, ws)
  PROVE  Capacities(Append(Front(fs), fr), ws)
<1> DEFINE T == S \union {fr}
           gs == Append(Front(fs), fr)
           n == Len(fs)
<1>1. fs \in Seq(T) /\ fr \in T
  BY InMore
<1> HIDE DEF T
<1>2. /\ Len(gs) = n /\ n \in Nat \ {0}
      /\ \A i \in 1 .. n - 1 : gs[i] = fs[i]
      /\ gs[n] = fr
  BY <1>1, GotoIs
<1> HIDE DEF gs
<1>3. \A i \in 1 .. n : \A j \in 1 .. i - 1 : Holds(fs[j], fs[i])
  BY DEF Capacities
<1>4. \A i \in 1 .. n - 1 : CapOK(fs[i], ws) /\ Holds(fs[i], fr)
  OBVIOUS
<1> HIDE DEF n
<1>5. ASSUME NEW i \in 1 .. n PROVE CapOK(gs[i], ws)
  <2>1. CASE i = n
    BY <2>1, <1>2
  <2>2. CASE i # n
    <3>1. i \in 1 .. n - 1
      BY <2>2, <1>2
    <3> QED BY <3>1, <1>2, <1>4
  <2> QED BY <2>1, <2>2
<1>6. ASSUME NEW i \in 1 .. n, NEW j \in 1 .. i - 1 PROVE Holds(gs[j], gs[i])
  <2>0. j \in 1 .. n - 1
    BY <1>2
  <2>1. CASE i = n
    BY <2>0, <2>1, <1>2, <1>4
  <2>2. CASE i # n
    <3>1. i \in 1 .. n - 1
      BY <2>2, <1>2
    <3> QED BY <2>0, <3>1, <1>2, <1>3
  <2> QED BY <2>1, <2>2
<1> QED BY <1>2, <1>5, <1>6 DEF Capacities, gs

(* A call that has not done anything yet.                                  *)
Fresh(c) == c.f = "reserve" => c.at = "test" /\ Len(c.put) <= c.add

(* It holds to nothing yet.                                                *)
LEMMA FreshHolds ==
  ASSUME NEW c, Fresh(c), NEW fr, NEW ws
  PROVE  CapOK(c, ws) /\ Holds(fr, c)
  BY DEF Fresh, CapOK, Holds, Waits

(* ... and makes a call.                                                   *)
LEMMA CapCall ==
  ASSUME NEW S, NEW fs \in Seq(S), fs # <<>>, NEW vs, NEW ws, Capacities(fs, vs), NEW fr,
         \A i \in 1 .. Len(fs) - 1 : CapOK(fs[i], ws) /\ Holds(fs[i], fr),
         CapOK(fr, ws), NEW c, Fresh(c)
  PROVE  Capacities(Front(fs) \o <<fr, c>>, ws)
<1> DEFINE T == S \union {fr, c}
           gs == Front(fs) \o <<fr, c>>
           n == Len(fs)
<1>1. fs \in Seq(T) /\ fr \in T /\ c \in T
  BY InMore
<1> HIDE DEF T
<1>2. /\ Len(gs) = n + 1 /\ n \in Nat \ {0}
      /\ \A i \in 1 .. n - 1 : gs[i] = fs[i]
      /\ gs[n] = fr /\ gs[n + 1] = c
  BY <1>1, CallIs
<1> HIDE DEF gs
<1>3. \A i \in 1 .. n : \A j \in 1 .. i - 1 : Holds(fs[j], fs[i])
  BY DEF Capacities
<1>4. \A i \in 1 .. n - 1 : CapOK(fs[i], ws) /\ Holds(fs[i], fr)
  OBVIOUS
<1> HIDE DEF n
<1>5. ASSUME NEW i \in 1 .. n + 1 PROVE CapOK(gs[i], ws)
  <2>1. CASE i = n
    BY <2>1, <1>2
  <2>2. CASE i = n + 1
    BY <2>2, <1>2, FreshHolds
  <2>3. CASE i # n /\ i # n + 1
    <3>1. i \in 1 .. n - 1
      BY <2>3, <1>2
    <3> QED BY <3>1, <1>2, <1>4
  <2> QED BY <2>1, <2>2, <2>3
<1>6. ASSUME NEW i \in 1 .. n + 1, NEW j \in 1 .. i - 1 PROVE Holds(gs[j], gs[i])
  <2>1. CASE i = n
    <3>0. j \in 1 .. n - 1
      BY <1>2, <2>1
    <3> QED BY <3>0, <2>1, <1>2, <1>4
  <2>2. CASE i = n + 1
    BY <2>2, <1>2, FreshHolds
  <2>3. CASE i # n /\ i # n + 1
    <3>1. i \in 1 .. n - 1 /\ j \in 1 .. n - 1 /\ i \in 1 .. n
      BY <2>3, <1>2
    <3> QED BY <3>1, <1>2, <1>3
  <2> QED BY <2>1, <2>2, <2>3
<1> QED BY <1>2, <1>5, <1>6 DEF Capacities, gs

(* The call on top returns.                                                *)
LEMMA CapReturn ==
  ASSUME NEW S, NEW fs \in Seq(S), fs # <<>>, NEW vs, NEW ws, Capacities(fs, vs),
         \A i \in 1 .. Len(fs) - 1 : CapOK(fs[i], ws)
  PROVE  Capacities(Front(fs), ws)
<1> DEFINE gs == Front(fs)
           n == Len(fs)
<1>1. n \in Nat \ {0} /\ Len(gs) = n - 1 /\ \A i \in 1 .. n - 1 : gs[i] = fs[i]
  BY Ends
<1>2. \A i \in 1 .. n : \A j \in 1 .. i - 1 : Holds(fs[j], fs[i])
  BY DEF Capacities
<1>3. \A i \in 1 .. n - 1 : CapOK(fs[i], ws)
  OBVIOUS
<1> HIDE DEF gs, n
<1>4. ASSUME NEW i \in 1 .. n - 1, NEW j \in 1 .. i - 1 PROVE Holds(gs[j], gs[i])
  <2>1. i \in 1 .. n /\ j \in 1 .. n - 1
    BY <1>1
  <2> QED BY <2>1, <1>1, <1>2
<1> QED BY <1>1, <1>3, <1>4 DEF Capacities, gs, n

-----------------------------------------------------------------------------
(* Steps of other calls than reserve                                       *)

(* What such a step may do to the stack and to the vectors.                *)
MovesOn(fs, gs) ==
  \/ gs = fs
  \/ gs = Front(fs)
  \/ \E fr : fr.f # "reserve" /\ gs = Append(Front(fs), fr)
  \/ \E fr, c : fr.f # "reserve" /\ Fresh(c) /\ gs = Front(fs) \o <<fr, c>>
Less(vs, ws) ==
  \A v \in Vectors : ws[v].cap = vs[v].cap /\ Len(ws[v].items) <= Len(vs[v].items)
SameCaps(vs, ws) == \A v \in Vectors : ws[v].cap = vs[v].cap

(* Capacities stay as they are.                                            *)
LEMMA CapSame ==
  ASSUME NEW fs, fs \in Seq(FrameSet), NEW vs, NEW ws, SameCaps(vs, ws),
         Capacities(fs, vs), NEW i \in 1 .. Len(fs)
  PROVE  CapOK(fs[i], ws)
<1>1. fs[i] \in FrameSet /\ CapOK(fs[i], vs)
  BY Indices DEF Capacities
<1>2. CASE fs[i].f = "reserve"
  <2>1. fs[i].v \in Vectors
    BY <1>1, <1>2, FrameIs DEF ReserveSet
  <2> QED BY <1>1, <2>1 DEF CapOK, SameCaps
<1>3. CASE fs[i].f # "reserve"
  BY <1>3 DEF CapOK, Waits
<1> QED BY <1>2, <1>3

(* A step of another call than reserve keeps the capacities.               *)
LEMMA CapMoves ==
  ASSUME NEW fs, fs \in Seq(FrameSet), fs # <<>>, NEW vs, NEW ws, SameCaps(vs, ws),
         Capacities(fs, vs), NEW gs, MovesOn(fs, gs)
  PROVE  Capacities(gs, ws)
<1>1. \A i \in 1 .. Len(fs) : CapOK(fs[i], ws)
  BY CapSame
<1>2. Len(fs) \in Nat /\ \A i \in 1 .. Len(fs) - 1 : CapOK(fs[i], ws)
  BY <1>1, Indices
<1>3. CASE gs = fs
  BY <1>1, <1>3 DEF Capacities
<1>4. CASE gs = Front(fs)
  BY <1>2, <1>4, CapReturn
<1>5. ASSUME NEW fr, fr.f # "reserve" PROVE CapOK(fr, ws) /\ \A gr : Holds(gr, fr)
  BY <1>5 DEF CapOK, Waits, Holds
<1>6. ASSUME NEW fr, fr.f # "reserve", gs = Append(Front(fs), fr) PROVE Capacities(gs, ws)
  BY <1>2, <1>5, <1>6, CapGoto
<1>7. ASSUME NEW fr, NEW c, fr.f # "reserve", Fresh(c), gs = Front(fs) \o <<fr, c>>
      PROVE  Capacities(gs, ws)
  BY <1>2, <1>5, <1>7, CapCall
<1> QED BY <1>3, <1>4, <1>6, <1>7 DEF MovesOn

(* ... and leaves room in the vectors.                                     *)
LEMMA Others ==
  ASSUME Base, Fit, frames # <<>>, MovesOn(frames, frames'), Less(vecs, vecs'), VecsOK(vecs')
  PROVE  Fit'
<1>1. frames \in Seq(FrameSet)
  BY TopIs
<1>2. SameCaps(vecs, vecs') /\ Capacities(frames, vecs)
  BY DEF Less, SameCaps, Fit
<1>3. Capacities(frames', vecs')
  BY <1>1, <1>2, CapMoves
<1>4. ASSUME NEW v \in Vectors PROVE Len(vecs'[v].items) <= vecs'[v].cap
  <2>1. /\ vecs'[v].cap = vecs[v].cap /\ Len(vecs'[v].items) <= Len(vecs[v].items)
        /\ Len(vecs[v].items) <= vecs[v].cap
    BY DEF Less, Fit, Fitting
  <2>2. vecs[v] \in VecSet /\ vecs'[v] \in VecSet
    BY DEF Base, TypeOK, VecsOK
  <2>3. Len(vecs[v].items) \in Nat /\ Len(vecs'[v].items) \in Nat /\ vecs[v].cap \in Nat
    BY <2>2, Indices DEF VecSet
  <2> QED BY <2>1, <2>3
<1> QED BY <1>3, <1>4 DEF Fit, Fitting

(* A new buffer has room for what it was asked for.                        *)
LEMMA AskHigh ==
  ASSUME NEW v, NEW min_cap, min_cap \in Nat \ {0}
  PROVE  min_cap <= RecommendedSize(NextPowerOfTwo(min_cap * SizeOfElem(v))) \div SizeOfElem(v)
<1> DEFINE e == SizeOfElem(v)
           a == min_cap * e
           p == NextPowerOfTwo(a)
           size == RecommendedSize(p)
           cap == size \div e
<1>1. e \in Nat \ {0}
  BY ElemIs
<1>2. a \in Nat \ {0} /\ a = min_cap * e
  <2> HIDE DEF e
  <2> QED BY <1>1
<1>3. p \in Nat \ {0} /\ p >= a
  <2> HIDE DEF a
  <2> QED BY <1>2, NextPowerIs
<1>4. size \in Nat /\ size >= p
  <2> HIDE DEF p
  <2> QED BY <1>3, RecommendedIs
<1>5. size >= min_cap * e
  <2> HIDE DEF e, a, p, size
  <2> QED BY <1>2, <1>3, <1>4
<1>6. min_cap <= cap
  <2> HIDE DEF e, size
  <2>1. size = e * cap + (size % e) /\ size % e \in 0 .. e - 1 /\ cap \in Int
    BY <1>1, <1>4
  <2> HIDE DEF cap
  <2>2. ASSUME cap <= min_cap - 1 PROVE FALSE
    <3>1. e * cap <= e * (min_cap - 1)
      BY <1>1, <2>1, <2>2
    <3>2. e * (min_cap - 1) = min_cap * e - e
      BY <1>1
    <3> QED BY <1>1, <1>5, <2>1, <3>1, <3>2
  <2> QED BY <2>1, <2>2
<1> QED BY <1>6

(* The calls below.                                                        *)
LEMMA Below ==
  ASSUME Base, Fit, frames # <<>>, Top.f = "reserve", NEW j \in 1 .. Len(frames) - 1,
         Waits(frames[j]), frames[j].v = Top.v
  PROVE  /\ frames[j].cap \in Nat /\ frames[j].cap <= vecs[Top.v].cap
         /\ Top.at # "test" => frames[j].cap <= Aims(Top)
<1>1. frames \in Seq(FrameSet) /\ Top = Last(frames)
  BY TopIs
<1>2. Len(frames) \in Nat \ {0} /\ Last(frames) = frames[Len(frames)]
  BY <1>1, Ends
<1>3. j \in 1 .. Len(frames) /\ Len(frames) \in 1 .. Len(frames)
  BY <1>2
<1>4. CapOK(frames[j], vecs) /\ Holds(frames[j], frames[Len(frames)]) /\ frames[j] \in FrameSet
  BY <1>1, <1>2, <1>3, Indices DEF Fit, Capacities
<1>5. frames[j].cap \in Nat
  BY <1>4, FrameIs DEF Waits, ReserveSet
<1> QED BY <1>1, <1>2, <1>4, <1>5 DEF CapOK, Holds

(* The call on top.                                                        *)
LEMMA TopCap ==
  ASSUME Base, Fit, frames # <<>>
  PROVE  CapOK(Top, vecs)
<1>1. frames \in Seq(FrameSet) /\ Top = Last(frames)
  BY TopIs
<1>2. Len(frames) \in Nat \ {0} /\ Last(frames) = frames[Len(frames)]
  BY <1>1, Ends
<1>3. Len(frames) \in 1 .. Len(frames)
  BY <1>2
<1> QED BY <1>1, <1>2, <1>3 DEF Fit, Capacities

(* Calls that wait below for other vectors, or for this one.               *)
LEMMA BelowCap ==
  ASSUME Base, Fit, frames # <<>>, Top.f = "reserve", NEW ws,
         \A v \in Vectors : v # Top.v => ws[v].cap = vecs[v].cap,
         \A j \in 1 .. Len(frames) - 1 :
           Waits(frames[j]) /\ frames[j].v = Top.v => frames[j].cap <= ws[Top.v].cap,
         NEW i \in 1 .. Len(frames) - 1
  PROVE  CapOK(frames[i], ws)
<1>1. frames \in Seq(FrameSet)
  BY TopIs
<1>2. Len(frames) \in Nat
  BY <1>1, Indices
<1>3. i \in 1 .. Len(frames)
  BY <1>2
<1>4. CapOK(frames[i], vecs) /\ frames[i] \in FrameSet
  BY <1>1, <1>3, Indices DEF Fit, Capacities
<1>5. CASE Waits(frames[i])
  <2>1. frames[i].v \in Vectors
    BY <1>4, <1>5, FrameIs DEF Waits, ReserveSet
  <2> QED BY <1>4, <1>5, <2>1 DEF CapOK
<1>6. CASE ~ Waits(frames[i])
  BY <1>4, <1>6 DEF CapOK
<1> QED BY <1>5, <1>6

(* alloc_with: the vector will not be smaller than calls below expect.     *)
LEMMA AllocWithFits ==
  ASSUME Base, Fit, frames # <<>>, Top.f = "reserve", NEW min_cap, min_cap \in Nat \ {0},
         AllocWith(Top, min_cap), UNCHANGED vecs,
         \A j \in 1 .. Len(frames) - 1 :
           Waits(frames[j]) /\ frames[j].v = Top.v => frames[j].cap <= min_cap
  PROVE  Fit'
<1> DEFINE e == SizeOfElem(Top.v)
           size == RecommendedSize(NextPowerOfTwo(min_cap * e))
           cap == size \div e
           fr == [Top EXCEPT !.at = "got", !.cap = cap]
           c == Alloc(size, Top.st, Top.counted, TRUE)
<1>1. frames' = Front(frames) \o <<fr, c>>
  BY DEF AllocWith, Call
<1>2. cap \in Nat /\ min_cap <= cap
  BY AskIs, AskHigh
<1> HIDE DEF size, cap, e
<1>3. Top \in ReserveSet /\ frames \in Seq(FrameSet) /\ Top = Last(frames)
  BY ReserveTop, TopIs
<1>4. fr.f = "reserve" /\ fr.at = "got" /\ fr.cap = cap /\ fr.v = Top.v /\ fr.put = Top.put /\ fr.add = Top.add
  BY <1>3 DEF ReserveSet
<1>5. Fresh(c)
  BY DEF Fresh, Alloc
<1> HIDE DEF fr, c
<1>6. \A i \in 1 .. Len(frames) - 1 : CapOK(frames[i], vecs)
  BY Below, BelowCap
<1>7. ASSUME NEW j \in 1 .. Len(frames) - 1 PROVE Holds(frames[j], fr)
  <2> SUFFICES ASSUME Waits(frames[j]), frames[j].v = Top.v PROVE frames[j].cap <= cap
    BY <1>4 DEF Holds, Aims
  <2>1. frames[j].cap \in Nat /\ frames[j].cap <= min_cap
    BY Below
  <2> QED BY <1>2, <2>1
<1>8. CapOK(fr, vecs)
  <2>1. CapOK(Top, vecs)
    BY TopCap
  <2> QED BY <1>4, <2>1 DEF CapOK, Waits
<1>9. Capacities(Front(frames) \o <<fr, c>>, vecs)
  BY <1>3, <1>5, <1>6, <1>7, <1>8, CapCall DEF Fit
<1> QED BY <1>1, <1>9 DEF Fit

(* The elements are written: there is room for them.                       *)
LEMMA FinishFits ==
  ASSUME Base, Fit, frames # <<>>, Top.f = "reserve", NEW vs, VecsOK(vs), NEW grew,
         Finish(vs, grew),
         \A v \in Vectors : v # Top.v => vs[v] = vecs[v],
         \A j \in 1 .. Len(frames) - 1 :
           Waits(frames[j]) /\ frames[j].v = Top.v => frames[j].cap <= vs[Top.v].cap,
         vs[Top.v].items = vecs[Top.v].items, MinCap <= vs[Top.v].cap
  PROVE  Fit'
<1>1. /\ Top.v \in Vectors /\ Top.put \in Seq(Ptr) /\ Top = Last(frames) /\ frames \in Seq(FrameSet)
      /\ Top.add \in Nat /\ vecs[Top.v].items \in Seq(Ptr)
  BY ReserveTop, TopIs
<1>2. vecs' = [vs EXCEPT ![Top.v].items = @ \o Top.put] /\ frames' = Front(frames)
  BY DEF Finish, Return
<1>3. vs \in [Vectors -> VecSet]
  BY DEF VecsOK
<1>4. /\ vecs'[Top.v].cap = vs[Top.v].cap /\ vecs'[Top.v].items = vecs[Top.v].items \o Top.put
      /\ \A v \in Vectors : v # Top.v => vecs'[v] = vs[v]
  BY <1>1, <1>2, <1>3 DEF VecSet
<1>5. \A i \in 1 .. Len(frames) - 1 : CapOK(frames[i], vecs')
  BY <1>4, BelowCap
<1>6. Capacities(frames', vecs')
  BY <1>1, <1>2, <1>5, CapReturn DEF Fit
<1>7. Len(vecs'[Top.v].items) <= vecs'[Top.v].cap
  <2>1. Len(Top.put) <= Top.add
    BY TopCap DEF CapOK
  <2>2. Len(vecs'[Top.v].items) = Len(vecs[Top.v].items) + Len(Top.put)
    BY <1>1, <1>4, ConcatIs
  <2>3. Len(vecs[Top.v].items) \in Nat /\ Len(Top.put) \in Nat
    BY <1>1, Indices
  <2>4. vs[Top.v].cap \in Nat
    BY <1>1, <1>3 DEF VecSet
  <2>5. Len(vecs[Top.v].items) + Top.add <= vs[Top.v].cap
    BY DEF MinCap, Size
  <2> DEFINE l == Len(vecs[Top.v].items)
             p == Len(Top.put)
             a == Top.add
             c == vs[Top.v].cap
  <2>6. l + p <= c
    <3>1. l \in Nat /\ p \in Nat /\ a \in Nat /\ c \in Nat /\ p <= a /\ l + a <= c
      BY <1>1, <2>1, <2>3, <2>4, <2>5
    <3> HIDE DEF l, p, a, c
    <3> QED BY <3>1
  <2> QED BY <1>4, <2>2, <2>6
<1>8. ASSUME NEW v \in Vectors PROVE Len(vecs'[v].items) <= vecs'[v].cap
  <2>1. CASE v = Top.v
    BY <1>7, <2>1
  <2>2. CASE v # Top.v
    BY <1>4, <2>2 DEF Fit, Fitting
  <2> QED BY <2>1, <2>2
<1> QED BY <1>6, <1>8 DEF Fit, Fitting

(* An object that is given back is put where there will be room for it.    *)
LEMMA DealsFresh ==
  ASSUME NEW ptr, NEW size, NEW st
  PROVE  Fresh(Dealloc(ptr, size, st))
<1> DEFINE put == <<ptr>>
<1>1. Len(put) = 1
  OBVIOUS
<1> HIDE DEF put
<1> QED BY <1>1 DEF Fresh, Dealloc, Reserve, put

(* reserve                                                                 *)
LEMMA ReserveTestFits ==
  ASSUME Base, Fit, ReserveTest
  PROVE  Fit'
<1>1. frames # <<>> /\ Top.f = "reserve"
  BY DEF ReserveTest, At
<1>3. vecs[Top.v].cap \in Nat /\ MinCap \in Nat /\ VecsOK(vecs)
  BY <1>1, ReserveTop DEF Base, TypeOK
<1>4. CASE vecs[Top.v].cap >= MinCap
  <2> DEFINE no == FALSE
  <2>1. Finish(vecs, no)
    BY <1>4 DEF ReserveTest
  <2> HIDE DEF no
  <2>2. MinCap <= vecs[Top.v].cap
    BY <1>3, <1>4
  <2> QED BY <1>1, <1>3, <2>1, <2>2, Below, FinishFits
<1>5. CASE ~ (vecs[Top.v].cap >= MinCap)
  <2>1. AllocWith(Top, MinCap) /\ UNCHANGED vecs
    BY <1>5 DEF ReserveTest
  <2>2. MinCap \in Nat \ {0} /\ vecs[Top.v].cap < MinCap
    BY <1>3, <1>5
  <2>3. ASSUME NEW j \in 1 .. Len(frames) - 1, Waits(frames[j]), frames[j].v = Top.v
        PROVE  frames[j].cap <= MinCap
    <3>1. frames[j].cap \in Nat /\ frames[j].cap <= vecs[Top.v].cap
      BY <1>1, <2>3, Below
    <3> QED BY <1>3, <2>2, <3>1
  <2> QED BY <1>1, <2>1, <2>2, <2>3, AllocWithFits
<1> QED BY <1>4, <1>5

(* ... the buffer was too small ...                                        *)
LEMMA ReserveRetryFits ==
  ASSUME Base, Fit, ReserveRetry
  PROVE  Fit'
<1>1. frames # <<>> /\ Top.f = "reserve" /\ Top.at = "retry"
  BY DEF ReserveRetry, At
<1>2. UNCHANGED vecs /\ AllocWith(Top, Top.min_cap)
  BY DEF ReserveRetry
<1>4. Top.min_cap \in Nat \ {0}
  BY <1>1, ReserveTop
<1>5. \A j \in 1 .. Len(frames) - 1 :
        Waits(frames[j]) /\ frames[j].v = Top.v => frames[j].cap <= Top.min_cap
  BY <1>1, Below DEF Aims
<1> QED BY <1>1, <1>2, <1>4, <1>5, AllocWithFits

(* ... and the old buffer was given back.                                  *)
LEMMA ReserveFreedFits ==
  ASSUME Base, Fit, ReserveFreed
  PROVE  Fit'
<1>1. frames # <<>> /\ Top.f = "reserve" /\ Top.at = "freed"
  BY DEF ReserveFreed, At
<1>3. Top.cap \in Nat /\ MinCap \in Nat /\ VecsOK(vecs) /\ vecs[Top.v].cap \in Nat
  BY <1>1, ReserveTop DEF Base, TypeOK
<1>4. CASE ~ (MinCap > Top.cap)
  <2> DEFINE yes == TRUE
  <2>1. Finish(vecs, yes)
    BY <1>4 DEF ReserveFreed
  <2> HIDE DEF yes
  <2>2. Top.cap <= vecs[Top.v].cap
    BY <1>1, TopCap DEF CapOK, Waits
  <2>3. MinCap <= vecs[Top.v].cap
    BY <1>3, <1>4, <2>2
  <2> QED BY <1>1, <1>3, <2>1, <2>3, Below, FinishFits
<1>5. CASE MinCap > Top.cap
  <2>1. AllocWith(Top, MinCap) /\ UNCHANGED vecs
    BY <1>5 DEF ReserveFreed
  <2>2. MinCap \in Nat \ {0}
    BY <1>3, <1>5
  <2>3. ASSUME NEW j \in 1 .. Len(frames) - 1, Waits(frames[j]), frames[j].v = Top.v
        PROVE  frames[j].cap <= MinCap
    <3>1. frames[j].cap \in Nat /\ frames[j].cap <= Aims(Top) /\ Aims(Top) = Top.cap
      BY <1>1, <2>3, Below DEF Aims
    <3> QED BY <1>3, <1>5, <3>1
  <2> QED BY <1>1, <2>1, <2>2, <2>3, AllocWithFits
<1> QED BY <1>4, <1>5

(* reserve_slow, with the new buffer                                       *)
LEMMA ReserveGotFits ==
  ASSUME Base, Fit, ReserveGot
  PROVE  Fit'
<1> DEFINE old == vecs[Top.v]
           new == [vecs EXCEPT ![Top.v].ptr = ret.ptr, ![Top.v].cap = Top.cap]
<1>1. frames # <<>> /\ Top.f = "reserve" /\ Top.at = "got"
  BY DEF ReserveGot, At
<1>3. /\ MinCap \in Nat /\ VecsOK(vecs) /\ ret \in RetSet /\ Top.cap \in Nat /\ Fits(Top.v, Top.cap)
      /\ Top.v \in Vectors /\ Top \in ReserveSet /\ old \in VecSet
      /\ old.cap \in Nat /\ old.ptr \in Nat /\ frames \in Seq(FrameSet)
  BY <1>1, ReserveTop, TopIs DEF Base, TypeOK
<1>4. ret.ptr \in Nat
  BY <1>3 DEF RetSet
<1>5. \/ /\ MinCap > Top.cap
         /\ IF ret.ptr = 0 THEN AllocWith(Top, MinCap)
            ELSE Call([Top EXCEPT !.at = "retry", !.min_cap = MinCap],
                      Dealloc(ret.ptr, Top.cap * SizeOfElem(Top.v), Top.st))
         /\ UNCHANGED vecs
      \/ /\ MinCap <= Top.cap /\ ret.ptr = 0
         /\ ReturnErr
         /\ UNCHANGED vecs
      \/ /\ MinCap <= Top.cap /\ ret.ptr # 0 /\ old.cap = 0
         /\ Finish(new, TRUE)
      \/ /\ MinCap <= Top.cap /\ ret.ptr # 0 /\ old.cap # 0
         /\ vecs' = new
         /\ Call([Top EXCEPT !.at = "freed"],
                 Dealloc(old.ptr, old.cap * SizeOfElem(Top.v), Top.st))
  BY DEF ReserveGot
<1>6. ret.ptr # 0 => VecsOK(new)
  <2> SUFFICES ASSUME ret.ptr # 0 PROVE VecsOK(new)
    OBVIOUS
  <2> DEFINE r == [old EXCEPT !.ptr = ret.ptr, !.cap = Top.cap]
  <2>0. Top.cap # 0
    BY <1>3 DEF Fits
  <2>1. r \in VecSet /\ r.cap = Top.cap /\ r.ptr = ret.ptr
    BY <1>3, <1>4 DEF VecSet
  <2>2. new = [vecs EXCEPT ![Top.v] = r]
    BY <1>3
  <2> HIDE DEF r
  <2> QED BY <1>3, <2>1, <2>2, OneVector
<1>6a. /\ new[Top.v].cap = Top.cap /\ new[Top.v].items = vecs[Top.v].items
       /\ \A v \in Vectors : v # Top.v => new[v] = vecs[v]
  <2>1. vecs \in [Vectors -> VecSet]
    BY <1>3 DEF VecsOK
  <2> QED BY <1>3, <2>1 DEF VecSet
<1>6b. \A j \in 1 .. Len(frames) - 1 :
         Waits(frames[j]) /\ frames[j].v = Top.v => frames[j].cap \in Nat /\ frames[j].cap <= Top.cap
  BY <1>1, Below DEF Aims
<1>6c. \A i \in 1 .. Len(frames) - 1 : CapOK(frames[i], vecs)
  BY <1>1, Below, BelowCap
<1> HIDE DEF new
<1>6d. \A i \in 1 .. Len(frames) - 1 : CapOK(frames[i], new)
  BY <1>1, <1>6a, <1>6b, BelowCap
<1>7. CASE MinCap > Top.cap /\ ret.ptr = 0 /\ AllocWith(Top, MinCap) /\ UNCHANGED vecs
  <2>2. MinCap \in Nat \ {0}
    BY <1>3, <1>7
  <2>3. \A j \in 1 .. Len(frames) - 1 :
          Waits(frames[j]) /\ frames[j].v = Top.v => frames[j].cap <= MinCap
    BY <1>3, <1>6b, <1>7
  <2> QED BY <1>1, <1>7, <2>2, <2>3, AllocWithFits
<1>8. CASE /\ MinCap > Top.cap /\ ret.ptr # 0 /\ UNCHANGED vecs
           /\ Call([Top EXCEPT !.at = "retry", !.min_cap = MinCap],
                   Dealloc(ret.ptr, Top.cap * SizeOfElem(Top.v), Top.st))
  <2> DEFINE fr == [Top EXCEPT !.at = "retry", !.min_cap = MinCap]
             c == Dealloc(ret.ptr, Top.cap * SizeOfElem(Top.v), Top.st)
  <2>1. frames' = Front(frames) \o <<fr, c>>
    BY <1>8 DEF Call
  <2>2. fr.f = "reserve" /\ fr.at = "retry" /\ fr.min_cap = MinCap /\ fr.v = Top.v
        /\ fr.put = Top.put /\ fr.add = Top.add
    BY <1>3 DEF ReserveSet
  <2>3. Fresh(c)
    BY DealsFresh
  <2> HIDE DEF fr, c
  <2>4. CapOK(fr, vecs)
    BY <1>1, <2>2, TopCap DEF CapOK, Waits
  <2>5. \A j \in 1 .. Len(frames) - 1 : Holds(frames[j], fr)
    BY <1>3, <1>6b, <1>8, <2>2 DEF Holds, Aims
  <2>6. Capacities(Front(frames) \o <<fr, c>>, vecs)
    BY <1>1, <1>3, <1>6c, <2>3, <2>4, <2>5, CapCall DEF Fit
  <2> QED BY <1>8, <2>1, <2>6 DEF Fit
<1>9. CASE MinCap <= Top.cap /\ ret.ptr = 0 /\ ReturnErr /\ UNCHANGED vecs
  <2>1. frames' = Front(frames)
    BY <1>9 DEF ReturnErr, Return
  <2>2. Capacities(Front(frames), vecs)
    BY <1>1, <1>3, <1>6c, CapReturn DEF Fit
  <2> QED BY <1>9, <2>1, <2>2 DEF Fit
<1>10. CASE MinCap <= Top.cap /\ ret.ptr # 0 /\ old.cap = 0 /\ Finish(new, TRUE)
  <2> DEFINE yes == TRUE
  <2>1. Finish(new, yes)
    BY <1>10
  <2> HIDE DEF yes
  <2> QED BY <1>1, <1>6, <1>6a, <1>6b, <1>10, <2>1, FinishFits
<1>11. CASE /\ MinCap <= Top.cap /\ ret.ptr # 0 /\ old.cap # 0 /\ vecs' = new
            /\ Call([Top EXCEPT !.at = "freed"],
                    Dealloc(old.ptr, old.cap * SizeOfElem(Top.v), Top.st))
  <2> DEFINE fr == [Top EXCEPT !.at = "freed"]
             c == Dealloc(old.ptr, old.cap * SizeOfElem(Top.v), Top.st)
  <2>1. frames' = Front(frames) \o <<fr, c>>
    BY <1>11 DEF Call
  <2>2. fr.f = "reserve" /\ fr.at = "freed" /\ fr.v = Top.v /\ fr.cap = Top.cap
        /\ fr.put = Top.put /\ fr.add = Top.add
    BY <1>3 DEF ReserveSet
  <2>3. Fresh(c)
    BY DealsFresh
  <2> HIDE DEF fr, c
  <2>4. CapOK(fr, new)
    BY <1>1, <1>3, <1>6a, <2>2, TopCap DEF CapOK, Waits
  <2>5. \A j \in 1 .. Len(frames) - 1 : Holds(frames[j], fr)
    BY <1>6b, <2>2 DEF Holds, Aims
  <2>6. Capacities(Front(frames) \o <<fr, c>>, new)
    BY <1>1, <1>3, <1>6d, <2>3, <2>4, <2>5, CapCall DEF Fit
  <2>7. ASSUME NEW v \in Vectors PROVE Len(new[v].items) <= new[v].cap
    <3>1. CASE v = Top.v
      <4>1. Len(vecs[Top.v].items) \in Nat /\ Top.add \in Nat
        BY <1>1, ReserveTop, Indices
      <4>2. Len(vecs[Top.v].items) <= MinCap
        BY <4>1 DEF MinCap, Size
      <4> QED BY <1>3, <1>6a, <1>11, <3>1, <4>1, <4>2
    <3>2. CASE v # Top.v
      BY <1>6a, <3>2 DEF Fit, Fitting
    <3> QED BY <3>1, <3>2
  <2> QED BY <1>11, <2>1, <2>6, <2>7 DEF Fit, Fitting
<1> QED BY <1>5, <1>7, <1>8, <1>9, <1>10, <1>11

(* Pushes ask for as much as they put.                                     *)
LEMMA ReserveFresh ==
  ASSUME NEW v, NEW add, NEW put, NEW st, NEW counted, Len(put) <= add
  PROVE  Fresh(Reserve(v, add, put, st, counted))
  BY DEF Fresh, Reserve

(* An allocation and a handle_state ask for nothing.                       *)
LEMMA AllocFresh ==
  ASSUME NEW size, NEW st, NEW counted, NEW own
  PROVE  Fresh(Alloc(size, st, counted, own))
  BY DEF Fresh, Alloc

(* Neither does handle_state.                                              *)
LEMMA HandleFresh ==
  ASSUME NEW k
  PROVE  Fresh(Handle(k))
  BY DEF Fresh, Handle

(* Another call than reserve goes on, calls or returns.                    *)
LEMMA GotoMoves ==
  ASSUME NEW fr, Goto(fr), fr.f # "reserve"
  PROVE  MovesOn(frames, frames')
  BY DEF Goto, MovesOn

(* ... calls ...                                                           *)
LEMMA CallMoves ==
  ASSUME NEW fr, NEW c, Call(fr, c), fr.f # "reserve", Fresh(c)
  PROVE  MovesOn(frames, frames')
  BY DEF Call, MovesOn

(* ... or returns ...                                                      *)
LEMMA ReturnMoves ==
  ASSUME NEW r, Return(r)
  PROVE  MovesOn(frames, frames')
  BY DEF Return, MovesOn

(* ... with a pointer.                                                     *)
LEMMA ReturnPtrMoves ==
  ASSUME NEW p, ReturnPtr(p)
  PROVE  MovesOn(frames, frames')
  BY DEF Return, ReturnPtr, MovesOn

(* Vectors stay, or an element is taken from one.                          *)
LEMMA LessSame ==
  ASSUME Base, UNCHANGED vecs
  PROVE  Less(vecs, vecs') /\ VecsOK(vecs')
<1>1. VecsOK(vecs)
  BY DEF Base, TypeOK
<1>2. ASSUME NEW v \in Vectors PROVE Len(vecs[v].items) \in Nat
  <2>1. vecs[v].items \in Seq(Ptr)
    BY <1>1 DEF VecsOK, VecSet
  <2> QED BY <2>1, Indices
<1> QED BY <1>1, <1>2 DEF Less

(* An element is taken from a vector.                                      *)
LEMMA LessPop ==
  ASSUME Base, NEW v, v \in Vectors, vecs[v].items # <<>>, vecs' = Pop(v)
  PROVE  Less(vecs, vecs') /\ VecsOK(vecs')
<1>1. VecsOK(vecs) /\ vecs \in [Vectors -> VecSet]
  BY DEF Base, TypeOK, VecsOK
<1>2. VecsOK(vecs')
  BY <1>1, PopVec DEF Pop
<1>3. ASSUME NEW w \in Vectors PROVE vecs'[w].cap = vecs[w].cap /\ Len(vecs'[w].items) <= Len(vecs[w].items)
  <2>1. vecs[w].items \in Seq(Ptr)
    BY <1>1 DEF VecSet
  <2>2. Len(vecs[w].items) \in Nat
    BY <2>1, Indices
  <2>3. CASE w = v
    <3>1. vecs'[w].cap = vecs[w].cap /\ vecs'[w].items = Front(vecs[w].items)
      BY <1>1, <2>3 DEF Pop, VecSet
    <3>2. Len(Front(vecs[w].items)) = Len(vecs[w].items) - 1
      BY <2>1, <2>3, Ends
    <3> QED BY <2>2, <3>1, <3>2
  <2>4. CASE w # v
    BY <1>1, <2>2, <2>4 DEF Pop
  <2> QED BY <2>3, <2>4
<1> QED BY <1>2, <1>3 DEF Less

-----------------------------------------------------------------------------
(* A call of the allocator on top.                                         *)
LEMMA AllocRecord ==
  ASSUME Base, frames # <<>>, Top.f = "alloc"
  PROVE  /\ Top \in AllocSet /\ TopObjects \in Vectors /\ Class \in Classes
         /\ FreeChunks(Class) \in Vectors
         /\ FreeChunks("large") \in Vectors /\ FreeChunks("common") \in Vectors
         /\ Chunks(Top.size) \in Vectors /\ Top.size \in Sizes
<1>1. Top \in AllocSet
  BY TopIs, FrameIs
<1>2. Top.size \in Sizes /\ Class \in Classes
  BY <1>1 DEF AllocSet, Class, Define, Classes
<1>3. "large" \in Classes /\ "common" \in Classes
  BY DEF Classes
<1> QED BY <1>1, <1>2, <1>3, VectorsAre DEF TopObjects

(* The steps of an allocation.                                             *)
LEMMA AllocPopFits ==
  ASSUME Base, Fit, AllocPop
  PROVE  Fit'
<1>1. frames # <<>> /\ Top.f = "alloc"
  BY DEF AllocPop, At
<1>2. Top \in AllocSet /\ TopObjects \in Vectors
  BY <1>1, AllocRecord
<1>3. CASE vecs[TopObjects].items # <<>>
  <2>1. vecs' = Pop(TopObjects) /\ ReturnPtr(Last(vecs[TopObjects].items))
    BY <1>3 DEF AllocPop
  <2> QED BY <1>1, <1>2, <1>3, <2>1, LessPop, ReturnPtrMoves, Others
<1>4. CASE vecs[TopObjects].items = <<>>
  <2> DEFINE fr == [Top EXCEPT !.at = "check"]
  <2>1. Goto(fr) /\ UNCHANGED vecs
    BY <1>4 DEF AllocPop
  <2>2. fr.f # "reserve"
    BY <1>2 DEF AllocSet
  <2> HIDE DEF fr
  <2> QED BY <1>1, <2>1, <2>2, LessSame, GotoMoves, Others
<1> QED BY <1>3, <1>4

(* The check for non-local pointers.                                       *)
LEMMA CheckNonLocalPtrsFits ==
  ASSUME Base, Fit, CheckNonLocalPtrs
  PROVE  Fit'
<1>1. frames # <<>> /\ Top.f = "alloc" /\ UNCHANGED vecs
  BY DEF CheckNonLocalPtrs, At
<1>2. PICK x \in user : Call(Top, Reserve(Objects(x.size), 1, <<x.ptr>>, 0, FALSE))
  BY DEF CheckNonLocalPtrs
<1> DEFINE one == 1
           put == <<x.ptr>>
           c == Reserve(Objects(x.size), one, put, 0, FALSE)
<1>3. Len(put) <= one
  OBVIOUS
<1>4. Call(Top, c)
  BY <1>2
<1>5. Fresh(c)
  <2> HIDE DEF one, put
  <2> QED BY <1>3, ReserveFresh
<1> HIDE DEF c
<1> QED BY <1>1, <1>4, <1>5, LessSame, CallMoves, Others

(* A chunk is taken, or memory asked for.                                  *)
LEMMA AllocGetChunkFits ==
  ASSUME Base, Fit, AllocGetChunk
  PROVE  Fit'
<1> DEFINE from == FreeChunks(Class)
           large == FreeChunks("large")
           with(chunk, at) == [Top EXCEPT !.chunk = chunk, !.at = at]
<1>1. frames # <<>> /\ Top.f = "alloc"
  BY DEF AllocGetChunk, At
<1>2. Top \in AllocSet /\ TopObjects \in Vectors /\ from \in Vectors /\ large \in Vectors
  BY <1>1, AllocRecord
<1>3. \A chunk, at : with(chunk, at).f # "reserve"
  BY <1>2 DEF AllocSet
<1>4. CASE /\ vecs[TopObjects].items # <<>>
           /\ vecs' = Pop(TopObjects) /\ ReturnPtr(Last(vecs[TopObjects].items))
  BY <1>1, <1>2, <1>4, LessPop, ReturnPtrMoves, Others
<1>5. CASE /\ vecs[from].items # <<>>
           /\ vecs' = Pop(from) /\ Goto(with(Last(vecs[from].items), "have"))
  <2> DEFINE fr == with(Last(vecs[from].items), "have")
  <2>1. Goto(fr) /\ fr.f # "reserve"
    BY <1>3, <1>5
  <2> HIDE DEF fr, from
  <2> QED BY <1>1, <1>2, <1>5, <2>1, LessPop, GotoMoves, Others
<1>6. CASE Goto([Top EXCEPT !.at = "slow"]) /\ UNCHANGED vecs
  <2> DEFINE fr == [Top EXCEPT !.at = "slow"]
  <2>1. Goto(fr) /\ fr.f # "reserve"
    BY <1>2, <1>6 DEF AllocSet
  <2> HIDE DEF fr
  <2> QED BY <1>1, <1>6, <2>1, LessSame, GotoMoves, Others
<1>7. CASE /\ vecs[large].items # <<>>
           /\ vecs' = Pop(large) /\ Goto(with(Last(vecs[large].items), "split"))
  <2> DEFINE fr == with(Last(vecs[large].items), "split")
  <2>1. Goto(fr) /\ fr.f # "reserve"
    BY <1>3, <1>7
  <2> HIDE DEF fr, large
  <2> QED BY <1>1, <1>2, <1>7, <2>1, LessPop, GotoMoves, Others
<1>8. CASE UNCHANGED vecs /\ ReturnPtr(0)
  <2> DEFINE zero == 0
  <2>1. ReturnPtr(zero)
    BY <1>8
  <2> HIDE DEF zero
  <2> QED BY <1>1, <1>8, <2>1, LessSame, ReturnPtrMoves, Others
<1>9. CASE /\ UNCHANGED vecs
           /\ \E got \in {GetFreeLargeChunk(FreshState, 1, FALSE)} :
                NewState(got, with(got.ptr, IF Class = "common" THEN "split" ELSE "have"))
  <2>1. PICK got \in {GetFreeLargeChunk(FreshState, 1, FALSE)} :
                NewState(got, with(got.ptr, IF Class = "common" THEN "split" ELSE "have"))
    BY <1>9
  <2> DEFINE fr == with(got.ptr, IF Class = "common" THEN "split" ELSE "have")
             c == Handle(Len(chains) + 1)
  <2>2. Call(fr, c) /\ fr.f # "reserve" /\ Fresh(c)
    BY <1>3, <2>1, HandleFresh DEF NewState
  <2> HIDE DEF fr, c
  <2> QED BY <1>1, <1>9, <2>2, LessSame, CallMoves, Others
<1> QED BY <1>4, <1>5, <1>6, <1>7, <1>8, <1>9 DEF AllocGetChunk

(* A large chunk is split; what is left goes to the common chunks.         *)
LEMMA AllocSplitFits ==
  ASSUME Base, Fit, AllocSplit
  PROVE  Fit'
<1> DEFINE common == FreeChunks("common")
           split == Stride(Top.chunk, COMMON_CHUNK_SIZE, COMMON_CHUNKS_IN_LARGE_CHUNK)
<1>1. frames # <<>> /\ Top.f = "alloc"
  BY DEF AllocSplit, At
<1>2. Top \in AllocSet /\ common \in Vectors
  BY <1>1, AllocRecord
<1>3. CASE vecs[common].items # <<>>
  <2> DEFINE fr == [Top EXCEPT !.at = "putback", !.large = Top.chunk, !.chunk = Last(vecs[common].items)]
             one == 1
             put == <<Top.chunk>>
             c == Reserve(FreeChunks("large"), one, put, 0, TRUE)
  <2>1. vecs' = Pop(common) /\ Call(fr, c)
    BY <1>3 DEF AllocSplit
  <2>2. fr.f # "reserve" /\ Len(put) <= one
    BY <1>2 DEF AllocSet
  <2>3. Fresh(c)
    <3> HIDE DEF one, put
    <3> QED BY <2>2, ReserveFresh
  <2> HIDE DEF fr, c, common
  <2> QED BY <1>1, <1>2, <1>3, <2>1, <2>2, <2>3, LessPop, CallMoves, Others
<1>4. CASE vecs[common].items = <<>>
  <2> DEFINE fr == [Top EXCEPT !.at = "extended", !.large = Top.chunk, !.chunk = Last(split)]
             add == COMMON_CHUNKS_IN_LARGE_CHUNK - 1
             put == Front(split)
             c == Reserve(common, add, put, 0, TRUE)
  <2>1. UNCHANGED vecs /\ Call(fr, c)
    BY <1>4 DEF AllocSplit
  <2>2. fr.f # "reserve"
    BY <1>2 DEF AllocSet
  <2>3. Len(put) <= add
    <3>1. Top.chunk \in Ptr /\ COMMON_CHUNK_SIZE \in Nat /\ COMMON_CHUNKS_IN_LARGE_CHUNK \in Nat \ {0}
      <4>1. HasChunk(Top) /\ Top.at = "split"
        BY <1>1, TopIs DEF FrameOK, AllocSplit, At
      <4> QED BY <1>1, <4>1, SelfAllocAssumption DEF HasChunk
    <3>2. split \in Seq(Ptr) /\ Len(split) = COMMON_CHUNKS_IN_LARGE_CHUNK
      BY <3>1, StrideIs
    <3> HIDE DEF split
    <3>3. split # <<>>
      BY <3>1, <3>2, EmptySeq
    <3>4. Len(put) = Len(split) - 1
      BY <3>2, <3>3, Ends
    <3> QED BY <3>1, <3>2, <3>4
  <2>4. Fresh(c)
    <3> HIDE DEF add, put, common
    <3> QED BY <2>3, ReserveFresh
  <2> HIDE DEF fr, c
  <2> QED BY <1>1, <2>1, <2>2, <2>4, LessSame, CallMoves, Others
<1> QED BY <1>3, <1>4

(* ... and the chunk is there.                                             *)
LEMMA AllocSplitDoneFits ==
  ASSUME Base, Fit, AllocSplitDone
  PROVE  Fit'
<1>1. frames # <<>> /\ Top.f = "alloc" /\ UNCHANGED vecs
  BY DEF AllocSplitDone, At
<1>2. Top \in AllocSet
  BY <1>1, AllocRecord
<1> DEFINE fr == [Top EXCEPT !.at = "have"]
           zero == 0
<1>3. ReturnPtr(zero) \/ Goto(fr)
  BY DEF AllocSplitDone
<1>4. fr.f # "reserve"
  BY <1>2 DEF AllocSet
<1> HIDE DEF fr, zero
<1> QED BY <1>1, <1>3, <1>4, LessSame, GotoMoves, ReturnPtrMoves, Others

(* Its objects are pushed.                                                 *)
LEMMA AllocHaveFits ==
  ASSUME Base, Fit, AllocHave
  PROVE  Fit'
<1>1. frames # <<>> /\ Top.f = "alloc"
  BY DEF AllocHave, At
<1>2. Top \in AllocSet /\ TopObjects \in Vectors
  BY <1>1, AllocRecord
<1>3. CASE vecs[TopObjects].items # <<>>
  <2>1. vecs' = Pop(TopObjects) /\ ReturnPtr(Last(vecs[TopObjects].items))
    BY <1>3 DEF AllocHave
  <2> QED BY <1>1, <1>2, <1>3, <2>1, LessPop, ReturnPtrMoves, Others
<1>4. CASE vecs[TopObjects].items = <<>>
  <2> DEFINE fr == [Top EXCEPT !.at = "pushed"]
             one == 1
             put == <<Top.chunk>>
             c == Reserve(Chunks(Top.size), one, put, Top.st, TRUE)
  <2>1. Call(fr, c) /\ UNCHANGED vecs
    BY <1>4 DEF AllocHave
  <2>2. fr.f # "reserve" /\ Len(put) <= one
    BY <1>2 DEF AllocSet
  <2>3. Fresh(c)
    <3> HIDE DEF one, put
    <3> QED BY <2>2, ReserveFresh
  <2> HIDE DEF fr, c
  <2> QED BY <1>1, <2>1, <2>2, <2>3, LessSame, CallMoves, Others
<1> QED BY <1>3, <1>4

(* The allocation ends without an object.                                  *)
LEMMA GiveUpFits ==
  ASSUME Base, Fit, frames # <<>>, Top.f = "alloc", GiveUp, UNCHANGED vecs
  PROVE  Fit'
<1>2. Top \in AllocSet
  BY AllocRecord
<1> DEFINE fr == [Top EXCEPT !.at = "slow"]
           zero == 0
<1>3. ReturnPtr(zero) \/ Goto(fr)
  BY DEF GiveUp
<1>4. fr.f # "reserve"
  BY <1>2 DEF AllocSet
<1> HIDE DEF fr, zero
<1> QED BY <1>3, <1>4, LessSame, GotoMoves, ReturnPtrMoves, Others

(* The chunk goes into its table.                                          *)
LEMMA AllocPushedFits ==
  ASSUME Base, Fit, AllocPushed
  PROVE  Fit'
<1>1. frames # <<>> /\ Top.f = "alloc" /\ UNCHANGED vecs /\ Top.at = "pushed"
  BY DEF AllocPushed, At
<1>2. Top \in AllocSet /\ Top.size \in Sizes
  BY <1>1, AllocRecord
<1>3. CASE ret.err
  <2>1. GiveUp
    BY <1>3 DEF AllocPushed
  <2> QED BY <1>1, <2>1, GiveUpFits
<1>4. CASE ~ ret.err
  <2> DEFINE fr == [Top EXCEPT !.at = "carved"]
             add == PerChunk(Top.size) - 1
             put == Stride(Top.chunk, Top.size, PerChunk(Top.size) - 1)
             c == Reserve(TopObjects, add, put, Top.st, TRUE)
  <2>1. Call(fr, c)
    BY <1>4 DEF AllocPushed
  <2>2. fr.f # "reserve"
    BY <1>2 DEF AllocSet
  <2>3. Len(put) <= add
    <3>1. Top.chunk \in Ptr
      <4>1. HasChunk(Top)
        BY <1>1, TopIs DEF FrameOK
      <4> QED BY <1>1, <4>1 DEF HasChunk
    <3>2. add \in Nat /\ Top.size \in Nat
      BY <1>2, PerChunkIs, Constants DEF OwnSizes
    <3> HIDE DEF add
    <3>3. Len(Stride(Top.chunk, Top.size, add)) = add
      BY <3>1, <3>2, StrideIs
    <3> QED BY <3>2, <3>3 DEF add
  <2>4. Fresh(c)
    <3> HIDE DEF add, put
    <3> QED BY <2>3, ReserveFresh
  <2> HIDE DEF fr, c
  <2> QED BY <1>1, <2>1, <2>2, <2>4, LessSame, CallMoves, Others
<1> QED BY <1>3, <1>4

(* The allocation ends with an object.                                     *)
LEMMA AllocCarvedFits ==
  ASSUME Base, Fit, AllocCarved
  PROVE  Fit'
<1>1. frames # <<>> /\ Top.f = "alloc" /\ UNCHANGED vecs
  BY DEF AllocCarved, At
<1>2. GiveUp \/ ReturnPtr(Top.chunk + Top.size * (PerChunk(Top.size) - 1))
  BY DEF AllocCarved
<1> DEFINE p == Top.chunk + Top.size * (PerChunk(Top.size) - 1)
<1>3. GiveUp \/ ReturnPtr(p)
  BY <1>2
<1> HIDE DEF p
<1> QED BY <1>1, <1>3, GiveUpFits, LessSame, ReturnPtrMoves, Others

(* self_alloc_ without memory at hand maps some.                           *)
LEMMA SlowSelfAllocFits ==
  ASSUME Base, Fit, SlowSelfAlloc
  PROVE  Fit'
<1>1. frames # <<>> /\ Top.f = "alloc" /\ UNCHANGED vecs
  BY DEF SlowSelfAlloc, At
<1>2. Top \in AllocSet
  BY <1>1, AllocRecord
<1>3. ASSUME NEW p, ReturnPtr(p) PROVE Fit'
  BY <1>1, <1>3, LessSame, ReturnPtrMoves, Others
<1>4. ASSUME NEW w, NewState(w, [Top EXCEPT !.chunk = w.ptr, !.at = "handled"]) PROVE Fit'
  <2> DEFINE fr == [Top EXCEPT !.chunk = w.ptr, !.at = "handled"]
             c == Handle(Len(chains) + 1)
  <2>2. Call(fr, c) /\ Fresh(c)
    BY <1>4, HandleFresh DEF NewState
  <2>3. fr.f # "reserve"
    BY <1>2 DEF AllocSet
  <2> HIDE DEF fr, c
  <2> QED BY <1>1, <2>2, <2>3, LessSame, CallMoves, Others
<1> QED BY <1>3, <1>4 DEF SlowSelfAlloc

(* ... and its State is handled.                                           *)
LEMMA SlowSelfAllocHandledFits ==
  ASSUME Base, Fit, SlowSelfAllocHandled
  PROVE  Fit'
<1>1. frames # <<>> /\ Top.f = "alloc" /\ UNCHANGED vecs /\ ReturnPtr(Top.chunk)
  BY DEF SlowSelfAllocHandled, At
<1> QED BY <1>1, LessSame, ReturnPtrMoves, Others

(* A handle_state about to commit its State has room for all of it.        *)
RoomToCommit ==
  At("handle", "commit") =>
    \A v \in Vectors : Size(v) + Len(Given(State, v)) <= vecs[v].cap

(* The steps of handle_state.                                              *)
LEMMA PanicFits ==
  ASSUME Fit, Panic
  PROVE  Fit'
  BY DEF Panic, Fit

(* The non-local pointer manager is asked for.                             *)
LEMMA HandleNlpmFits ==
  ASSUME Base, Fit, HandleNlpm
  PROVE  Fit'
<1>1. frames # <<>> /\ Top.f = "handle" /\ UNCHANGED vecs
  BY DEF HandleNlpm, At
<1>2. Top \in HandleSet
  BY <1>1, HandleTop
<1> DEFINE fr == [Top EXCEPT !.at = "inited"]
           gr == [Top EXCEPT !.at = "reserve"]
           c == Alloc(SIZE_OF_NLPM, Top.k, TRUE, TRUE)
<1>3. Call(fr, c) \/ Goto(gr)
  BY DEF HandleNlpm
<1>4. fr.f # "reserve" /\ gr.f # "reserve"
  BY <1>2 DEF HandleSet
<1>5. Fresh(c)
  BY AllocFresh
<1> HIDE DEF fr, gr, c
<1> QED BY <1>1, <1>3, <1>4, <1>5, LessSame, GotoMoves, CallMoves, Others

(* ... and is there.                                                       *)
LEMMA HandleInitedFits ==
  ASSUME Base, Fit, HandleInited
  PROVE  Fit'
<1>1. frames # <<>> /\ Top.f = "handle" /\ UNCHANGED vecs
  BY DEF HandleInited, At
<1>2. Top \in HandleSet
  BY <1>1, HandleTop
<1> DEFINE gr == [Top EXCEPT !.at = "reserve"]
<1>3. Goto(gr)
  BY DEF HandleInited
<1>4. gr.f # "reserve"
  BY <1>2 DEF HandleSet
<1> HIDE DEF gr
<1> QED BY <1>1, <1>3, <1>4, LessSame, GotoMoves, Others

(* A phase begins.                                                         *)
LEMMA HandlePhaseFits ==
  ASSUME Base, Fit, HandlePhase
  PROVE  Fit'
<1>1. frames # <<>> /\ Top.f = "handle" /\ UNCHANGED vecs
  BY DEF HandlePhase, At
<1>2. Top \in HandleSet
  BY <1>1, HandleTop
<1> DEFINE phase == IF Top.phase = 7 THEN 1 ELSE Top.phase + 1
           todo == ToReserve(State, phase)
           more == IF phase = 1 THEN FALSE ELSE Top.more
           fr == [Top EXCEPT !.at = "commit"]
           gr == [Top EXCEPT !.phase = phase, !.todo = todo, !.more = more]
<1>3. Goto(fr) \/ Goto(gr)
  BY <1>2 DEF HandlePhase, HandleSet
<1>4. fr.f # "reserve" /\ gr.f # "reserve"
  <2> HIDE DEF phase, todo, more
  <2> QED BY <1>2 DEF HandleSet
<1> HIDE DEF fr, gr
<1> QED BY <1>1, <1>3, <1>4, LessSame, GotoMoves, Others

(* Room is asked for.                                                      *)
LEMMA HandleReserveFits ==
  ASSUME Base, Fit, HandleReserve
  PROVE  Fit'
<1> DEFINE task == Head(Top.todo)
           add == IF task.slot = <<>> THEN task.add ELSE State.used[task.slot[1]][task.slot[2]].slots
           class == PhaseClass[Top.phase]
           none == <<>>
<1>1. frames # <<>> /\ Top.f = "handle" /\ UNCHANGED vecs /\ Top.at = "reserve" /\ Top.todo # <<>>
  BY DEF HandleReserve, At
<1>2. Top \in HandleSet
  BY <1>1, HandleTop
<1> DEFINE fr == [Top EXCEPT !.at = "boxed"]
           gr == [Top EXCEPT !.at = "reserved"]
           c == Alloc(SizeOfTable[class], Top.k, TRUE, TRUE)
           d == Reserve(task.v, add, none, Top.k, task.counted)
<1>3. Call(fr, c) \/ Call(gr, d)
  BY DEF HandleReserve
<1>4. fr.f # "reserve" /\ gr.f # "reserve"
  BY <1>2 DEF HandleSet
<1>5. Fresh(c)
  BY AllocFresh
<1>6. add \in Nat
  BY <1>1, TaskIs
<1>7. Fresh(d)
  <2>1. Len(none) = 0
    OBVIOUS
  <2> HIDE DEF add, none, task
  <2>2. Len(none) <= add
    BY <1>6, <2>1
  <2> QED BY <2>2, ReserveFresh
<1> HIDE DEF fr, gr, c, d
<1> QED BY <1>1, <1>3, <1>4, <1>5, <1>7, LessSame, CallMoves, Others

(* A chunk table is there.                                                 *)
LEMMA HandleBoxedFits ==
  ASSUME Base, Fit, HandleBoxed
  PROVE  Fit'
<1>1. frames # <<>> /\ Top.f = "handle"
  BY DEF HandleBoxed, At
<1>2. Top \in HandleSet
  BY <1>1, HandleTop
<1> DEFINE gr == [Top EXCEPT !.at = "reserve"]
<1>3. Panic \/ (Goto(gr) /\ UNCHANGED vecs)
  BY DEF HandleBoxed
<1>4. gr.f # "reserve"
  BY <1>2 DEF HandleSet
<1> HIDE DEF gr
<1> QED BY <1>1, <1>3, <1>4, PanicFits, LessSame, GotoMoves, Others

(* The room is there.                                                      *)
LEMMA HandleReservedFits ==
  ASSUME Base, Fit, HandleReserved
  PROVE  Fit'
<1>1. frames # <<>> /\ Top.f = "handle"
  BY DEF HandleReserved, At
<1>2. Top \in HandleSet
  BY <1>1, HandleTop
<1> DEFINE gr == [Top EXCEPT !.at = "reserve", !.todo = Tail(@), !.more = @ \/ ret.grew]
<1>3. Panic \/ (Goto(gr) /\ UNCHANGED vecs)
  BY DEF HandleReserved
<1>4. gr.f # "reserve"
  BY <1>2 DEF HandleSet
<1> HIDE DEF gr
<1> QED BY <1>1, <1>3, <1>4, PanicFits, LessSame, GotoMoves, Others

(* The commit writes what there is room for.                               *)
LEMMA HandleCommitFits ==
  ASSUME Base, Fit, RoomToCommit, HandleCommit
  PROVE  Fit'
<1>1. frames # <<>> /\ Top.f = "handle" /\ Top.at = "commit" /\ At("handle", "commit")
  BY DEF HandleCommit, At
<1>2. Top \in HandleSet /\ State \in StateSet /\ frames \in Seq(FrameSet)
  BY <1>1, HandleTop, TopIs
<1>3. CASE Panic
  BY <1>3, PanicFits
<1>4. CASE ~ Panic
  <2> DEFINE fr == [Top EXCEPT !.at = "dealloc"]
             td == Append(Top.to_dealloc, Head(Tail(chains[Top.k])).at)
             gr == [Top EXCEPT !.at = "reserve", !.phase = 0, !.to_dealloc = td]
  <2>1. /\ vecs' = [v \in Vectors |-> [vecs[v] EXCEPT !.items = @ \o Given(State, v)]]
        /\ Goto(fr) \/ Goto(gr)
    BY <1>2, <1>4 DEF HandleCommit, HandleSet
  <2>2. fr.f # "reserve" /\ gr.f # "reserve"
    <3> HIDE DEF td
    <3> QED BY <1>2 DEF HandleSet
  <2> HIDE DEF fr, gr
  <2>3. MovesOn(frames, frames')
    BY <2>1, <2>2, GotoMoves
  <2>4. ASSUME NEW v \in Vectors
        PROVE  vecs'[v].cap = vecs[v].cap /\ Len(vecs'[v].items) <= vecs'[v].cap
    <3>1. vecs[v] \in VecSet
      BY DEF Base, TypeOK, VecsOK
    <3>2. vecs[v].items \in Seq(Ptr) /\ Given(State, v) \in Seq(Ptr)
      BY <1>2, <3>1, GivenIs DEF VecSet
    <3> DEFINE items == vecs[v].items \o Given(State, v)
    <3>3. Len(items) = Size(v) + Len(Given(State, v))
      BY <3>2, ConcatIs DEF Size
    <3>4. vecs'[v] = [vecs[v] EXCEPT !.items = items]
      BY <2>1
    <3> HIDE DEF items
    <3>5. vecs'[v].cap = vecs[v].cap /\ vecs'[v].items = items
      BY <3>1, <3>4 DEF VecSet
    <3> QED BY <1>1, <3>3, <3>5 DEF RoomToCommit
  <2>5. SameCaps(vecs, vecs') /\ Fitting(vecs')
    BY <2>4 DEF SameCaps, Fitting
  <2>6. Capacities(frames', vecs')
    BY <1>1, <1>2, <2>3, <2>5, CapMoves DEF Fit
  <2> QED BY <2>5, <2>6 DEF Fit
<1> QED BY <1>3, <1>4

(* The memory of the States is given back.                                 *)
LEMMA HandleDeallocFits ==
  ASSUME Base, Fit, HandleDealloc
  PROVE  Fit'
<1>1. frames # <<>> /\ Top.f = "handle" /\ UNCHANGED vecs
  BY DEF HandleDealloc, At
<1>2. Top \in HandleSet
  BY <1>1, HandleTop
<1> DEFINE fr == [Top EXCEPT !.to_dealloc = Tail(@)]
           c == Dealloc(Head(Top.to_dealloc), SIZE_OF_STATE, 0)
<1>3. Call(fr, c) \/ Return(Nothing)
  BY DEF HandleDealloc
<1>4. fr.f # "reserve" /\ Fresh(c)
  BY <1>2, DealsFresh DEF HandleSet
<1> HIDE DEF fr, c
<1> QED BY <1>1, <1>3, <1>4, LessSame, CallMoves, ReturnMoves, Others

-----------------------------------------------------------------------------
(* The calls of the program.                                               *)
LEMMA TryAllocDoneFits ==
  ASSUME Base, Fit, TryAllocDone
  PROVE  Fit'
<1>1. frames # <<>> /\ UNCHANGED vecs /\ Return(Nothing)
  BY DEF TryAllocDone, At
<1> QED BY <1>1, LessSame, ReturnMoves, Others

(* A stack of one or two new calls.                                        *)
LEMMA CapBegin ==
  ASSUME NEW vs
  PROVE  /\ Capacities(<<>>, vs)
         /\ \A a : Fresh(a) => Capacities(<<a>>, vs)
         /\ \A a, b : a.f # "reserve" /\ Fresh(b) => Capacities(<<a, b>>, vs)
<1>1. Capacities(<<>>, vs)
  BY DEF Capacities
<1>2. ASSUME NEW a, Fresh(a) PROVE Capacities(<<a>>, vs)
  <2> DEFINE fs == <<a>>
  <2>1. Len(fs) = 1 /\ fs[1] = a
    OBVIOUS
  <2> HIDE DEF fs
  <2>2. CapOK(a, vs)
    BY <1>2, FreshHolds
  <2>3. Capacities(fs, vs)
    BY <2>1, <2>2 DEF Capacities
  <2> QED BY <2>3 DEF fs
<1>3. ASSUME NEW a, NEW b, a.f # "reserve", Fresh(b) PROVE Capacities(<<a, b>>, vs)
  <2> DEFINE fs == <<a, b>>
  <2>1. Len(fs) = 2 /\ fs[1] = a /\ fs[2] = b
    OBVIOUS
  <2> HIDE DEF fs
  <2>2. CapOK(a, vs) /\ CapOK(b, vs) /\ Holds(a, b)
    BY <1>3, FreshHolds DEF CapOK, Waits
  <2>3. Capacities(fs, vs)
    BY <2>1, <2>2 DEF Capacities
  <2> QED BY <2>3 DEF fs
<1> QED BY <1>1, <1>2, <1>3

(* The calls of the program leave room in the vectors.                     *)
LEMMA ProgramFits ==
  ASSUME Base, Fit, TryAlloc \/ DeallocLocal \/ DeallocNonLocal \/ TryFreeAllMemory
  PROVE  Fit'
<1>1. CASE TryAlloc
  <2>1. PICK size \in UserSizes :
          Begin(<<[f |-> "program", at |-> "alloc", size |-> size], Alloc(size, 0, TRUE, FALSE)>>)
    BY <1>1 DEF TryAlloc
  <2> DEFINE p == [f |-> "program", at |-> "alloc", size |-> size]
             c == Alloc(size, 0, TRUE, FALSE)
  <2>2. frames' = <<p, c>> /\ vecs' = vecs /\ p.f # "reserve" /\ Fresh(c)
    BY <1>1, <2>1, AllocFresh DEF TryAlloc, Begin
  <2> HIDE DEF p, c
  <2>3. Capacities(<<p, c>>, vecs)
    BY <2>2, CapBegin
  <2> QED BY <2>2, <2>3 DEF Fit
<1>2. CASE DeallocLocal
  <2>1. PICK x \in user : Begin(<<Dealloc(x.ptr, x.size, 0)>>)
    BY <1>2 DEF DeallocLocal
  <2> DEFINE c == Dealloc(x.ptr, x.size, 0)
  <2>2. frames' = <<c>> /\ vecs' = vecs /\ Fresh(c)
    BY <1>2, <2>1, DealsFresh DEF DeallocLocal, Begin
  <2> HIDE DEF c
  <2>3. Capacities(<<c>>, vecs)
    BY <2>2, CapBegin
  <2> QED BY <2>2, <2>3 DEF Fit
<1>3. CASE DeallocNonLocal
  <2> DEFINE c == Handle(1)
  <2>2. frames' = <<c>> /\ vecs' = vecs /\ Fresh(c)
    BY <1>3, HandleFresh DEF DeallocNonLocal, Begin
  <2> HIDE DEF c
  <2>3. Capacities(<<c>>, vecs)
    BY <2>2, CapBegin
  <2> QED BY <2>2, <2>3 DEF Fit
<1>4. CASE TryFreeAllMemory
  <2>1. frames' = <<>> /\ vecs' = [v \in Vectors |-> Null]
    BY <1>4 DEF TryFreeAllMemory, Begin
  <2>2. Fitting(vecs')
    BY <2>1 DEF Fitting, Null
  <2> QED BY <2>1, <2>2, CapBegin DEF Fit
<1> QED BY <1>1, <1>2, <1>3, <1>4

(* The vectors begin without elements.                                     *)
LEMMA FitInit == Init => Fit
<1> SUFFICES ASSUME Init PROVE Fit
  OBVIOUS
<1>1. frames = <<>> /\ vecs = [v \in Vectors |-> Null]
  BY DEF Init
<1>2. Fitting(vecs)
  BY <1>1 DEF Fitting, Null
<1> QED BY <1>1, <1>2, CapBegin DEF Fit

(* Every step keeps the elements within the capacities.                    *)
LEMMA NextFits ==
  ASSUME Base, Fit, RoomToCommit, [Next]_vars
  PROVE  Fit'
<1>1. CASE ReserveTest \/ ReserveGot \/ ReserveRetry \/ ReserveFreed
  BY <1>1, ReserveTestFits, ReserveGotFits, ReserveRetryFits, ReserveFreedFits
<1>2. CASE AllocPop \/ CheckNonLocalPtrs \/ AllocGetChunk \/ AllocSplit \/ AllocSplitDone
  BY <1>2, AllocPopFits, CheckNonLocalPtrsFits, AllocGetChunkFits, AllocSplitFits, AllocSplitDoneFits
<1>3. CASE AllocHave \/ AllocPushed \/ AllocCarved \/ SlowSelfAlloc \/ SlowSelfAllocHandled
  BY <1>3, AllocHaveFits, AllocPushedFits, AllocCarvedFits, SlowSelfAllocFits, SlowSelfAllocHandledFits
<1>4. CASE HandleNlpm \/ HandleInited \/ HandlePhase \/ HandleReserve
  BY <1>4, HandleNlpmFits, HandleInitedFits, HandlePhaseFits, HandleReserveFits
<1>5. CASE HandleBoxed \/ HandleReserved \/ HandleCommit \/ HandleDealloc
  BY <1>5, HandleBoxedFits, HandleReservedFits, HandleCommitFits, HandleDeallocFits
<1>6. CASE TryAllocDone \/ TryAlloc \/ DeallocLocal \/ DeallocNonLocal \/ TryFreeAllMemory
  BY <1>6, TryAllocDoneFits, ProgramFits
<1>7. CASE UNCHANGED vars
  BY <1>7 DEF vars, Fit
<1> QED BY <1>1, <1>2, <1>3, <1>4, <1>5, <1>6, <1>7 DEF Next, Step, Rest

-----------------------------------------------------------------------------
(* A handle_state that has grown everything has room for what it commits   *)

(* The sizes the allocator asks for itself.                                *)
AskedFor ==
  {SIZE_OF_NLPM} \union {SizeOfTable[c] : c \in Classes}
    \union (Sizes \intersect {RecommendedSize(NextPowerOfTwo(n)) : n \in Nat})

(* Of the chunks a State uses, at most one for each size has free slots.   *)
UsedFits(used, c) ==
  /\ \A i \in 1 .. Len(used) :
       Define(used[i].size) = c /\ used[i].size \in AskedFor \union {SIZE_OF_STATE}
  /\ \A i, j \in 1 .. Len(used) :
       used[i].size = used[j].size /\ used[i].slots # 0 /\ used[j].slots # 0 => i = j
StateFits(s) == \A c \in Classes : UsedFits(s.used[c], c)
ChainFits(chain) == \A i \in 1 .. Len(chain) : StateFits(chain[i])

(* No used chunk has free slots of a size.                                 *)
Shut(used, size) == \A j \in 1 .. Len(used) : used[j].size = size => used[j].slots = 0
NoneOpen(chain, size) == \A i \in 1 .. Len(chain) : Shut(chain[i].used[Define(size)], size)

(* What a function leaves as it is.                                        *)
Tame(chain, after, size) ==
  ChainFits(chain) /\ NoneOpen(chain, size) => ChainFits(after) /\ NoneOpen(after, size)

(* Used chunks stay as they are.                                           *)
LEMMA TameSame ==
  ASSUME NEW chain, NEW after, NEW size, size \in OwnSizes, Len(after) = Len(chain),
         \A i \in 1 .. Len(chain) : after[i].used = chain[i].used
  PROVE  Tame(chain, after, size) /\ (ChainFits(chain) => ChainFits(after))
<1>1. \A i \in 1 .. Len(chain) : StateFits(chain[i]) => StateFits(after[i])
  BY DEF StateFits
<1>2. ChainFits(chain) => ChainFits(after)
  BY <1>1 DEF ChainFits
<1>3. NoneOpen(chain, size) => NoneOpen(after, size)
  BY DEF NoneOpen
<1> QED BY <1>2, <1>3 DEF Tame

(* A chunk is taken from the free ones.                                    *)
LEMMA PopTame ==
  ASSUME NEW w, w \in WorkSet, NEW i, i \in 1 .. Len(w.chain), NEW class, class \in Classes,
         w.chain[i].free[class] # <<>>, NEW size, size \in OwnSizes
  PROVE  Tame(w.chain, PopChunk(w, i, class).chain, size)
<1> DEFINE s == w.chain[i]
           t == [s EXCEPT !.free[class] = Front(@)]
           x == PopChunk(w, i, class)
<1>1. s \in StateSet
  BY WorkIs
<1>2. t.used = s.used
  BY <1>1 DEF StateSet
<1>3. x.chain = [w.chain EXCEPT ![i] = t]
  BY DEF PopChunk, WorkSet
<1>4. t \in StateSet
  <2>1. s.free[class] \in Seq(Ptr) /\ s.free[class] # <<>>
    BY <1>1, StateIs
  <2>2. Front(s.free[class]) \in Seq(Ptr)
    BY <2>1, Ends
  <2> QED BY <1>1, <2>2 DEF StateSet
<1> HIDE DEF t, x
<1>5. /\ Len(x.chain) = Len(w.chain) /\ x.chain[i] = t
      /\ \A j \in 1 .. Len(w.chain) : j # i => x.chain[j] = w.chain[j]
  BY <1>3, <1>4, WorkIs, PutIs
<1>6. \A j \in 1 .. Len(w.chain) : x.chain[j].used = w.chain[j].used
  BY <1>2, <1>5
<1> QED BY <1>5, <1>6, TameSame DEF x

(* A slot is taken: there is one open chunk of a size at most.             *)
LEMMA UsedLess ==
  ASSUME NEW used, used \in Seq(UsedSet), NEW c, UsedFits(used, c),
         NEW j, j \in 1 .. Len(used), NEW v, v \in UsedSet,
         v.size = used[j].size, v.slots # 0 => used[j].slots # 0
  PROVE  UsedFits([used EXCEPT ![j] = v], c)
<1> DEFINE new == [used EXCEPT ![j] = v]
<1>1. /\ Len(new) = Len(used) /\ new[j] = v
      /\ \A i \in 1 .. Len(used) : i # j => new[i] = used[i]
  BY PutIs
<1> HIDE DEF new
<1>2. \A i \in 1 .. Len(used) : new[i].size = used[i].size /\ (new[i].slots # 0 => used[i].slots # 0)
  BY <1>1
<1> QED BY <1>1, <1>2 DEF UsedFits, new

(* One chunk more.                                                         *)
LEMMA UsedMore ==
  ASSUME NEW used, used \in Seq(UsedSet), NEW u, u \in UsedSet, UsedFits(used, Define(u.size)),
         u.size \in AskedFor \union {SIZE_OF_STATE}, Shut(used, u.size)
  PROVE  UsedFits(Append(used, u), Define(u.size))
<1> DEFINE new == Append(used, u)
           n == Len(used)
<1>1. /\ Len(new) = n + 1 /\ n \in Nat
      /\ \A i \in 1 .. n : new[i] = used[i]
      /\ new[n + 1] = u
  BY AppendIs, Indices
<1> HIDE DEF new, n
<1>2. \A i \in 1 .. n + 1 : i \in 1 .. n \/ i = n + 1
  BY <1>1
<1>3. \A i \in 1 .. n : used[i].size = u.size => used[i].slots = 0
  BY DEF Shut, n
<1>4. /\ \A i \in 1 .. n : Define(used[i].size) = Define(u.size)
                           /\ used[i].size \in AskedFor \union {SIZE_OF_STATE}
      /\ \A i, j \in 1 .. n :
           used[i].size = used[j].size /\ used[i].slots # 0 /\ used[j].slots # 0 => i = j
  BY DEF UsedFits, n
<1>5. ASSUME NEW i \in 1 .. n + 1
      PROVE  Define(new[i].size) = Define(u.size) /\ new[i].size \in AskedFor \union {SIZE_OF_STATE}
  BY <1>1, <1>2, <1>4
<1>6. ASSUME NEW i \in 1 .. n + 1, NEW j \in 1 .. n + 1,
             new[i].size = new[j].size, new[i].slots # 0, new[j].slots # 0
      PROVE  i = j
  BY <1>1, <1>2, <1>3, <1>4, <1>6
<1> QED BY <1>1, <1>5, <1>6 DEF UsedFits, new

(* try_alloc_size                                                          *)
LEMMA TryAllocTame ==
  ASSUME NEW w, w \in WorkSet, NEW size, size \in OwnSizes
  PROVE  /\ ChainFits(w.chain) => ChainFits(TryAllocSize(w, size).chain)
         /\ TryAllocSize(w, size).ptr = 0 => NoneOpen(w.chain, size)
         /\ \A z \in OwnSizes : z # size => Tame(w.chain, TryAllocSize(w, size).chain, z)
<1> DEFINE H == Hits(w.chain, size)
           x == TryAllocSize(w, size)
           c == Define(size)
<1>0. c \in Classes /\ size \in Nat
  BY PerChunkIs, Constants
<1>1. CASE H = {}
  <2>1. x = [w EXCEPT !.ptr = 0]
    BY <1>1 DEF TryAllocSize, TakeSlot
  <2> HIDE DEF x
  <2>2. x.chain = w.chain
    BY <2>1 DEF WorkSet
  <2>3. ASSUME NEW i \in 1 .. Len(w.chain), NEW j \in 1 .. Len(w.chain[i].used[c]),
               w.chain[i].used[c][j].size = size
        PROVE  w.chain[i].used[c][j].slots = 0
    <3> DEFINE h == <<i, j>>
    <3>1. w.chain[i].used[c] \in Seq(UsedSet)
      BY <1>0, WorkIs, StateIs
    <3>2. i \in DOMAIN w.chain /\ j \in DOMAIN w.chain[i].used[c]
      BY <3>1, WorkIs, Indices
    <3>3. h[1] = i /\ h[2] = j /\ h \in {i} \X DOMAIN w.chain[i].used[c]
      BY <3>2
    <3>4. h \in UNION {{k} \X DOMAIN w.chain[k].used[c] : k \in DOMAIN w.chain}
      BY <3>2, <3>3
    <3> HIDE DEF h
    <3>5. w.chain[h[1]].used[c][h[2]].slots # 0 => h \in H
      BY <2>3, <3>3, <3>4 DEF Hits
    <3> QED BY <1>1, <3>3, <3>5
  <2>4. NoneOpen(w.chain, size)
    BY <2>3 DEF NoneOpen, Shut
  <2> QED BY <2>2, <2>4 DEF x, Tame
<1>2. CASE H # {}
  <2> DEFINE h == CHOOSE h \in H : \A g \in H : h[1] < g[1] \/ (h[1] = g[1] /\ h[2] <= g[2])
             i == h[1]
             j == h[2]
             s == w.chain[i]
             u == s.used[c][j]
             v == [u EXCEPT !.slots = @ - 1]
             t == [s EXCEPT !.used[c] = [s.used[c] EXCEPT ![j] = v]]
             p == u.ptr + size * (u.slots - 1)
  <2>1. h \in H
    <3>1. \A g \in H : g[1] \in Nat /\ g[2] \in Nat
      BY HitsAre
    <3>2. \E g \in H : \A f \in H : g[1] < f[1] \/ (g[1] = f[1] /\ g[2] <= f[2])
      <4> HIDE DEF H
      <4> QED BY <3>1, <1>2, FirstPair, SMTT(40)
    <3> QED BY <3>2
  <2>2. x.chain = [w.chain EXCEPT ![i] = t] /\ x.ptr = p
    BY <1>2 DEF TryAllocSize, TakeSlot, WorkSet
  <2> HIDE DEF h, H, x
  <2>3. i \in 1 .. Len(w.chain) /\ j \in 1 .. Len(s.used[c]) /\ u \in UsedSet /\ u.slots # 0 /\ u.size = size
    <3>1. h \in Hits(w.chain, size)
      BY <2>1 DEF H
    <3>2. /\ h[1] \in 1 .. Len(w.chain)
          /\ h[2] \in 1 .. Len(w.chain[h[1]].used[Define(size)])
          /\ w.chain[h[1]].used[Define(size)][h[2]] \in UsedSet
          /\ w.chain[h[1]].used[Define(size)][h[2]].size = size
          /\ w.chain[h[1]].used[Define(size)][h[2]].slots # 0
      BY <3>1, HitsAre
    <3> QED BY <3>2, Zenon
  <2> HIDE DEF i, j, c, u
  <2>4. s \in StateSet /\ s.used[c] \in Seq(UsedSet)
    BY <2>3, <1>0, WorkIs, StateIs
  <2>5. v \in UsedSet /\ p # 0 /\ v.size = size
    <3>1. u.slots \in Nat \ {0} /\ u.ptr \in Nat \ {0}
      BY <2>3 DEF UsedSet, Ptr
    <3>2. u.slots - 1 \in Nat
      BY <3>1
    <3>3. size * (u.slots - 1) \in Nat
      BY <3>2, <1>0
    <3>4. p # 0
      BY <3>1, <3>3
    <3>5. v \in UsedSet /\ v.size = u.size
      BY <2>3, <3>2 DEF UsedSet
    <3> QED BY <2>3, <3>4, <3>5
  <2> DEFINE b == s.used[c]
             d == [b EXCEPT ![j] = v]
  <2>5a. u = b[j]
    BY DEF u
  <2> HIDE DEF v, p, s
  <2>6. d \in Seq(UsedSet) /\ Len(d) = Len(b) /\ d[j] = v
        /\ \A k \in 1 .. Len(b) : k # j => d[k] = b[k]
    BY <2>3, <2>4, <2>5, PutIs
  <2>7. t \in StateSet
    BY <2>4, <2>6, <1>0 DEF StateSet
  <2>8. t.used[c] = d /\ \A e \in Classes \ {c} : t.used[e] = s.used[e]
    BY <2>4, <1>0 DEF StateSet
  <2>8a. UsedFits(b, c) => UsedFits(d, c)
    <3> SUFFICES ASSUME UsedFits(b, c) PROVE UsedFits(d, c)
      OBVIOUS
    <3>1. b \in Seq(UsedSet) /\ j \in 1 .. Len(b) /\ v.size = b[j].size /\ b[j].slots # 0
      BY <2>3, <2>4, <2>5, <2>5a
    <3> HIDE DEF b
    <3> QED BY <3>1, <2>5, UsedLess
  <2> HIDE DEF t
  <2>9. StateFits(s) => StateFits(t)
    <3> HIDE DEF d
    <3> QED BY <2>8, <2>8a DEF StateFits
  <2>12. /\ Len(x.chain) = Len(w.chain) /\ x.chain[i] = t
         /\ \A k \in 1 .. Len(w.chain) : k # i => x.chain[k] = w.chain[k]
    BY <2>2, <2>3, <2>7, WorkIs, PutIs
  <2>13. ChainFits(w.chain) => ChainFits(x.chain)
    BY <2>9, <2>12 DEF ChainFits, s
  <2>14. ASSUME NEW z \in OwnSizes, z # size, NoneOpen(w.chain, z) PROVE NoneOpen(x.chain, z)
    <3>0. Shut(s.used[Define(z)], z) /\ Define(z) \in Classes
      BY <2>3, <2>14, PerChunkIs DEF NoneOpen, s
    <3>1. Shut(t.used[Define(z)], z)
      <4>1. CASE Define(z) = c
        <5>1. Shut(b, z)
          BY <3>0, <4>1
        <5>2. Shut(d, z)
          <6> HIDE DEF b, d
          <6> QED BY <5>1, <2>5, <2>6, <2>14 DEF Shut
        <5> QED BY <4>1, <5>2, <2>8
      <4>2. CASE Define(z) # c
        BY <3>0, <4>2, <2>8
      <4> QED BY <4>1, <4>2
    <3> QED BY <2>12, <2>14, <3>1 DEF NoneOpen
  <2>15. \A z \in OwnSizes : z # size => Tame(w.chain, x.chain, z)
    BY <2>13, <2>14 DEF Tame
  <2> QED BY <2>2, <2>5, <2>13, <2>15 DEF x
<1> QED BY <1>1, <1>2

(* A chunk in hand is recorded as used.                                    *)
LEMMA UseTame ==
  ASSUME NEW w, w \in WorkSet, w.owner \in 1 .. Len(w.chain), w.ptr \in Ptr,
         NEW size, size \in OwnSizes, size \in AskedFor \union {SIZE_OF_STATE}
  PROVE  /\ ChainFits(w.chain) /\ NoneOpen(w.chain, size) => ChainFits(UseChunk(w, size).chain)
         /\ \A z \in OwnSizes : z # size /\ NoneOpen(w.chain, z) => NoneOpen(UseChunk(w, size).chain, z)
<1> DEFINE i == w.owner
           c == Define(size)
           s == w.chain[i]
           b == s.used[c]
           u == [size |-> size, ptr |-> w.ptr, slots |-> PerChunk(size) - 1]
           t == [s EXCEPT !.used[c] = Append(@, u)]
           x == UseChunk(w, size)
<1>1. s \in StateSet /\ c \in Classes /\ b \in Seq(UsedSet)
  BY WorkIs, StateIs, PerChunkIs
<1>2. u \in UsedSet /\ u.size = size
  <2>1. PerChunk(size) - 1 \in Nat /\ size \in Nat
    BY PerChunkIs, Constants
  <2> QED BY <2>1 DEF UsedSet, Ptr
<1>7. i # 0 /\ i \in 1 .. Len(w.chain)
  BY WorkIs
<1>8. x.chain = [w.chain EXCEPT ![i] = t]
  BY <1>7 DEF UseChunk, WorkSet
<1> DEFINE d == Append(b, u)
<1> HIDE DEF u, x, i
<1>3. /\ d \in Seq(UsedSet) /\ Len(d) = Len(b) + 1 /\ Len(b) \in Nat
      /\ \A k \in 1 .. Len(b) : d[k] = b[k]
      /\ d[Len(b) + 1] = u
  <2> HIDE DEF b
  <2> QED BY <1>1, <1>2, AppendIs, Indices
<1>4. t \in StateSet /\ t.used[c] = d /\ \A e \in Classes \ {c} : t.used[e] = s.used[e]
  <2> HIDE DEF c
  <2> QED BY <1>1, <1>3 DEF StateSet
<1> HIDE DEF t
<1>11. /\ Len(x.chain) = Len(w.chain) /\ x.chain[i] = t
       /\ \A j \in 1 .. Len(w.chain) : j # i => x.chain[j] = w.chain[j]
  BY <1>4, <1>7, <1>8, WorkIs, PutIs
<1>12. ASSUME ChainFits(w.chain), NoneOpen(w.chain, size) PROVE ChainFits(x.chain)
  <2>1. StateFits(s) /\ Shut(b, size)
    BY <1>7, <1>12 DEF ChainFits, NoneOpen
  <2>2. UsedFits(b, Define(u.size)) /\ Shut(b, u.size) /\ u.size \in AskedFor \union {SIZE_OF_STATE}
    BY <1>1, <1>2, <2>1 DEF StateFits
  <2>3. UsedFits(d, Define(u.size))
    <3> HIDE DEF b
    <3> QED BY <1>1, <1>2, <2>2, UsedMore
  <2>4. UsedFits(d, c)
    BY <1>2, <2>3
  <2>5. StateFits(t)
    <3> HIDE DEF d, c, s
    <3> QED BY <2>1, <2>4, <1>4 DEF StateFits
  <2> QED BY <2>5, <1>11, <1>12 DEF ChainFits
<1>13. ASSUME NEW z \in OwnSizes, z # size, NoneOpen(w.chain, z) PROVE NoneOpen(x.chain, z)
  <2>0. Shut(s.used[Define(z)], z) /\ Define(z) \in Classes
    BY <1>7, <1>13, PerChunkIs DEF NoneOpen
  <2>1. Shut(t.used[Define(z)], z)
    <3>1. CASE Define(z) = c
      <4>1. Shut(b, z)
        BY <2>0, <3>1
      <4> DEFINE n == Len(b)
      <4>2. Shut(d, z)
        <5> HIDE DEF b, d
        <5>1. n \in Nat /\ Len(d) = n + 1 /\ (\A k \in 1 .. n : d[k] = b[k]) /\ d[n + 1] = u
          BY <1>3
        <5>2. \A k \in 1 .. n : b[k].size = z => b[k].slots = 0
          BY <4>1 DEF Shut
        <5> HIDE DEF n
        <5>3. \A k \in 1 .. n + 1 : k \in 1 .. n \/ k = n + 1
          BY <5>1
        <5> QED BY <5>1, <5>2, <5>3, <1>2, <1>13 DEF Shut
      <4> QED BY <3>1, <4>2, <1>4
    <3>2. CASE Define(z) # c
      BY <2>0, <3>2, <1>4
    <3> QED BY <3>1, <3>2
  <2> QED BY <1>11, <1>13, <2>1 DEF NoneOpen
<1> QED BY <1>12, <1>13 DEF x

(* A State has no used chunks at first.                                    *)
LEMMA NewFits ==
  ASSUME NEW s, \A c \in Classes : s.used[c] = <<>>
  PROVE  /\ StateFits(s)
         /\ \A z \in OwnSizes : Shut(s.used[Define(z)], z)
<1>1. \A c \in Classes : UsedFits(s.used[c], c)
  BY DEF UsedFits
<1>2. \A z \in OwnSizes : Define(z) \in Classes
  BY PerChunkIs
<1> QED BY <1>1, <1>2 DEF StateFits, Shut

(* A State in the memory of its own region uses a chunk for that.          *)
LEMMA InItselfTame ==
  ASSUME mapped \in Nat, dropped \subseteq DroppedSet, NEW region, region \in Ptr
  PROVE  /\ StateFits(InItself(FromRegion(region)).chain[1])
         /\ \A z \in OwnSizes : z # SIZE_OF_STATE =>
              Shut(InItself(FromRegion(region)).chain[1].used[Define(z)], z)
<1> DEFINE s == FromRegion(region)
           c == Define(SIZE_OF_STATE)
           w == Work(<<s>>)
           one == 1
           x == PopChunk(w, one, c)
           y == UseChunk(x, SIZE_OF_STATE)
<1>1. s \in StateSet /\ (\A d \in Classes : s.free[d] # <<>>) /\ \A d \in Classes : s.used[d] = <<>>
  BY FromRegionIs
<1>2. c \in Classes /\ SIZE_OF_STATE \in OwnSizes
  BY PerChunkIs, Constants
<1>9. y = InItself(FromRegion(region))
  BY DEF InItself
<1> HIDE DEF s, c
<1>3. w \in WorkSet /\ w.chain = <<s>>
  <2>1. <<s>> \in Seq(StateSet)
    BY <1>1
  <2> QED BY <2>1 DEF Work, WorkSet
<1>4. Len(w.chain) = 1 /\ w.chain[1] = s
  BY <1>3
<1> HIDE DEF w
<1>5. one \in 1 .. Len(w.chain) /\ w.chain[one].free[c] # <<>>
  BY <1>1, <1>2, <1>4
<1>5a. ChainFits(w.chain) /\ \A z \in OwnSizes : NoneOpen(w.chain, z)
  <2>1. \A i \in 1 .. Len(w.chain) : w.chain[i] = s
    BY <1>4
  <2> QED BY <2>1, <1>1, NewFits DEF ChainFits, NoneOpen
<1>6. x \in WorkSet /\ x.owner = one /\ x.ptr \in Ptr /\ Len(x.chain) = Len(w.chain)
  <2> HIDE DEF one
  <2> QED BY <1>2, <1>3, <1>5, PopChunkIs
<1>7. ChainFits(x.chain) /\ \A z \in OwnSizes : NoneOpen(x.chain, z)
  <2> HIDE DEF one
  <2>1. \A z \in OwnSizes : Tame(w.chain, x.chain, z)
    BY <1>2, <1>3, <1>5, PopTame
  <2> QED BY <1>2, <1>5a, <2>1 DEF Tame
<1> HIDE DEF x
<1>8. x.owner \in 1 .. Len(x.chain)
  BY <1>4, <1>6
<1>10. /\ ChainFits(y.chain)
       /\ \A z \in OwnSizes : z # SIZE_OF_STATE => NoneOpen(y.chain, z)
  BY <1>2, <1>6, <1>7, <1>8, UseTame
<1>11. Len(y.chain) = Len(x.chain)
  BY <1>2, <1>6, <1>8, UseChunkIs
<1>12. 1 \in 1 .. Len(y.chain)
  BY <1>11, <1>6, <1>4
<1> HIDE DEF y
<1> QED BY <1>9, <1>10, <1>12 DEF ChainFits, NoneOpen

(* One State more, which does not use chunks of a size.                    *)
LEMMA AppendTame ==
  ASSUME NEW chain, chain \in Seq(StateSet), NEW t, t \in StateSet, StateFits(t),
         NEW z, z \in OwnSizes, Shut(t.used[Define(z)], z)
  PROVE  Tame(chain, Append(chain, t), z) /\ (ChainFits(chain) => ChainFits(Append(chain, t)))
<1> DEFINE n == Len(chain)
           new == Append(chain, t)
<1>1. n \in Nat /\ Len(new) = n + 1 /\ (\A i \in 1 .. n : new[i] = chain[i]) /\ new[n + 1] = t
  BY AppendIs, Indices
<1> HIDE DEF new
<1>2. ChainFits(chain) => \A i \in 1 .. n : StateFits(chain[i])
  BY DEF ChainFits
<1>3. NoneOpen(chain, z) => \A i \in 1 .. n : Shut(chain[i].used[Define(z)], z)
  BY DEF NoneOpen
<1> HIDE DEF n
<1>4. \A k \in 1 .. n + 1 : k \in 1 .. n \/ k = n + 1
  BY <1>1
<1>5. ChainFits(chain) => ChainFits(new)
  BY <1>1, <1>2, <1>4 DEF ChainFits
<1>6. NoneOpen(chain, z) => NoneOpen(new, z)
  BY <1>1, <1>3, <1>4 DEF NoneOpen
<1> QED BY <1>5, <1>6 DEF Tame, new

(* alloc_new_state_in, when it may map a region.                           *)
LEMMA NewStateForTame ==
  ASSUME mapped \in Nat, dropped \subseteq DroppedSet, NEW region, region \in Ptr,
         NEW w, w \in WorkSet, NEW z, z \in OwnSizes, z # SIZE_OF_STATE
  PROVE  Tame(w.chain, NewStateFor(w, FromRegion(region)).chain, z)
<1> DEFINE s == FromRegion(region)
           i == InItself(s)
           y == TryAllocSize(w, SIZE_OF_STATE)
           t == IF y.ptr # 0 THEN [s EXCEPT !.at = y.ptr] ELSE [i.chain[1] EXCEPT !.at = i.ptr]
           x == PlaceState(s, i, y)
<1>1. s \in StateSet /\ \A c \in Classes : s.used[c] = <<>>
  BY FromRegionIs DEF Classes
<1>1a. SIZE_OF_STATE \in OwnSizes
  BY Constants
<1>2. i.ptr \in Ptr /\ i.chain[1] \in StateSet /\ StateFits(i.chain[1])
      /\ Shut(i.chain[1].used[Define(z)], z)
  BY InItselfIs, InItselfTame
<1>3. y \in WorkSet
  BY <1>1a, TryAllocIs
<1>4. y.ptr \in Nat /\ y.chain \in Seq(StateSet)
  BY <1>3, WorkIs
<1>4a. Tame(w.chain, y.chain, z)
  BY <1>1a, TryAllocTame
<1>11. NewStateFor(w, FromRegion(region)) = x
  BY DEF NewStateFor
<1> HIDE DEF s, i, y
<1>5. t \in StateSet /\ StateFits(t) /\ Shut(t.used[Define(z)], z)
  <2>1. CASE y.ptr # 0
    <3>1. t = [s EXCEPT !.at = y.ptr]
      BY <2>1
    <3> HIDE DEF t
    <3>2. t \in StateSet /\ t.used = s.used
      BY <3>1, <1>1, <1>4 DEF StateSet
    <3>3. \A c \in Classes : t.used[c] = <<>>
      BY <1>1, <3>2
    <3> QED BY <3>2, <3>3, NewFits
  <2>2. CASE y.ptr = 0
    <3>1. t = [i.chain[1] EXCEPT !.at = i.ptr]
      BY <2>2
    <3>2. i.ptr \in Nat
      BY <1>2 DEF Ptr
    <3> HIDE DEF t
    <3>3. t \in StateSet /\ t.used = i.chain[1].used
      BY <3>1, <3>2, <1>2 DEF StateSet
    <3> QED BY <3>3, <1>2 DEF StateFits
  <2> QED BY <2>1, <2>2
<1>6. x.chain = Append(y.chain, t)
  BY <1>3 DEF PlaceState, WorkSet
<1> HIDE DEF t, x
<1>7. Tame(y.chain, x.chain, z)
  BY <1>4, <1>5, <1>6, AppendTame
<1> QED BY <1>4a, <1>7, <1>11 DEF Tame

(* alloc_new_state_in                                                      *)
LEMMA AllocNewStateTame ==
  ASSUME World, NEW w, w \in WorkSet, NEW counted, NEW z, z \in OwnSizes, z # SIZE_OF_STATE
  PROVE  Tame(w.chain, AllocNewStateIn(w, counted).chain, z)
<1> DEFINE x == AllocNewStateIn(w, counted)
           r == RegionAt(w.mapped + 1)
<1>1. CASE MayMap(w.mapped, counted)
  <2>1. r \in Ptr
    <3>1. w.mapped \in Nat /\ REGION_SIZE \in Nat \ {0}
      BY WorkIs, Constants
    <3> QED BY <3>1 DEF RegionAt, Ptr
  <2>2. x = NewStateFor(w, FromRegion(r))
    BY <1>1 DEF AllocNewStateIn
  <2> HIDE DEF r, x
  <2>3. mapped \in Nat /\ dropped \subseteq DroppedSet
    BY DEF World
  <2>4. Tame(w.chain, x.chain, z)
    BY <2>1, <2>2, <2>3, NewStateForTame
  <2> QED BY <2>4 DEF x
<1>2. CASE ~ MayMap(w.mapped, counted)
  <2>1. x = [w EXCEPT !.owner = 0, !.ptr = 0]
    BY <1>2 DEF AllocNewStateIn
  <2> HIDE DEF x
  <2>2. x.chain = w.chain
    BY <2>1 DEF WorkSet
  <2> QED BY <2>2 DEF x, Tame
<1> QED BY <1>1, <1>2

(* get_free_large_chunk_                                                   *)
LEMMA GetLargeTame ==
  ASSUME World, NEW w, w \in WorkSet, NEW i, i \in Nat \ {0}, NEW counted, counted \in BOOLEAN,
         NEW z, z \in OwnSizes, z # SIZE_OF_STATE
  PROVE  Tame(w.chain, GetFreeLargeChunk(w, i, counted).chain, z)
<1> DEFINE j == FirstWith(w.chain, i, "large")
           a == AllocNewStateIn(w, counted)
           x == GetFreeLargeChunk(w, i, counted)
<1>0. "large" \in Classes /\ w.chain \in Seq(StateSet)
  BY WorkIs DEF Classes
<1>1. CASE j # 0
  <2>1. j \in 1 .. Len(w.chain) /\ w.chain[j].free["large"] # <<>>
    BY <1>0, <1>1, FirstWithIs
  <2>2. x = PopChunk(w, j, "large")
    BY <1>1 DEF GetFreeLargeChunk
  <2> HIDE DEF j, x
  <2>3. Tame(w.chain, x.chain, z)
    BY <2>1, <2>2, <1>0, PopTame
  <2> QED BY <2>3 DEF x
<1>2. CASE j = 0
  <2>1. x = PopFrom(a, "large")
    BY <1>2 DEF GetFreeLargeChunk
  <2> HIDE DEF x
  <2>2. /\ a \in WorkSet /\ Tame(w.chain, a.chain, z)
        /\ \/ a.owner \in 1 .. Len(a.chain) /\ a.chain[a.owner].free["large"] # <<>>
           \/ a.owner = 0
    BY AllocNewStateIs, AllocNewStateTame
  <2> HIDE DEF a, j
  <2>3. CASE a.owner = 0
    <3>1. x = a
      BY <2>1, <2>3 DEF PopFrom
    <3> QED BY <2>2, <3>1 DEF x
  <2>4. CASE a.owner # 0
    <3> DEFINE o == a.owner
    <3>1. x = PopChunk(a, o, "large")
      BY <2>1, <2>4 DEF PopFrom
    <3>2. o \in 1 .. Len(a.chain) /\ a.chain[o].free["large"] # <<>>
      BY <2>2, <2>4
    <3> HIDE DEF o
    <3>3. Tame(a.chain, x.chain, z)
      BY <2>2, <3>1, <3>2, <1>0, PopTame
    <3> QED BY <2>2, <3>3 DEF Tame, x
  <2> QED BY <2>3, <2>4
<1> QED BY <1>1, <1>2

(* Splitting a large chunk, or giving it up, uses no chunk.                *)
LEMMA SplitOrDropTame ==
  ASSUME NEW g, g \in WorkSet, g.owner \in 1 .. Len(g.chain), g.ptr \in Ptr,
         NEW z, z \in OwnSizes
  PROVE  Tame(g.chain, SplitOrDrop(g).chain, z)
<1> DEFINE i == g.owner
           s == g.chain[i]
           split == Stride(g.ptr, COMMON_CHUNK_SIZE, COMMON_CHUNKS_IN_LARGE_CHUNK)
           x == SplitOrDrop(g)
<1>0. "common" \in Classes /\ s \in StateSet
  BY WorkIs DEF Classes
<1>1. split \in Seq(Ptr)
  <2>1. COMMON_CHUNK_SIZE \in Nat /\ COMMON_CHUNKS_IN_LARGE_CHUNK \in Nat
    BY Constants
  <2> QED BY <2>1, StrideIs
<1> HIDE DEF split
<1>2. CASE s.free["common"] = <<>>
  <2> DEFINE t == [s EXCEPT !.free["common"] = split]
  <2>1. t \in StateSet /\ t.used = s.used
    BY <1>0, <1>1 DEF StateSet
  <2>4. x.chain = [g.chain EXCEPT ![i] = t]
    BY <1>2 DEF SplitOrDrop, WorkSet, split
  <2>5. i \in 1 .. Len(g.chain)
    OBVIOUS
  <2> HIDE DEF x, t, i
  <2>8. /\ Len(x.chain) = Len(g.chain) /\ x.chain[i] = t
        /\ \A j \in 1 .. Len(g.chain) : j # i => x.chain[j] = g.chain[j]
    BY <2>1, <2>4, <2>5, WorkIs, PutIs
  <2>9. \A j \in 1 .. Len(g.chain) : x.chain[j].used = g.chain[j].used
    BY <2>1, <2>8
  <2> QED BY <2>8, <2>9, TameSame DEF x
<1>3. CASE s.free["common"] # <<>>
  <2>2. x = [g EXCEPT !.dropped = g.dropped \union {[ptr |-> g.ptr, size |-> LARGE_CHUNK_SIZE]}]
    BY <1>3 DEF SplitOrDrop
  <2> HIDE DEF x
  <2>4. x.chain = g.chain
    BY <2>2 DEF WorkSet
  <2> QED BY <2>4 DEF x, Tame
<1> QED BY <1>2, <1>3

(* get_free_common_chunk                                                   *)
LEMMA GetCommonTame ==
  ASSUME World, NEW w, w \in WorkSet, w.chain # <<>>, NEW counted, counted \in BOOLEAN,
         NEW z, z \in OwnSizes, z # SIZE_OF_STATE
  PROVE  Tame(w.chain, GetFreeCommonChunk(w, counted).chain, z)
<1> DEFINE one == 1
           j == FirstWith(w.chain, one, "common")
           n == Len(w.chain)
           g == GetFreeLargeChunk(w, n, counted)
           x == GetFreeCommonChunk(w, counted)
<1>0. "common" \in Classes /\ w.chain \in Seq(StateSet) /\ n \in Nat \ {0} /\ one \in Nat \ {0}
  BY WorkIs, Indices DEF Classes
<1>1. CASE j # 0
  <2>1. x = PopChunk(w, j, "common")
    BY <1>1 DEF GetFreeCommonChunk
  <2> HIDE DEF one, x
  <2>2. j \in 1 .. Len(w.chain) /\ w.chain[j].free["common"] # <<>>
    BY <1>0, <1>1, FirstWithIs
  <2> HIDE DEF j
  <2>3. Tame(w.chain, x.chain, z)
    BY <2>1, <2>2, <1>0, PopTame
  <2> QED BY <2>3 DEF x
<1>2. CASE j = 0
  <2>1. x = GetBySplit(g)
    BY <1>2 DEF GetFreeCommonChunk
  <2> HIDE DEF x, n, j
  <2>2. Got(w, g, counted) /\ Tame(w.chain, g.chain, z)
    BY <1>0, GetLargeIs, GetLargeTame
  <2> HIDE DEF g
  <2>3. g \in WorkSet
    BY <2>2 DEF Got
  <2>4. CASE g.owner = 0
    <3>1. x = g
      BY <2>1, <2>4 DEF GetBySplit
    <3> QED BY <2>2, <3>1 DEF x
  <2>5. CASE g.owner # 0
    <3> DEFINE y == SplitOrDrop(g)
               o == y.owner
    <3>1. g.owner \in 1 .. Len(g.chain) /\ g.ptr \in Ptr
      BY <2>2, <2>5 DEF Got
    <3>2. /\ y \in WorkSet
          /\ y.owner = g.owner /\ Len(y.chain) = Len(g.chain)
          /\ y.chain[y.owner].free["common"] # <<>>
      BY <2>3, <3>1, SplitOrDropIs
    <3>2a. Tame(g.chain, y.chain, z)
      BY <2>3, <3>1, SplitOrDropTame
    <3>3. x = PopChunk(y, o, "common")
      BY <2>1, <2>5, <3>2 DEF GetBySplit, PopFrom
    <3> HIDE DEF y
    <3>4. o \in 1 .. Len(y.chain) /\ y.chain[o].free["common"] # <<>>
      BY <3>1, <3>2
    <3> HIDE DEF o
    <3>5. Tame(y.chain, x.chain, z)
      BY <3>2, <3>3, <3>4, <1>0, PopTame
    <3> QED BY <2>2, <3>2a, <3>5 DEF Tame, x
  <2> QED BY <2>4, <2>5
<1> QED BY <1>1, <1>2

(* alloc_size: a State never has two open chunks of a size.                *)
LEMMA AllocSizeFits ==
  ASSUME World, NEW w, w \in WorkSet, w.chain # <<>>, NEW size, size \in OwnSizes,
         size \in AskedFor, size # SIZE_OF_STATE, NEW counted, counted \in BOOLEAN, ChainFits(w.chain)
  PROVE  ChainFits(AllocSize(w, size, counted).chain)
<1> DEFINE y == TryAllocSize(w, size)
           x == AllocSize(w, size, counted)
<1>1. ChainFits(y.chain) /\ (y.ptr = 0 => NoneOpen(w.chain, size))
  BY TryAllocTame
<1>2. CASE y.ptr # 0
  <2>1. x = y
    BY <1>2 DEF AllocSize, OrSlow
  <2> HIDE DEF x, y
  <2> QED BY <1>1, <2>1 DEF x
<1>3. CASE y.ptr = 0
  <2> DEFINE one == 1
             g == IF Define(size) = "common" THEN GetFreeCommonChunk(w, counted)
                  ELSE GetFreeLargeChunk(w, one, counted)
  <2>1. x = UseChunk(g, size)
    BY <1>3 DEF AllocSize, OrSlow, AllocSizeSlow
  <2>2. one \in Nat \ {0}
    OBVIOUS
  <2> HIDE DEF x, one
  <2>3. Got(w, g, counted) /\ Tame(w.chain, g.chain, size)
    BY <2>2, GetCommonIs, GetLargeIs, GetCommonTame, GetLargeTame
  <2> HIDE DEF g
  <2>4. g \in WorkSet /\ ChainFits(g.chain) /\ NoneOpen(g.chain, size)
    BY <1>1, <1>3, <2>3 DEF Got, Tame
  <2>5. CASE g.owner = 0
    <3>1. x = g
      BY <2>1, <2>5 DEF UseChunk
    <3> QED BY <2>4, <3>1 DEF x
  <2>6. CASE g.owner # 0
    <3>1. g.owner \in 1 .. Len(g.chain) /\ g.ptr \in Ptr
      BY <2>3, <2>6 DEF Got
    <3>2. ChainFits(x.chain)
      BY <2>1, <2>4, <3>1, UseTame
    <3> QED BY <3>2 DEF x
  <2> QED BY <2>5, <2>6
<1> QED BY <1>1, <1>2, <1>3

(* The memory of a State is never put into the vectors of a size that the  *)
(* allocator asks for itself, and the sizes of common chunks end with a    *)
(* size that has a vector.                                                 *)
StatesApart == RecommendedSize(SIZE_OF_STATE) \notin AskedFor /\ COMMON_SIZE_MAX \in Sizes

(* The size an object really has is the least that is large enough.        *)
LEMMA RecommendedLeast ==
  ASSUME NEW size, size \in Nat \ {0}, NEW t, t \in Sizes, size <= t
  PROVE  RecommendedSize(size) <= t
<1>1. Sizes \subseteq Nat \ {0}
  BY SelfAllocAssumption
<1> DEFINE T == {s \in Sizes : s >= size}
<1>2. T \subseteq Nat /\ T # {} /\ t \in T
  BY <1>1
<1>3. \E x \in T : \A y \in T : x <= y
  <2> HIDE DEF T
  <2> QED BY <1>2, Least
<1>4. \E x \in Sizes : x >= size /\ \A y \in Sizes : y >= size => x <= y
  BY <1>3
<1>5. ~ (size = 0 \/ \A s \in Sizes : s < size)
  BY <1>1
<1> DEFINE r == CHOOSE s \in Sizes : s >= size /\ \A y \in Sizes : y >= size => s <= y
<1>6. \A y \in Sizes : y >= size => r <= y
  BY <1>4
<1>7. RecommendedSize(size) = r
  BY <1>5 DEF RecommendedSize
<1>8. t \in Nat /\ t >= size
  BY <1>1
<1> HIDE DEF r
<1> QED BY <1>6, <1>7, <1>8

(* A size that has a vector is its own.                                    *)
LEMMA RecommendedSame ==
  ASSUME NEW s, s \in Sizes
  PROVE  RecommendedSize(s) = s
<1>1. s \in Nat \ {0} /\ s <= s
  BY SelfAllocAssumption
<1>2. RecommendedSize(s) <= s /\ RecommendedSize(s) >= s /\ RecommendedSize(s) \in Nat
  BY <1>1, RecommendedIs, RecommendedLeast
<1> QED BY <1>1, <1>2

(* The chunks of a size have the class of its vector.                      *)
LEMMA RecommendedClass ==
  ASSUME StatesApart, NEW size, size \in OwnSizes
  PROVE  Define(RecommendedSize(size)) = Define(size)
<1>1. size \in Nat \ {0} /\ COMMON_SIZE_MAX \in Nat /\ COMMON_SIZE_MAX \in Sizes
  BY Constants DEF StatesApart
<1>2. RecommendedSize(size) \in Nat /\ RecommendedSize(size) >= size
  BY <1>1, RecommendedIs
<1>3. size <= COMMON_SIZE_MAX => RecommendedSize(size) <= COMMON_SIZE_MAX
  BY <1>1, RecommendedLeast
<1> QED BY <1>1, <1>2, <1>3 DEF Define

(* The sizes asked for have vectors.                                       *)
LEMMA AskedForIs == AskedFor \subseteq Sizes
  BY Constants DEF AskedFor

(* Different sizes that are used have different vectors.                   *)
LEMMA UsedApart ==
  ASSUME StatesApart, NEW x, x \in AskedFor \union {SIZE_OF_STATE},
         NEW y, y \in AskedFor \union {SIZE_OF_STATE}, RecommendedSize(x) = RecommendedSize(y)
  PROVE  x = y
<1>1. \A a \in AskedFor : RecommendedSize(a) = a
  BY AskedForIs, RecommendedSame
<1> QED BY <1>1 DEF StatesApart

(* A State's own size is not asked for.                                    *)
LEMMA StateNotAsked ==
  ASSUME StatesApart
  PROVE  SIZE_OF_STATE \notin AskedFor
  BY AskedForIs, RecommendedSame DEF StatesApart

(* The numbers of an array of counts are not 0.                            *)
NonZero(arr) == \A i \in DOMAIN arr : arr[i].number # 0

(* Counting one more chunk of a size keeps them so.                        *)
LEMMA WriteNonZero ==
  ASSUME NEW arr, Sorted(arr), NonZero(arr), NEW s, s \in Nat \ {0}
  PROVE  NonZero(WriteUsedNumberAndSize(arr, s, 1))
<1> DEFINE one == 1
           hit == BinarySearch(arr, s)
           new == WriteUsedNumberAndSize(arr, s, one)
<1>1. one \in Nat /\ one # 0 /\ s # 0
  OBVIOUS
<1> HIDE DEF one
<1>2. new = WriteAt(arr, hit, s, one)
  BY <1>1 DEF WriteUsedNumberAndSize
<1>3. Hit(arr, s, 1, Len(arr) + 1, hit)
  BY BinarySearchFinds
<1> HIDE DEF hit
<1>4. Written(arr, s, one, new)
  <2>1. hit.found = TRUE \/ hit.found = FALSE
    BY <1>3 DEF Hit
  <2> QED BY <1>1, <1>2, <1>3, <2>1, WriteFound, WriteNew
<1>5. FindSize(arr, s) \in Nat
  BY FindIs, SortedIs
<1> HIDE DEF new
<1>6. Sorted(new)
  BY <1>4 DEF Written
<1>7. ASSUME NEW j \in DOMAIN new PROVE new[j].number # 0
  <2>1. CASE new[j].size = s
    <3>1. PICK k \in DOMAIN new : new[k] = [number |-> FindSize(arr, s) + one, size |-> s]
      BY <1>4 DEF Written
    <3>2. FindSize(new, s) = new[k].number /\ FindSize(new, s) = new[j].number
      BY <2>1, <3>1, <1>6, FindIs
    <3>3. new[k].number # 0
      BY <3>1, <1>5, <1>1 DEF one
    <3> QED BY <3>2, <3>3
  <2>2. CASE new[j].size # s
    <3>1. PICK i \in DOMAIN arr : new[j] = arr[i]
      BY <2>2, <1>4 DEF Written
    <3> QED BY <3>1 DEF NonZero
  <2> QED BY <2>1, <2>2
<1> QED BY <1>7 DEF NonZero, new, one

(* A running count of the chunks of a size.                                *)
Running(g, used, z) ==
  /\ g[0] = 0
  /\ \A m \in 0 .. Len(used) : g[m] \in Nat
  /\ \A m \in 1 .. Len(used) : g[m] = g[m - 1] + IF used[m].size = z THEN 1 ELSE 0

(* count_all_common_used_chunks and count_all_large_used_chunks count each *)
(* chunk once, and no size for which there is none.                        *)
LEMMA CountsRunning ==
  ASSUME NEW used, used \in Seq(UsedSet), NEW z, z \in OwnSizes
  PROVE  /\ \E g : Running(g, used, z) /\ g[Len(used)] = FindSize(CountAllUsedChunks(used), z)
         /\ NonZero(CountAllUsedChunks(used))
<1> DEFINE f == CHOOSE h : Counting(h, used)
           n == Len(used)
<1>1. Counting(f, used)
  BY CountingExists
<1>2. CountAllUsedChunks(used) = f[n]
  BY DEF CountAllUsedChunks, CountUsedChunks, Counting
<1>3. n \in Nat /\ \A i \in 1 .. n : used[i] \in UsedSet
  BY Indices
<1>3a. z \in Nat /\ z # 0
  BY Constants
<1> HIDE DEF f, n
<1>4. ASSUME NEW i \in 0 .. n PROVE CountAt(f, used, i)
  BY <1>1, <1>4 DEF Counting, CountAt, n
<1>4a. f[0] = <<>>
  BY <1>3, <1>4 DEF CountAt, NewUsedObjects
<1>4b. ASSUME NEW m \in 1 .. n
       PROVE  /\ m - 1 \in 0 .. n /\ used[m].size \in Nat \ {0} /\ used[m].size \in OwnSizes
              /\ f[m] = WriteUsedNumberAndSize(f[m - 1], used[m].size, 1)
  <2>1. m \in 0 .. n /\ m # 0 /\ m - 1 \in 0 .. n
    BY <1>3
  <2>2. used[m].size \in OwnSizes
    BY <1>3 DEF UsedSet
  <2>3. CountAt(f, used, m)
    BY <2>1, <1>4
  <2> QED BY <2>1, <2>2, <2>3, Constants DEF CountAt
<1> DEFINE S == {m \in 0 .. n : Sorted(f[m]) /\ NonZero(f[m])}
<1>5. 0 \in S
  <2>2. Sorted(<<>>) /\ NonZero(<<>>)
    BY DEF NonZero, Sorted
  <2> QED BY <1>4a, <2>2, <1>3
<1>6. ASSUME NEW m \in 0 .. n, m + 1 <= n, m \in S PROVE m + 1 \in S
  <2>1. m \in Nat /\ m + 1 \in 0 .. n /\ m + 1 - 1 = m /\ m + 1 \in 1 .. n
    BY <1>3, <1>6
  <2> DEFINE s == used[m + 1].size
             one == 1
  <2>2. s \in Nat \ {0} /\ s \in Nat /\ one \in Nat
    BY <2>1, <1>4b
  <2>3. f[m + 1] = WriteUsedNumberAndSize(f[m], s, one)
    BY <1>4b, <2>1
  <2>4. Sorted(f[m]) /\ NonZero(f[m])
    BY <1>6
  <2>5. NonZero(f[m + 1])
    BY <2>2, <2>3, <2>4, WriteNonZero
  <2> HIDE DEF s, one
  <2>6. Sorted(f[m + 1])
    BY <2>2, <2>3, <2>4, WriteCounts
  <2> QED BY <2>1, <2>5, <2>6
<1>7. \A m \in 0 .. n : m \in S
  <2> HIDE DEF S
  <2> QED BY <1>3, <1>5, <1>6, UpTo
<1>8. \A m \in 0 .. n : Sorted(f[m]) /\ NonZero(f[m])
  BY <1>7
<1> DEFINE g == [m \in 0 .. n |-> FindSize(f[m], z)]
<1>9. g[0] = 0
  <2>1. FindSize(<<>>, z) = 0
    <3>1. Sorted(<<>>)
      BY DEF Sorted
    <3> QED BY <3>1, <1>3a, FindIs
  <2> QED BY <2>1, <1>3, <1>4a
<1>10. \A m \in 0 .. n : g[m] \in Nat
  BY <1>3a, <1>8, FindIs, SortedIs
<1>11. ASSUME NEW m \in 1 .. n PROVE g[m] = g[m - 1] + IF used[m].size = z THEN 1 ELSE 0
  <2> DEFINE s == used[m].size
             one == 1
  <2>1. m \in 0 .. n /\ m - 1 \in 0 .. n /\ s \in Nat /\ s # 0 /\ one \in Nat
    BY <1>3, <1>4b
  <2>2. f[m] = WriteUsedNumberAndSize(f[m - 1], s, one)
    BY <1>4b
  <2>3. Sorted(f[m - 1])
    BY <2>1, <1>8
  <2> HIDE DEF s, one
  <2>4. FindSize(f[m], z) = FindSize(f[m - 1], z) + IF z = s /\ s # 0 THEN one ELSE 0
    <3> DEFINE a == f[m - 1]
               b == f[m]
    <3>1. b = WriteUsedNumberAndSize(a, s, one) /\ Sorted(a)
      BY <2>2, <2>3
    <3> HIDE DEF a, b
    <3>2. \A t \in Nat : FindSize(b, t) = FindSize(a, t) + IF t = s /\ s # 0 THEN one ELSE 0
      BY <2>1, <3>1, WriteCounts
    <3> QED BY <3>2, <1>3a DEF a, b
  <2>5. g[m] = FindSize(f[m], z) /\ g[m - 1] = FindSize(f[m - 1], z)
    BY <2>1
  <2> HIDE DEF g
  <2>6. g[m] = g[m - 1] + IF z = s /\ s # 0 THEN 1 ELSE 0
    BY <2>4, <2>5 DEF one
  <2>7. CASE s = z
    BY <2>1, <2>6, <2>7 DEF s
  <2>8. CASE s # z
    BY <2>1, <2>6, <2>8 DEF s
  <2> QED BY <2>7, <2>8
<1>12. g[n] = FindSize(CountAllUsedChunks(used), z)
  BY <1>2, <1>3
<1> HIDE DEF g
<1>13. Running(g, used, z)
  BY <1>9, <1>10, <1>11 DEF Running, n
<1>14. NonZero(CountAllUsedChunks(used))
  BY <1>2, <1>3, <1>8
<1> QED BY <1>12, <1>13, <1>14 DEF n

(* How long FlattenSeq makes it.                                           *)
LEMMA FlattenLength ==
  ASSUME NEW S, NEW seqs, seqs \in Seq(Seq(S)), NEW g, g[0] = 0,
         \A m \in 0 .. Len(seqs) : g[m] \in Nat,
         \A m \in 1 .. Len(seqs) : g[m] >= g[m - 1] + Len(seqs[m])
  PROVE  Len(FlattenSeq(seqs)) <= g[Len(seqs)]
<1> DEFINE f == CHOOSE h : Flattening(h, seqs)
           n == Len(seqs)
<1>0. n \in Nat /\ \A i \in 1 .. n : seqs[i] \in Seq(S)
  BY Indices
<1>0a. /\ \A m \in 0 .. n : g[m] \in Nat
       /\ \A m \in 1 .. n : g[m] >= g[m - 1] + Len(seqs[m])
  OBVIOUS
<1>1. CASE n = 0
  <2>1. seqs = <<>>
    BY <1>1, Indices
  <2>2. FlattenSeq(seqs) = seqs
    BY <1>1 DEF FlattenSeq
  <2> QED BY <2>1, <2>2, <1>1
<1>2. CASE n # 0
  <2>1. Flattening(f, seqs)
    BY <1>2, FlatteningExists, Indices
  <2>2. FlattenSeq(seqs) = f[n]
    BY <1>2 DEF FlattenSeq, Flattening
  <2> HIDE DEF f, n
  <2>3. ASSUME NEW i \in 1 .. n PROVE FlattenAt(f, seqs, i)
    BY <2>1, <2>3 DEF Flattening, FlattenAt, n
  <2> DEFINE T == {m \in 0 .. n : m # 0 => f[m] \in Seq(S) /\ Len(f[m]) <= g[m]}
  <2>4. 0 \in T
    BY <1>0
  <2>5. ASSUME NEW m \in 0 .. n, m + 1 <= n, m \in T PROVE m + 1 \in T
    <3>1. m \in Nat /\ m + 1 \in 0 .. n /\ m + 1 - 1 = m /\ m + 1 \in 1 .. n /\ (m + 1 # 1 => m # 0)
          /\ (m + 1 = 1 => m = 0)
      BY <1>0, <2>5
    <3> DEFINE s == seqs[m + 1]
               l == Len(s)
    <3>2. s \in Seq(S)
      BY <1>0, <3>1
    <3>2a. l \in Nat
      BY <3>2, Indices
    <3>2b. g[m + 1] >= g[m] + l /\ g[m] \in Nat /\ g[m + 1] \in Nat
      BY <3>1, <1>0a
    <3>3. f[m + 1] = IF m + 1 = 1 THEN s ELSE f[m] \o s
      BY <2>3, <3>1 DEF FlattenAt
    <3>4. m + 1 # 1 => f[m] \in Seq(S) /\ Len(f[m]) <= g[m]
      BY <2>5, <3>1
    <3> HIDE DEF s
    <3>5. CASE m + 1 = 1
      <4>1. f[m + 1] = s
        BY <3>3, <3>5
      <4>2. l <= g[m + 1]
        <5> HIDE DEF l
        <5> QED BY <3>2a, <3>2b
      <4> QED BY <3>1, <3>2, <4>1, <4>2
    <3>6. CASE m + 1 # 1
      <4> DEFINE k == Len(f[m])
      <4>1. f[m] \in Seq(S) /\ k <= g[m] /\ f[m + 1] = f[m] \o s
        BY <3>3, <3>4, <3>6
      <4>2. k \in Nat /\ f[m + 1] \in Seq(S) /\ Len(f[m + 1]) = k + l
        BY <4>1, <3>2, ConcatIs, Indices
      <4>3. k + l <= g[m + 1]
        <5> HIDE DEF l, k
        <5> QED BY <3>2a, <3>2b, <4>1, <4>2
      <4> QED BY <3>1, <4>2, <4>3
    <3> QED BY <3>5, <3>6
  <2>6. n \in T
    <3> HIDE DEF T
    <3>1. \A m \in 0 .. n : m \in T
      BY <1>0, <2>4, <2>5, UpTo
    <3> QED BY <3>1, <1>0
  <2> QED BY <1>2, <2>2, <2>6 DEF n
<1> QED BY <1>1, <1>2

(* What a task asks for, and that there is room for it.                    *)
AddOf(task, state) ==
  IF task.slot = <<>> THEN task.add ELSE state.used[task.slot[1]][task.slot[2]].slots
Roomy(task, state, vs) == Len(vs[task.v].items) + AddOf(task, state) <= vs[task.v].cap

(* The sizes that are counted are sizes of chunks.                         *)
LEMMA CountsWithin ==
  ASSUME NEW used, used \in Seq(UsedSet), NEW Z, \A i \in 1 .. Len(used) : used[i].size \in Z
  PROVE  \A j \in DOMAIN CountAllUsedChunks(used) : CountAllUsedChunks(used)[j].size \in Z
<1> DEFINE f == CHOOSE h : Counting(h, used)
           n == Len(used)
           Within(arr) == \A j \in DOMAIN arr : arr[j].size \in Z
<1>1. Counting(f, used)
  BY CountingExists
<1>2. CountAllUsedChunks(used) = f[n]
  BY DEF CountAllUsedChunks, CountUsedChunks, Counting
<1>3. n \in Nat /\ \A i \in 1 .. n : used[i] \in UsedSet /\ used[i].size \in Z
  BY Indices
<1> HIDE DEF f, n
<1>4. ASSUME NEW i \in 0 .. n PROVE CountAt(f, used, i)
  BY <1>1, <1>4 DEF Counting, CountAt, n
<1>4a. f[0] = <<>>
  BY <1>3, <1>4 DEF CountAt, NewUsedObjects
<1> DEFINE S == {m \in 0 .. n : Sorted(f[m]) /\ Within(f[m])}
<1>5. 0 \in S
  <2>2. Sorted(<<>>) /\ Within(<<>>)
    BY DEF Sorted
  <2> QED BY <1>4a, <2>2, <1>3
<1>6. ASSUME NEW m \in 0 .. n, m + 1 <= n, m \in S PROVE m + 1 \in S
  <2>1. m \in Nat /\ m + 1 \in 0 .. n /\ m + 1 - 1 = m /\ m + 1 \in 1 .. n /\ m + 1 # 0
    BY <1>3, <1>6
  <2> DEFINE s == used[m + 1].size
             one == 1
             a == f[m]
             b == f[m + 1]
             hit == BinarySearch(a, s)
  <2>2. s \in Nat /\ s # 0 /\ one \in Nat /\ one # 0 /\ s \in Z
    <3>1. s \in OwnSizes /\ s \in Z
      BY <2>1, <1>3 DEF UsedSet
    <3>2. one \in Nat /\ one # 0
      OBVIOUS
    <3> HIDE DEF s, one
    <3>3. s \in Nat /\ s # 0
      BY <3>1, Constants
    <3> QED BY <3>1, <3>2, <3>3
  <2>3. b = WriteUsedNumberAndSize(a, s, one)
    BY <1>4, <2>1 DEF CountAt
  <2>4. Sorted(a) /\ Within(a)
    BY <1>6
  <2> HIDE DEF s, one, a, b
  <2>5. b = WriteAt(a, hit, s, one)
    BY <2>2, <2>3 DEF WriteUsedNumberAndSize
  <2>6. Hit(a, s, 1, Len(a) + 1, hit)
    BY <2>2, <2>4, BinarySearchFinds
  <2> HIDE DEF hit
  <2>7. Written(a, s, one, b)
    <3>1. hit.found = TRUE \/ hit.found = FALSE
      BY <2>6 DEF Hit
    <3> QED BY <2>2, <2>4, <2>5, <2>6, <3>1, WriteFound, WriteNew
  <2>8. Sorted(b) /\ Within(b)
    <3>1. \A j \in DOMAIN b : b[j].size = s \/ \E i \in DOMAIN a : b[j] = a[i]
      BY <2>7 DEF Written
    <3> QED BY <2>2, <2>4, <2>7, <3>1 DEF Written
  <2>9. Sorted(f[m + 1]) /\ Within(f[m + 1])
    BY <2>8 DEF b
  <2> QED BY <2>1, <2>9
<1>7. \A m \in 0 .. n : m \in S
  <2> HIDE DEF S
  <2> QED BY <1>3, <1>5, <1>6, UpTo
<1>8. Within(f[n])
  BY <1>3, <1>7
<1> QED BY <1>2, <1>8

(* The tasks for the free slots of the used chunks.                        *)
LEMMA SlotTasks ==
  ASSUME NEW state, state \in StateSet, NEW q, q \in {1, 2}
  PROVE  /\ Len(ToReserve(state, q)) = Len(state.used[PhaseClass[q]])
         /\ \A i \in 1 .. Len(state.used[PhaseClass[q]]) :
              /\ ToReserve(state, q)[i].v = Objects(RecommendedSize(state.used[PhaseClass[q]][i].size))
              /\ AddOf(ToReserve(state, q)[i], state) = state.used[PhaseClass[q]][i].slots
<1> DEFINE c == PhaseClass[q]
           used == state.used[c]
           n == Len(used)
           todo == ToReserve(state, q)
           task(i) == [v |-> Objects(RecommendedSize(used[i].size)), slot |-> <<c, i>>,
                       add |-> 0, counted |-> FALSE]
<1>1. todo = [i \in DOMAIN used |-> task(i)]
  BY DEF ToReserve
<1>2. c \in Classes
  BY DEF PhaseClass, Classes
<1>3. used \in Seq(UsedSet)
  BY <1>2, StateIs
<1> HIDE DEF c, todo
<1>4. n \in Nat /\ DOMAIN used = 1 .. n
  BY <1>3, Indices
<1> HIDE DEF n
<1>5. DOMAIN todo = 1 .. n /\ todo \in [1 .. n -> {task(i) : i \in 1 .. n}]
  BY <1>1, <1>4
<1>6. Len(todo) = n
  BY <1>4, <1>5, MapIs
<1>7. ASSUME NEW i \in 1 .. n
      PROVE  todo[i].v = Objects(RecommendedSize(used[i].size)) /\ AddOf(todo[i], state) = used[i].slots
  <2>1. todo[i] = task(i)
    BY <1>1, <1>4
  <2> DEFINE slot == <<c, i>>
  <2>2. slot # <<>> /\ slot[1] = c /\ slot[2] = i
    OBVIOUS
  <2>3. todo[i].slot = slot /\ todo[i].v = Objects(RecommendedSize(used[i].size))
    BY <2>1
  <2> HIDE DEF slot
  <2> QED BY <2>2, <2>3 DEF AddOf
<1> QED BY <1>6, <1>7 DEF n, c, todo

(* The tasks for the used chunks.                                          *)
LEMMA ChunkTasks ==
  ASSUME NEW state, state \in StateSet, NEW q, q \in {3, 4}
  PROVE  LET arr == CountAllUsedChunks(state.used[PhaseClass[q]]) IN
         /\ Len(ToReserve(state, q)) = Len(arr)
         /\ \A i \in 1 .. Len(arr) :
              /\ ToReserve(state, q)[i].v = Chunks(RecommendedSize(arr[i].size))
              /\ ToReserve(state, q)[i].slot = <<>>
              /\ ToReserve(state, q)[i].add = arr[i].number
<1> DEFINE c == PhaseClass[q]
           used == state.used[c]
           arr == CountAllUsedChunks(used)
           n == Len(arr)
           todo == ToReserve(state, q)
           task(i) == [v |-> Chunks(RecommendedSize(arr[i].size)), slot |-> <<>>,
                       add |-> arr[i].number, counted |-> TRUE]
<1>1. todo = [i \in DOMAIN arr |-> task(i)]
  BY DEF ToReserve
<1>2. c \in Classes
  BY DEF PhaseClass, Classes
<1>3. Counts(arr)
  BY <1>2, StateIs, CountIs
<1> HIDE DEF c, todo, arr
<1>4. n \in Nat /\ DOMAIN arr = 1 .. n
  BY <1>3, SortedIs DEF Counts
<1> HIDE DEF n
<1>5. DOMAIN todo = 1 .. n /\ todo \in [1 .. n -> {task(i) : i \in 1 .. n}]
  BY <1>1, <1>4
<1>6. Len(todo) = n
  BY <1>4, <1>5, MapIs
<1>7. ASSUME NEW i \in 1 .. n
      PROVE  /\ todo[i].v = Chunks(RecommendedSize(arr[i].size))
             /\ todo[i].slot = <<>> /\ todo[i].add = arr[i].number
  <2>1. todo[i] = task(i)
    BY <1>1, <1>4
  <2> QED BY <2>1
<1> QED BY <1>6, <1>7 DEF n, arr, c, todo

(* The tasks for the region and the free chunks.                           *)
LEMMA FreeTasks ==
  ASSUME NEW state
  PROVE  /\ ToReserve(state, 5) = <<[v |-> Regions, slot |-> <<>>, add |-> 1, counted |-> FALSE]>>
         /\ ToReserve(state, 6) = <<[v |-> FreeChunks("large"), slot |-> <<>>,
                                     add |-> Len(state.free["large"]), counted |-> FALSE]>>
         /\ ToReserve(state, 7) = <<[v |-> FreeChunks("common"), slot |-> <<>>,
                                     add |-> Len(state.free["common"]), counted |-> FALSE]>>
<1>1. ToReserve(state, 5) = <<[v |-> Regions, slot |-> <<>>, add |-> 1, counted |-> FALSE]>>
  <2> DEFINE t == <<[v |-> Regions, slot |-> <<>>, add |-> 1, counted |-> FALSE]>>
             five == 5
  <2> HIDE DEF t, five
  <2>1. five \notin {1, 2} /\ five \notin {3, 4} /\ five = 5 /\ five # 6 /\ five # 7
    BY DEF five
  <2>2. ToReserve(state, five) = CASE five \in {1, 2} -> 1 [] five = 5 -> t
    BY <2>1 DEF ToReserve, t
  <2>3. ToReserve(state, five) = t
    BY <2>1, <2>2
  <2> QED BY <2>3 DEF t, five
<1>2. ToReserve(state, 6) = <<[v |-> FreeChunks("large"), slot |-> <<>>,
                               add |-> Len(state.free["large"]), counted |-> FALSE]>>
  <2> DEFINE t == <<[v |-> FreeChunks("large"), slot |-> <<>>, add |-> Len(state.free["large"]),
                     counted |-> FALSE]>>
             six == 6
  <2> HIDE DEF t, six
  <2>1. six \notin {1, 2} /\ six \notin {3, 4} /\ six = 6 /\ six # 5 /\ six # 7
    BY DEF six
  <2>2. ToReserve(state, six) = CASE six \in {1, 2} -> 1 [] six = 6 -> t
    BY <2>1 DEF ToReserve, t
  <2>3. ToReserve(state, six) = t
    BY <2>1, <2>2
  <2> QED BY <2>3 DEF t, six
<1>3. ToReserve(state, 7) = <<[v |-> FreeChunks("common"), slot |-> <<>>,
                               add |-> Len(state.free["common"]), counted |-> FALSE]>>
  <2> DEFINE t == <<[v |-> FreeChunks("common"), slot |-> <<>>, add |-> Len(state.free["common"]),
                     counted |-> FALSE]>>
             seven == 7
  <2> HIDE DEF t, seven
  <2>1. seven \notin {1, 2} /\ seven \notin {3, 4} /\ seven = 7 /\ seven # 5 /\ seven # 6
    BY DEF seven
  <2>2. ToReserve(state, seven) = CASE seven \in {1, 2} -> 1 [] seven = 7 -> t
    BY <2>1 DEF ToReserve, t
  <2>3. ToReserve(state, seven) = t
    BY <2>1, <2>2
  <2> QED BY <2>3 DEF t, seven
<1> QED BY <1>1, <1>2, <1>3

(* Every task of a pass has the room it asks for.                          *)
AllRoomy(state, vs) ==
  \A q \in 1 .. 7 : \A n \in 1 .. Len(ToReserve(state, q)) : Roomy(ToReserve(state, q)[n], state, vs)
UsedOf(state) == state.used["common"] \o state.used["large"]

(* The used chunks of both classes, one after the other.                   *)
LEMMA UsedOfIs ==
  ASSUME NEW state, state \in StateSet
  PROVE  /\ UsedOf(state) \in Seq(UsedSet)
         /\ Len(UsedOf(state)) = Len(state.used["common"]) + Len(state.used["large"])
         /\ Len(state.used["common"]) \in Nat /\ Len(state.used["large"]) \in Nat
         /\ \A i \in 1 .. Len(state.used["common"]) : UsedOf(state)[i] = state.used["common"][i]
         /\ \A i \in 1 .. Len(state.used["large"]) :
              UsedOf(state)[Len(state.used["common"]) + i] = state.used["large"][i]
<1>1. state.used["common"] \in Seq(UsedSet) /\ state.used["large"] \in Seq(UsedSet)
  BY StateIs DEF Classes
<1> DEFINE a == state.used["common"]
           b == state.used["large"]
<1> HIDE DEF a, b
<1>2. a \in Seq(UsedSet) /\ b \in Seq(UsedSet)
  BY <1>1 DEF a, b
<1>3. /\ a \o b \in Seq(UsedSet) /\ Len(a \o b) = Len(a) + Len(b) /\ Len(a) \in Nat /\ Len(b) \in Nat
      /\ \A i \in 1 .. Len(a) : (a \o b)[i] = a[i]
      /\ \A i \in 1 .. Len(b) : (a \o b)[Len(a) + i] = b[i]
  BY <1>2, ConcatIs, Indices
<1>4. UsedOf(state) = a \o b
  BY DEF UsedOf, a, b
<1> QED BY <1>3, <1>4 DEF a, b

(* Each of them is one of its class.                                       *)
LEMMA UsedPlace ==
  ASSUME NEW state, state \in StateSet, NEW i, i \in 1 .. Len(UsedOf(state))
  PROVE  \/ /\ i \in 1 .. Len(state.used["common"])
            /\ UsedOf(state)[i] = state.used["common"][i]
         \/ /\ i - Len(state.used["common"]) \in 1 .. Len(state.used["large"])
            /\ UsedOf(state)[i] = state.used["large"][i - Len(state.used["common"])]
<1> DEFINE a == Len(state.used["common"])
           b == Len(state.used["large"])
           used == UsedOf(state)
<1>1. /\ Len(used) = a + b /\ a \in Nat /\ b \in Nat
      /\ \A j \in 1 .. a : used[j] = state.used["common"][j]
      /\ \A j \in 1 .. b : used[a + j] = state.used["large"][j]
  BY UsedOfIs
<1>2. i \in 1 .. a + b
  BY <1>1
<1> HIDE DEF a, b, used
<1>3. CASE i <= a
  <2>1. i \in 1 .. a
    BY <1>1, <1>2, <1>3
  <2> QED BY <2>1, <1>1 DEF a, used
<1>4. CASE ~ (i <= a)
  <2> DEFINE j == i - a
  <2>1. j \in 1 .. b /\ a + j = i
    BY <1>1, <1>2, <1>4
  <2> HIDE DEF j
  <2>2. used[i] = state.used["large"][j]
    BY <2>1, <1>1
  <2> QED BY <2>1, <2>2 DEF j, a, b, used
<1> QED BY <1>3, <1>4

(* What is given to the vectors of a size.                                 *)
LEMMA GivenBySize ==
  ASSUME NEW state, state \in StateSet, NEW z, z \in Sizes,
         NEW g, g[0] = 0, \A m \in 0 .. Len(UsedOf(state)) : g[m] \in Nat
  PROVE  LET used == UsedOf(state)
             n == Len(used)
         IN /\ (\A m \in 1 .. n : g[m] >= g[m - 1]
                    + IF RecommendedSize(used[m].size) = z THEN used[m].slots ELSE 0)
                 => Len(Given(state, Objects(z))) <= g[n]
            /\ (\A m \in 1 .. n : g[m] >= g[m - 1] + IF RecommendedSize(used[m].size) = z THEN 1 ELSE 0)
                 => Len(Given(state, Chunks(z))) <= g[n]
<1> DEFINE used == UsedOf(state)
           n == Len(used)
           each(give) == [i \in 1 .. n |-> IF RecommendedSize(used[i].size) = z THEN give[i] ELSE <<>>]
           all(give) == [i \in DOMAIN used |-> IF RecommendedSize(used[i].size) = z THEN give[i] ELSE <<>>]
           objects == [i \in 1 .. n |-> Stride(used[i].ptr, used[i].size, used[i].slots)]
           chunks == [i \in 1 .. n |-> <<used[i].ptr>>]
           os == [i \in DOMAIN used |-> Stride(used[i].ptr, used[i].size, used[i].slots)]
           cs == [i \in DOMAIN used |-> <<used[i].ptr>>]
<1>1. Objects(z)[1] = "objects" /\ Objects(z)[2] = z /\ Chunks(z)[1] = "chunks" /\ Chunks(z)[2] = z
  BY DEF Objects, Chunks
<1>1a. Objects(z) # Regions /\ Chunks(z) # Regions
  BY DEF Objects, Chunks, Regions
<1>2. Given(state, Objects(z)) = FlattenSeq(all(os))
  <2> DEFINE v == Objects(z)
  <2>1. v[1] = "objects" /\ v[2] = z /\ v # Regions
    BY <1>1, <1>1a, SMTT(40)
  <2> HIDE DEF v
  <2>2. Given(state, v) = FlattenSeq([i \in DOMAIN used |->
                             IF RecommendedSize(used[i].size) = v[2] THEN os[i] ELSE <<>>])
    BY <2>1 DEF Given, UsedOf
  <2> QED BY <2>1, <2>2 DEF v
<1>3. Given(state, Chunks(z)) = FlattenSeq(all(cs))
  <2> DEFINE v == Chunks(z)
  <2>1. v[1] = "chunks" /\ v[2] = z /\ v # Regions
    BY <1>1, <1>1a, SMTT(40)
  <2> HIDE DEF v
  <2>2. Given(state, v) = FlattenSeq([i \in DOMAIN used |->
                             IF RecommendedSize(used[i].size) = v[2] THEN cs[i] ELSE <<>>])
    BY <2>1 DEF Given, UsedOf
  <2> QED BY <2>1, <2>2 DEF v
<1>4. used \in Seq(UsedSet)
  BY UsedOfIs
<1> HIDE DEF used
<1>5. n \in Nat /\ DOMAIN used = 1 .. n /\ \A i \in 1 .. n : used[i] \in UsedSet
  BY <1>4, Indices
<1>6. \A m \in 0 .. n : g[m] \in Nat
  BY DEF used
<1> HIDE DEF n
<1>7. all(os) = each(objects) /\ all(cs) = each(chunks)
  BY <1>5
<1>8. ASSUME NEW give, \A i \in 1 .. n : give[i] \in Seq(Ptr),
             \A m \in 1 .. n : g[m] >= g[m - 1]
                + IF RecommendedSize(used[m].size) = z THEN Len(give[m]) ELSE 0
      PROVE  Len(FlattenSeq(each(give))) <= g[n]
  <2> DEFINE seqs == each(give)
  <2>1. <<>> \in Seq(Ptr) /\ Len(<<>>) = 0
    BY EmptySeq
  <2>2. seqs \in [1 .. n -> Seq(Ptr)]
    BY <1>8, <2>1
  <2>3. \A m \in 1 .. n : Len(seqs[m]) = IF RecommendedSize(used[m].size) = z THEN Len(give[m]) ELSE 0
    BY <2>1
  <2> HIDE DEF seqs, each
  <2>4. seqs \in Seq(Seq(Ptr)) /\ Len(seqs) = n
    BY <1>5, <2>2, MapIs
  <2>5. \A m \in 1 .. Len(seqs) : g[m] >= g[m - 1] + Len(seqs[m])
    BY <1>8, <2>3, <2>4
  <2>6. \A m \in 0 .. Len(seqs) : g[m] \in Nat
    BY <1>6, <2>4
  <2>7. Len(FlattenSeq(seqs)) <= g[Len(seqs)]
    BY <2>4, <2>5, <2>6, FlattenLength
  <2> QED BY <2>4, <2>7 DEF seqs
<1>9. ASSUME \A m \in 1 .. n : g[m] >= g[m - 1]
               + IF RecommendedSize(used[m].size) = z THEN used[m].slots ELSE 0
      PROVE  Len(Given(state, Objects(z))) <= g[n]
  <2>1. ASSUME NEW i \in 1 .. n PROVE objects[i] \in Seq(Ptr) /\ Len(objects[i]) = used[i].slots
    <3>1. used[i].ptr \in Ptr /\ used[i].size \in OwnSizes /\ used[i].slots \in Nat
      BY <1>5 DEF UsedSet
    <3>1a. used[i].size \in Nat
      BY <3>1, Constants
    <3> DEFINE st == Stride(used[i].ptr, used[i].size, used[i].slots)
    <3>2. st \in Seq(Ptr) /\ Len(st) = used[i].slots
      BY <3>1, <3>1a, StrideIs
    <3>3. objects[i] = st
      OBVIOUS
    <3> HIDE DEF st, objects
    <3> QED BY <3>2, <3>3
  <2> HIDE DEF objects, each
  <2>2. \A m \in 1 .. n : g[m] >= g[m - 1]
           + IF RecommendedSize(used[m].size) = z THEN Len(objects[m]) ELSE 0
    BY <1>9, <2>1
  <2>3. Len(FlattenSeq(each(objects))) <= g[n]
    BY <1>8, <2>1, <2>2
  <2> QED BY <1>2, <1>7, <2>3
<1>10. ASSUME \A m \in 1 .. n : g[m] >= g[m - 1] + IF RecommendedSize(used[m].size) = z THEN 1 ELSE 0
       PROVE  Len(Given(state, Chunks(z))) <= g[n]
  <2>1. ASSUME NEW i \in 1 .. n PROVE chunks[i] \in Seq(Ptr) /\ Len(chunks[i]) = 1
    <3>1. used[i].ptr \in Ptr
      BY <1>5 DEF UsedSet
    <3>2. chunks[i] = <<used[i].ptr>>
      OBVIOUS
    <3> HIDE DEF chunks
    <3> QED BY <3>1, <3>2
  <2> HIDE DEF chunks, each
  <2>2. \A m \in 1 .. n : g[m] >= g[m - 1]
           + IF RecommendedSize(used[m].size) = z THEN Len(chunks[m]) ELSE 0
    BY <1>10, <2>1
  <2>3. Len(FlattenSeq(each(chunks))) <= g[n]
    BY <1>8, <2>1, <2>2
  <2> QED BY <1>3, <1>7, <2>3
<1> QED BY <1>9, <1>10 DEF n, used

(* Of the chunks that give objects to one vector, one has free slots.      *)
LEMMA OneOpen ==
  ASSUME StatesApart, NEW state, state \in StateSet, StateFits(state),
         NEW i, i \in 1 .. Len(UsedOf(state)), NEW j, j \in 1 .. Len(UsedOf(state)),
         RecommendedSize(UsedOf(state)[i].size) = RecommendedSize(UsedOf(state)[j].size)
  PROVE  /\ UsedOf(state)[i].size = UsedOf(state)[j].size
         /\ UsedOf(state)[i].slots # 0 /\ UsedOf(state)[j].slots # 0 => i = j
<1> DEFINE a == state.used["common"]
           b == state.used["large"]
           n == Len(a)
           used == UsedOf(state)
           S == AskedFor \union {SIZE_OF_STATE}
<1>1. UsedFits(a, "common") /\ UsedFits(b, "large")
  BY DEF StateFits, Classes
<1>2. n \in Nat /\ Len(b) \in Nat
  BY UsedOfIs
<1>3. /\ (i \in 1 .. n /\ used[i] = a[i]) \/ (i - n \in 1 .. Len(b) /\ used[i] = b[i - n])
      /\ (j \in 1 .. n /\ used[j] = a[j]) \/ (j - n \in 1 .. Len(b) /\ used[j] = b[j - n])
  BY UsedPlace
<1>4. i \in Int /\ j \in Int
  BY UsedOfIs
<1> HIDE DEF a, b, used
<1>5. /\ \A k \in 1 .. n : Define(a[k].size) = "common" /\ a[k].size \in S
      /\ \A k \in 1 .. Len(b) : Define(b[k].size) = "large" /\ b[k].size \in S
      /\ \A k, l \in 1 .. n : a[k].size = a[l].size /\ a[k].slots # 0 /\ a[l].slots # 0 => k = l
      /\ \A k, l \in 1 .. Len(b) : b[k].size = b[l].size /\ b[k].slots # 0 /\ b[l].slots # 0 => k = l
  BY <1>1 DEF UsedFits
<1> HIDE DEF S, n
<1>6. used[i].size \in S /\ used[j].size \in S
  BY <1>3, <1>5
<1>7. used[i].size = used[j].size
  BY <1>6, UsedApart DEF used, S
<1>8. ASSUME used[i].slots # 0, used[j].slots # 0 PROVE i = j
  <2>1. CASE i \in 1 .. n /\ used[i] = a[i] /\ j \in 1 .. n /\ used[j] = a[j]
    BY <2>1, <1>5, <1>7, <1>8
  <2>2. CASE i - n \in 1 .. Len(b) /\ used[i] = b[i - n] /\ j - n \in 1 .. Len(b) /\ used[j] = b[j - n]
    <3>1. i - n = j - n
      BY <2>2, <1>5, <1>7, <1>8
    <3> QED BY <3>1, <1>2, <1>4
  <2>3. CASE i \in 1 .. n /\ used[i] = a[i] /\ j - n \in 1 .. Len(b) /\ used[j] = b[j - n]
    <3>1. Define(used[i].size) = "common" /\ Define(used[j].size) = "large"
      BY <2>3, <1>5
    <3> QED BY <3>1, <1>7
  <2>4. CASE j \in 1 .. n /\ used[j] = a[j] /\ i - n \in 1 .. Len(b) /\ used[i] = b[i - n]
    <3>1. Define(used[j].size) = "common" /\ Define(used[i].size) = "large"
      BY <2>4, <1>5
    <3> QED BY <3>1, <1>7
  <2> QED BY <1>3, <2>1, <2>2, <2>3, <2>4
<1> QED BY <1>7, <1>8 DEF used

(* A used chunk's free slots have room in their vector.                    *)
LEMMA SlotsRoomy ==
  ASSUME NEW state, state \in StateSet, NEW vs, AllRoomy(state, vs),
         NEW i, i \in 1 .. Len(UsedOf(state))
  PROVE  LET u == UsedOf(state)[i]
             v == Objects(RecommendedSize(u.size))
         IN Len(vs[v].items) + u.slots <= vs[v].cap
<1>1. ASSUME NEW q \in {1, 2}, NEW j \in 1 .. Len(state.used[PhaseClass[q]])
      PROVE  LET u == state.used[PhaseClass[q]][j]
                 v == Objects(RecommendedSize(u.size))
             IN Len(vs[v].items) + u.slots <= vs[v].cap
  <2> DEFINE todo == ToReserve(state, q)
             used == state.used[PhaseClass[q]]
  <2>1. /\ Len(todo) = Len(used)
        /\ todo[j].v = Objects(RecommendedSize(used[j].size))
        /\ AddOf(todo[j], state) = used[j].slots
    BY SlotTasks
  <2>2. q \in 1 .. 7 /\ j \in 1 .. Len(todo)
    BY <2>1
  <2>3. Roomy(todo[j], state, vs)
    BY <2>2 DEF AllRoomy
  <2> HIDE DEF todo
  <2> QED BY <2>1, <2>3 DEF Roomy
<1>2. PhaseClass[1] = "common" /\ PhaseClass[2] = "large"
  BY DEF PhaseClass
<1> DEFINE a == state.used["common"]
           b == state.used["large"]
           n == Len(a)
           u == UsedOf(state)[i]
<1>3. (i \in 1 .. n /\ u = a[i]) \/ (i - n \in 1 .. Len(b) /\ u = b[i - n])
  BY UsedPlace
<1> DEFINE Ok(w) == Len(vs[Objects(RecommendedSize(w.size))].items) + w.slots
                      <= vs[Objects(RecommendedSize(w.size))].cap
<1>4. (\A j \in 1 .. n : Ok(a[j])) /\ \A j \in 1 .. Len(b) : Ok(b[j])
  BY <1>1, <1>2
<1> HIDE DEF Ok, a, b, n
<1>5. Ok(u)
  BY <1>3, <1>4
<1> QED BY <1>5 DEF Ok

(* A commit has room for the objects ...                                   *)
LEMMA ObjectsRoomy ==
  ASSUME StatesApart, NEW state, state \in StateSet, StateFits(state),
         NEW vs, VecsOK(vs), Fitting(vs), AllRoomy(state, vs), NEW z, z \in Sizes
  PROVE  Len(vs[Objects(z)].items) + Len(Given(state, Objects(z))) <= vs[Objects(z)].cap
<1> DEFINE used == UsedOf(state)
           n == Len(used)
           v == Objects(z)
           l == Len(vs[v].items)
           cap == vs[v].cap
           len == Len(Given(state, v))
<1>1. n \in Nat /\ used \in Seq(UsedSet) /\ \A i \in 1 .. n : used[i].slots \in Nat
  <2>1. used \in Seq(UsedSet)
    BY UsedOfIs
  <2> HIDE DEF used
  <2>2. n \in Nat /\ \A i \in 1 .. n : used[i] \in UsedSet
    BY <2>1, Indices
  <2> QED BY <2>1, <2>2 DEF UsedSet
<1>2. v \in Vectors /\ len \in Nat /\ l \in Nat /\ cap \in Nat /\ l <= cap
  <2>1. v \in Vectors
    BY VectorsAre
  <2>2. vs[v] \in VecSet
    BY <2>1 DEF VecsOK
  <2>3. vs[v].items \in Seq(Ptr) /\ vs[v].cap \in Nat
    BY <2>2 DEF VecSet
  <2>4. Given(state, v) \in Seq(Ptr)
    BY <2>1, GivenIs
  <2> HIDE DEF v
  <2> QED BY <2>1, <2>3, <2>4, Indices DEF Fitting
<1>3. CASE \A i \in 1 .. n : RecommendedSize(used[i].size) = z => used[i].slots = 0
  <2> DEFINE g == [m \in 0 .. n |-> 0]
  <2>1. g[0] = 0 /\ (\A m \in 0 .. n : g[m] \in Nat) /\ g[n] = 0
    BY <1>1
  <2>2. \A m \in 1 .. n : g[m] = 0 /\ g[m - 1] = 0
    BY <1>1
  <2> HIDE DEF g
  <2>3. \A m \in 1 .. n : g[m] >= g[m - 1]
           + IF RecommendedSize(used[m].size) = z THEN used[m].slots ELSE 0
    BY <1>3, <2>2
  <2>4. len <= g[n]
    BY <2>1, <2>3, GivenBySize
  <2> HIDE DEF len, l, cap
  <2>5. l + len <= cap
    BY <2>1, <2>4, <1>2
  <2> QED BY <2>5 DEF l, len, cap
<1>4. CASE \E i \in 1 .. n : RecommendedSize(used[i].size) = z /\ used[i].slots # 0
  <2>1. PICK i \in 1 .. n : RecommendedSize(used[i].size) = z /\ used[i].slots # 0
    BY <1>4
  <2> DEFINE s == used[i].slots
             g == [m \in 0 .. n |-> IF m >= i THEN s ELSE 0]
  <2>2. l + s <= cap
    BY <2>1, SlotsRoomy
  <2>2a. s \in Nat
    BY <1>1
  <2>3. ASSUME NEW m \in 1 .. n, m # i, RecommendedSize(used[m].size) = z PROVE used[m].slots = 0
    BY <2>1, <2>3, OneOpen
  <2>4. g[0] = 0 /\ (\A m \in 0 .. n : g[m] \in Nat) /\ g[n] = s
    <3> HIDE DEF s
    <3>1. i \in Nat /\ i # 0 /\ n >= i
      BY <1>1
    <3> QED BY <1>1, <2>2a, <3>1
  <2>5. ASSUME NEW m \in 1 .. n
        PROVE  g[m] >= g[m - 1] + IF RecommendedSize(used[m].size) = z THEN used[m].slots ELSE 0
    <3>1. m \in 0 .. n /\ m - 1 \in 0 .. n /\ m \in Nat /\ i \in Nat /\ used[m].slots \in Nat
      BY <1>1
    <3>2. CASE m = i
      <4>1. g[m] = s /\ g[m - 1] = 0
        BY <3>1, <3>2
      <4> HIDE DEF g
      <4> QED BY <4>1, <3>2, <2>2a
    <3>3. CASE m # i
      <4>1. (IF RecommendedSize(used[m].size) = z THEN used[m].slots ELSE 0) = 0
        BY <3>3, <2>3
      <4>2. g[m] >= g[m - 1] /\ g[m - 1] \in Nat
        <5> HIDE DEF s
        <5> QED BY <3>1, <3>3, <2>2a
      <4> HIDE DEF g
      <4> QED BY <4>1, <4>2
    <3> QED BY <3>2, <3>3
  <2> HIDE DEF g
  <2>6. len <= g[n]
    BY <2>4, <2>5, GivenBySize
  <2> HIDE DEF len, l, cap, s
  <2>7. l + len <= cap
    BY <2>2, <2>2a, <2>4, <2>6, <1>2
  <2> QED BY <2>7 DEF l, len, cap
<1> QED BY <1>3, <1>4

(* The chunks of one size, counted over both classes.                      *)
LEMMA RunsOver ==
  ASSUME NEW state, state \in StateSet, StateFits(state), NEW y, y \in OwnSizes,
         NEW h, Running(h, state.used[Define(y)], y)
  PROVE  \E g : /\ Running(g, UsedOf(state), y)
                /\ g[Len(UsedOf(state))] = h[Len(state.used[Define(y)])]
<1> DEFINE used == UsedOf(state)
           a == state.used["common"]
           b == state.used["large"]
           p == Len(a)
           q == Len(b)
<1>1. UsedFits(a, "common") /\ UsedFits(b, "large")
  BY DEF StateFits, Classes
<1>2. /\ Len(used) = p + q /\ p \in Nat /\ q \in Nat
      /\ \A i \in 1 .. p : used[i] = a[i]
      /\ \A i \in 1 .. q : used[p + i] = b[i]
  BY UsedOfIs
<1>3. /\ \A i \in 1 .. p : Define(a[i].size) = "common"
      /\ \A i \in 1 .. q : Define(b[i].size) = "large"
  BY <1>1 DEF UsedFits
<1> DEFINE n == Len(used)
<1>4. CASE Define(y) = "common"
  <2>1. /\ h[0] = 0 /\ (\A m \in 0 .. p : h[m] \in Nat)
        /\ \A m \in 1 .. p : h[m] = h[m - 1] + IF a[m].size = y THEN 1 ELSE 0
    BY <1>4 DEF Running
  <2> HIDE DEF used, a, b, p, q
  <2> DEFINE g == [m \in 0 .. p + q |-> IF m <= p THEN h[m] ELSE h[p]]
  <2>2. g[0] = 0 /\ (\A m \in 0 .. p + q : g[m] \in Nat) /\ g[p + q] = h[p]
    <3>1. 0 \in 0 .. p + q /\ 0 <= p /\ p + q \in 0 .. p + q /\ p \in 0 .. p
      BY <1>2
    <3>2. g[0] = 0
      BY <2>1, <3>1
    <3>3. ASSUME NEW m \in 0 .. p + q PROVE g[m] \in Nat
      <4>1. m <= p => m \in 0 .. p
        BY <1>2
      <4> QED BY <2>1, <3>1, <4>1
    <3>4. g[p + q] = h[p]
      <4>1. p + q <= p => p + q = p
        BY <1>2
      <4> QED BY <3>1, <4>1
    <3> QED BY <3>2, <3>3, <3>4
  <2>3. ASSUME NEW m \in 1 .. p + q PROVE g[m] = g[m - 1] + IF used[m].size = y THEN 1 ELSE 0
    <3>1. m \in 0 .. p + q /\ m - 1 \in 0 .. p + q
      BY <1>2
    <3>2. CASE m <= p
      <4>1. m \in 1 .. p /\ m - 1 <= p
        BY <1>2, <3>2
      <4>2. g[m] = h[m] /\ g[m - 1] = h[m - 1]
        BY <3>1, <3>2, <4>1
      <4> HIDE DEF g
      <4> QED BY <1>2, <2>1, <4>1, <4>2
    <3>3. CASE ~ (m <= p)
      <4>1. m - p \in 1 .. q /\ p + (m - p) = m
        BY <1>2, <3>3
      <4>2. used[m].size # y
        <5>1. used[p + (m - p)] = b[m - p] /\ Define(b[m - p].size) = "large"
          BY <1>2, <1>3, <4>1
        <5> QED BY <1>4, <4>1, <5>1
      <4>3. g[m] = h[p] /\ g[m - 1] = h[p]
        <5>1. m - 1 <= p => m - 1 = p
          BY <1>2, <3>3
        <5> QED BY <3>1, <3>3, <5>1
      <4>4. h[p] \in Nat
        <5>1. p \in 0 .. p
          BY <1>2
        <5> QED BY <2>1, <5>1
      <4> HIDE DEF g
      <4> QED BY <4>2, <4>3, <4>4
    <3> QED BY <3>2, <3>3
  <2> HIDE DEF g
  <2>4. Running(g, used, y) /\ g[Len(used)] = h[p]
    BY <1>2, <2>2, <2>3 DEF Running
  <2> QED BY <1>4, <2>4 DEF used, p, a
<1>5. CASE Define(y) = "large"
  <2>1. /\ h[0] = 0 /\ (\A m \in 0 .. q : h[m] \in Nat)
        /\ \A m \in 1 .. q : h[m] = h[m - 1] + IF b[m].size = y THEN 1 ELSE 0
    BY <1>5 DEF Running
  <2> HIDE DEF used, a, b, p, q
  <2> DEFINE g == [m \in 0 .. p + q |-> IF m <= p THEN 0 ELSE h[m - p]]
  <2>2. g[0] = 0 /\ (\A m \in 0 .. p + q : g[m] \in Nat) /\ g[p + q] = h[q]
    <3>1. 0 \in 0 .. p + q /\ 0 <= p /\ p + q \in 0 .. p + q
      BY <1>2
    <3>2. g[0] = 0
      BY <3>1
    <3>3. ASSUME NEW m \in 0 .. p + q PROVE g[m] \in Nat
      <4>1. ~ (m <= p) => m - p \in 0 .. q
        BY <1>2
      <4> QED BY <2>1, <4>1
    <3>4. g[p + q] = h[q]
      <4> DEFINE r == p + q
      <4>1. r \in 0 .. r /\ (r <= p => q = 0) /\ r - p = q
        BY <1>2
      <4>2. g[r] = IF r <= p THEN 0 ELSE h[r - p]
        BY <4>1
      <4>3. CASE r <= p
        BY <2>1, <4>1, <4>2, <4>3
      <4>4. CASE ~ (r <= p)
        BY <4>1, <4>2, <4>4
      <4> QED BY <4>3, <4>4
    <3> QED BY <3>2, <3>3, <3>4
  <2>3. ASSUME NEW m \in 1 .. p + q PROVE g[m] = g[m - 1] + IF used[m].size = y THEN 1 ELSE 0
    <3>1. m \in 0 .. p + q /\ m - 1 \in 0 .. p + q
      BY <1>2
    <3>2. CASE m <= p
      <4>1. m \in 1 .. p /\ m - 1 <= p
        BY <1>2, <3>2
      <4>2. g[m] = 0 /\ g[m - 1] = 0
        BY <3>1, <3>2, <4>1
      <4>3. used[m].size # y
        <5>1. used[m] = a[m] /\ Define(a[m].size) = "common"
          BY <1>2, <1>3, <4>1
        <5> QED BY <1>5, <5>1
      <4> HIDE DEF g
      <4> QED BY <4>2, <4>3
    <3>3. CASE ~ (m <= p)
      <4> DEFINE r == m - p
      <4>1. r \in 1 .. q /\ p + r = m
        BY <1>2, <3>3
      <4>2. used[m] = b[r]
        <5>1. used[p + r] = b[r]
          BY <1>2, <4>1
        <5> QED BY <4>1, <5>1
      <4>3. g[m] = h[r] /\ g[m - 1] = h[r - 1]
        <5>1. (m - 1 <= p => r - 1 = 0) /\ (m - 1) - p = r - 1
          BY <1>2, <3>3
        <5> QED BY <2>1, <3>1, <3>3, <5>1
      <4> HIDE DEF g, r
      <4> QED BY <2>1, <4>1, <4>2, <4>3
    <3> QED BY <3>2, <3>3
  <2> HIDE DEF g
  <2>4. Running(g, used, y) /\ g[Len(used)] = h[q]
    BY <1>2, <2>2, <2>3 DEF Running
  <2> QED BY <1>5, <2>4 DEF used, q, b
<1> QED BY <1>4, <1>5 DEF Define

(* What is counted has room.                                               *)
LEMMA CountedRoomy ==
  ASSUME NEW state, state \in StateSet, NEW vs, VecsOK(vs), Fitting(vs), AllRoomy(state, vs),
         NEW y, y \in OwnSizes, RecommendedSize(y) \in Sizes
  PROVE  LET v == Chunks(RecommendedSize(y))
         IN Len(vs[v].items) + FindSize(CountAllUsedChunks(state.used[Define(y)]), y) <= vs[v].cap
<1> DEFINE c == Define(y)
           arr == CountAllUsedChunks(state.used[c])
           v == Chunks(RecommendedSize(y))
           q == IF c = "large" THEN 3 ELSE 4
<1>1. c \in Classes /\ q \in {3, 4} /\ PhaseClass[q] = c
  BY DEF Define, Classes, PhaseClass
<1>2. Sorted(arr)
  BY <1>1, StateIs, CountIs DEF Counts
<1>3. y \in Nat
  BY Constants
<1>4. v \in Vectors
  BY VectorsAre
<1>5. Len(vs[v].items) \in Nat /\ vs[v].cap \in Nat /\ Len(vs[v].items) <= vs[v].cap
  <2>1. vs[v] \in VecSet
    BY <1>4 DEF VecsOK
  <2>2. vs[v].items \in Seq(Ptr) /\ vs[v].cap \in Nat
    BY <2>1 DEF VecSet
  <2> HIDE DEF v
  <2> QED BY <1>4, <2>2, Indices DEF Fitting
<1> DEFINE todo == ToReserve(state, q)
<1>6. /\ Len(todo) = Len(arr)
      /\ \A i \in 1 .. Len(arr) : /\ todo[i].v = Chunks(RecommendedSize(arr[i].size))
                                  /\ todo[i].slot = <<>> /\ todo[i].add = arr[i].number
  <2> HIDE DEF q, c
  <2> QED BY <1>1, ChunkTasks
<1>7. \A i \in 1 .. Len(todo) : Roomy(todo[i], state, vs)
  <2>1. q \in 1 .. 7
    OBVIOUS
  <2> HIDE DEF q
  <2> QED BY <2>1 DEF AllRoomy
<1> HIDE DEF todo, c, arr, q
<1>8. DOMAIN arr = 1 .. Len(arr)
  BY <1>2, SortedIs
<1>9. CASE \E i \in DOMAIN arr : arr[i].size = y
  <2>1. PICK i \in DOMAIN arr : arr[i].size = y
    BY <1>9
  <2>2. FindSize(arr, y) = arr[i].number
    BY <1>2, <1>3, <2>1, FindIs
  <2>3. Roomy(todo[i], state, vs) /\ todo[i].v = v /\ todo[i].slot = <<>> /\ todo[i].add = arr[i].number
    BY <1>6, <1>7, <1>8, <2>1
  <2>4. Len(vs[v].items) + arr[i].number <= vs[v].cap
    BY <2>3 DEF Roomy, AddOf
  <2> QED BY <2>2, <2>4 DEF arr, c
<1>10. CASE \A i \in DOMAIN arr : arr[i].size # y
  <2>1. FindSize(arr, y) = 0
    BY <1>2, <1>3, <1>10, FindIs
  <2> DEFINE l == Len(vs[v].items)
             cap == vs[v].cap
             x == FindSize(arr, y)
  <2>2. l \in Nat /\ cap \in Nat /\ l <= cap /\ x = 0
    BY <1>5, <2>1
  <2> HIDE DEF l, cap, x
  <2>3. l + x <= cap
    BY <2>2
  <2> QED BY <2>3 DEF l, cap, x, arr, c
<1> QED BY <1>9, <1>10

(* ... for the chunks ...                                                  *)
LEMMA ChunksRoomy ==
  ASSUME StatesApart, NEW state, state \in StateSet, StateFits(state),
         NEW vs, VecsOK(vs), Fitting(vs), AllRoomy(state, vs), NEW z, z \in Sizes
  PROVE  Len(vs[Chunks(z)].items) + Len(Given(state, Chunks(z))) <= vs[Chunks(z)].cap
<1> DEFINE used == UsedOf(state)
           n == Len(used)
           v == Chunks(z)
           l == Len(vs[v].items)
           cap == vs[v].cap
           len == Len(Given(state, v))
<1>1. n \in Nat /\ used \in Seq(UsedSet) /\ \A i \in 1 .. n : used[i].size \in OwnSizes
  <2>1. used \in Seq(UsedSet)
    BY UsedOfIs
  <2> HIDE DEF used
  <2>2. n \in Nat /\ \A i \in 1 .. n : used[i] \in UsedSet
    BY <2>1, Indices
  <2> QED BY <2>1, <2>2 DEF UsedSet
<1>2. v \in Vectors /\ len \in Nat /\ l \in Nat /\ cap \in Nat /\ l <= cap
  <2>1. v \in Vectors
    BY VectorsAre
  <2>2. vs[v] \in VecSet
    BY <2>1 DEF VecsOK
  <2>3. vs[v].items \in Seq(Ptr) /\ vs[v].cap \in Nat
    BY <2>2 DEF VecSet
  <2>4. Given(state, v) \in Seq(Ptr)
    BY <2>1, GivenIs
  <2> HIDE DEF v
  <2> QED BY <2>1, <2>3, <2>4, Indices DEF Fitting
<1>3. CASE \A i \in 1 .. n : RecommendedSize(used[i].size) # z
  <2> DEFINE g == [m \in 0 .. n |-> 0]
  <2>1. g[0] = 0 /\ (\A m \in 0 .. n : g[m] \in Nat) /\ g[n] = 0
    BY <1>1
  <2>2. \A m \in 1 .. n : g[m] = 0 /\ g[m - 1] = 0
    BY <1>1
  <2> HIDE DEF g
  <2>3. \A m \in 1 .. n : g[m] >= g[m - 1] + IF RecommendedSize(used[m].size) = z THEN 1 ELSE 0
    BY <1>3, <2>2
  <2>4. len <= g[n]
    BY <2>1, <2>3, GivenBySize
  <2> HIDE DEF len, l, cap
  <2>5. l + len <= cap
    BY <2>1, <2>4, <1>2
  <2> QED BY <2>5 DEF l, len, cap
<1>4. CASE \E i \in 1 .. n : RecommendedSize(used[i].size) = z
  <2>1. PICK i \in 1 .. n : RecommendedSize(used[i].size) = z
    BY <1>4
  <2> DEFINE y == used[i].size
             arr == CountAllUsedChunks(state.used[Define(y)])
             x == FindSize(arr, y)
  <2>2. y \in OwnSizes
    BY <1>1
  <2>3. \A m \in 1 .. n : RecommendedSize(used[m].size) = z => used[m].size = y
    BY <2>1, OneOpen
  <2> HIDE DEF y
  <2>4. Define(y) \in Classes
    BY DEF Define, Classes
  <2>5. state.used[Define(y)] \in Seq(UsedSet)
    BY <2>4, StateIs
  <2>6. PICK h : Running(h, state.used[Define(y)], y) /\ h[Len(state.used[Define(y)])] = x
    BY <2>2, <2>5, CountsRunning
  <2>7. PICK g : Running(g, used, y) /\ g[n] = x
    BY <2>2, <2>6, RunsOver
  <2>8. g[0] = 0 /\ (\A m \in 0 .. n : g[m] \in Nat)
        /\ \A m \in 1 .. n : g[m] = g[m - 1] + IF used[m].size = y THEN 1 ELSE 0
    BY <2>7 DEF Running
  <2>9. ASSUME NEW m \in 1 .. n
        PROVE  g[m] >= g[m - 1] + IF RecommendedSize(used[m].size) = z THEN 1 ELSE 0
    <3> DEFINE d == g[m - 1]
               e == g[m]
    <3>1. m - 1 \in 0 .. n /\ m \in 0 .. n
      BY <1>1
    <3>2. d \in Nat /\ e \in Nat
      BY <2>8, <3>1
    <3>3. e = d + IF used[m].size = y THEN 1 ELSE 0
      BY <2>8
    <3>4. RecommendedSize(used[m].size) = z => used[m].size = y
      BY <2>3
    <3> HIDE DEF d, e
    <3>5. e >= d + IF RecommendedSize(used[m].size) = z THEN 1 ELSE 0
      BY <3>2, <3>3, <3>4
    <3> QED BY <3>5 DEF d, e
  <2>10. len <= g[n]
    BY <2>8, <2>9, GivenBySize
  <2>11. l + x <= cap
    <3>1. RecommendedSize(y) = z
      BY <2>1 DEF y
    <3> QED BY <2>2, <3>1, CountedRoomy
  <2>12. x \in Nat
    <3>1. n \in 0 .. n
      BY <1>1
    <3> QED BY <2>7, <2>8, <3>1
  <2> HIDE DEF len, l, cap, x
  <2>13. l + len <= cap
    BY <2>7, <2>10, <2>11, <2>12, <1>2
  <2> QED BY <2>13 DEF l, len, cap
<1> QED BY <1>3, <1>4

(* ... for the region and the free chunks.                                 *)
LEMMA FreeRoomy ==
  ASSUME NEW state, NEW vs, AllRoomy(state, vs)
  PROVE  /\ Len(vs[Regions].items) + Len(Given(state, Regions)) <= vs[Regions].cap
         /\ \A c \in Classes :
              Len(vs[FreeChunks(c)].items) + Len(Given(state, FreeChunks(c))) <= vs[FreeChunks(c)].cap
<1>1. ASSUME NEW q \in 1 .. 7, NEW v, NEW add, NEW counted,
             ToReserve(state, q) = <<[v |-> v, slot |-> <<>>, add |-> add, counted |-> counted]>>
      PROVE  Len(vs[v].items) + add <= vs[v].cap
  <2> DEFINE t == [v |-> v, slot |-> <<>>, add |-> add, counted |-> counted]
             todo == ToReserve(state, q)
  <2>1. t.v = v /\ AddOf(t, state) = add
    BY DEF AddOf
  <2>2. todo = <<t>>
    BY <1>1
  <2> HIDE DEF t
  <2>3. 1 \in 1 .. Len(todo) /\ todo[1] = t
    BY <2>2
  <2>4. Roomy(todo[1], state, vs)
    BY <2>3 DEF AllRoomy
  <2>5. Roomy(t, state, vs)
    BY <2>3, <2>4
  <2> QED BY <2>1, <2>5 DEF Roomy
<1>2. Len(vs[Regions].items) + Len(Given(state, Regions)) <= vs[Regions].cap
  <2> DEFINE q == 5
             add == 1
             no == FALSE
             v == Regions
  <2>1. q \in 1 .. 7
    OBVIOUS
  <2>2. ToReserve(state, q) = <<[v |-> v, slot |-> <<>>, add |-> add, counted |-> no]>>
    BY FreeTasks
  <2> HIDE DEF q, no, add, v
  <2>3. Len(vs[v].items) + add <= vs[v].cap
    BY <1>1, <2>1, <2>2
  <2>4. Given(state, Regions) = <<state.region>>
    <3>1. Regions[1] # "objects" /\ Regions[1] # "chunks"
      BY DEF Regions
    <3> QED BY <3>1 DEF Given
  <2>5. Len(Given(state, Regions)) = add
    BY <2>4 DEF add
  <2> QED BY <2>3, <2>5 DEF v
<1>3. ASSUME NEW c \in Classes
      PROVE  Len(vs[FreeChunks(c)].items) + Len(Given(state, FreeChunks(c))) <= vs[FreeChunks(c)].cap
  <2> DEFINE q == IF c = "large" THEN 6 ELSE 7
             add == Len(state.free[c])
             no == FALSE
             v == FreeChunks(c)
  <2>1. q \in 1 .. 7
    OBVIOUS
  <2>2. ToReserve(state, q) = <<[v |-> v, slot |-> <<>>, add |-> add, counted |-> no]>>
    BY FreeTasks DEF Classes
  <2>3. Given(state, v) = state.free[c]
    <3>1. v[1] = c /\ v # Regions /\ c # "objects" /\ c # "chunks"
      BY DEF FreeChunks, Regions, Classes
    <3> HIDE DEF v
    <3> QED BY <3>1 DEF Given
  <2> HIDE DEF q, no, add, v
  <2>4. Len(vs[v].items) + add <= vs[v].cap
    BY <1>1, <2>1, <2>2
  <2> QED BY <2>3, <2>4 DEF v, add
<1> QED BY <1>2, <1>3

(* A pass that found room for all tasks has room for the whole State.      *)
LEMMA RoomIs ==
  ASSUME StatesApart, NEW state, state \in StateSet, StateFits(state),
         NEW vs, VecsOK(vs), Fitting(vs), AllRoomy(state, vs), NEW v, v \in Vectors
  PROVE  Len(vs[v].items) + Len(Given(state, v)) <= vs[v].cap
<1>1. \/ \E s \in Sizes : v = Objects(s) \/ v = Chunks(s)
      \/ v = Regions \/ \E c \in Classes : v = FreeChunks(c)
  BY DEF Vectors
<1> QED BY <1>1, ObjectsRoomy, ChunksRoomy, FreeRoomy

-----------------------------------------------------------------------------
(* A pass of handle_state that has grown nothing has room for its State    *)

(* The tasks of a pass: two of its parts, and only they, grow the vectors  *)
(* of the chunk tables.                                                    *)
ForChunks(task, class) ==
  /\ task.slot = <<>> /\ task.add # 0
  /\ \E s \in Sizes : task.v = Chunks(s) /\ Define(s) = class
Tasks(phase, todo) ==
  /\ phase \in {3, 4} => \A n \in 1 .. Len(todo) : ForChunks(todo[n], PhaseClass[phase])
  /\ phase \notin {3, 4} => \A n \in 1 .. Len(todo) : \A s \in Sizes : todo[n].v # Chunks(s)

(* A vector of a chunk table that has no box yet.  Nobody grows it.        *)
Bare(v, tb) == \E s \in Sizes : v = Chunks(s) /\ tb[Define(s)] = 0
BareEmpty(vs, tb) == \A v \in Vectors : Bare(v, tb) => vs[v].cap = 0

(* What is true of each call.                                              *)
Steady(fr, tb) ==
  /\ fr.f = "reserve" => ~ Bare(fr.v, tb)
  /\ fr.f = "alloc" => /\ fr.own = TRUE => fr.size \in AskedFor
                       /\ fr.own = FALSE => fr.at # "slow"
  /\ fr.f = "handle" => /\ Tasks(fr.phase, fr.todo)
                        /\ fr.at \in {"nlpm", "inited"} => fr.phase = 0
AllSteady(fs, tb) == \A i \in 1 .. Len(fs) : Steady(fs[i], tb)
ChainsFit(chs) == \A k \in 1 .. Len(chs) : ChainFits(chs[k])

(* The tasks of the pass so far have room, except for those that are still *)
(* to be done; or the next one will grow, because its vector has no buffer *)
(* and the box of its table has just been allocated.                       *)
Reserved(fr, state, vs) ==
  \A q \in 1 .. fr.phase : \A n \in 1 .. Len(ToReserve(state, q)) :
    \/ Roomy(ToReserve(state, q)[n], state, vs)
    \/ q = fr.phase /\ \E m \in 1 .. Len(fr.todo) : fr.todo[m] = ToReserve(state, q)[n]
WillGrow(fr, vs) ==
  fr.phase \in {3, 4} /\ fr.todo # <<>> /\ vs[fr.todo[1].v].cap = 0
PassOK(fr, chs, vs) ==
  fr.more = FALSE => Reserved(fr, chs[fr.k][1], vs) \/ WillGrow(fr, vs)

(* A handle_state on top of the stack, and one that has just called        *)
(* reserve.                                                                *)
OnTop(fr, chs, vs, rt) ==
  fr.f = "handle" =>
    /\ fr.at = "reserve" => PassOK(fr, chs, vs)
    /\ fr.at = "commit" => AllRoomy(chs[fr.k][1], vs)
    /\ fr.at = "reserved" /\ fr.more = FALSE /\ rt.grew = FALSE /\ rt.err = FALSE =>
         Reserved(fr, chs[fr.k][1], vs) /\ Roomy(fr.todo[1], chs[fr.k][1], vs)
Asks(p, c, chs, vs) ==
  p.f = "handle" /\ p.at = "reserved" /\ c.f = "reserve" /\ c.at = "test" =>
    /\ PassOK(p, chs, vs)
    /\ c.v = p.todo[1].v /\ c.add = AddOf(p.todo[1], chs[p.k][1]) /\ c.put = <<>>
TopPass(fs, chs, vs, rt) ==
  /\ Len(fs) # 0 => OnTop(fs[Len(fs)], chs, vs, rt)
  /\ Len(fs) > 1 => Asks(fs[Len(fs) - 1], fs[Len(fs)], chs, vs)

Pass ==
  /\ AllSteady(frames, table)
  /\ BareEmpty(vecs, table)
  /\ ChainsFit(chains)
  /\ panicked = FALSE => TopPass(frames, chains, vecs, ret)

(* A step after which no pass is on top, or one that has grown something.  *)
Quietly(fs, gs, rt, tb) ==
  \/ \E fr : fr.f = "alloc" /\ Steady(fr, tb) /\ gs = Append(Front(fs), fr)
  \/ \E fr, c : /\ fr.f = "handle" => fr.at # "reserved"
                /\ c.f = "handle" => c.at = "nlpm"
                /\ Steady(fr, tb) /\ Steady(c, tb) /\ gs = Front(fs) \o <<fr, c>>
  \/ gs = Front(fs) /\ (Last(fs).f = "reserve" => rt.grew = TRUE \/ rt.err = TRUE)

(* The stack after the call on top has gone on.                            *)
LEMMA SteadyGoto ==
  ASSUME NEW S, NEW fs \in Seq(S), fs # <<>>, NEW tb, AllSteady(fs, tb), NEW fr, Steady(fr, tb)
  PROVE  LET gs == Append(Front(fs), fr) IN
         /\ AllSteady(gs, tb) /\ Len(gs) = Len(fs) /\ Len(fs) \in Nat \ {0}
         /\ gs[Len(fs)] = fr /\ \A i \in 1 .. Len(fs) - 1 : gs[i] = fs[i]
<1> DEFINE T == S \union {fr}
           gs == Append(Front(fs), fr)
           n == Len(fs)
<1>1. fs \in Seq(T) /\ fr \in T
  BY InMore
<1> HIDE DEF T
<1>2. /\ Len(gs) = n /\ n \in Nat \ {0}
      /\ \A i \in 1 .. n - 1 : gs[i] = fs[i]
      /\ gs[n] = fr
  BY <1>1, GotoIs
<1> HIDE DEF gs
<1>3. \A i \in 1 .. n : Steady(fs[i], tb)
  BY DEF AllSteady
<1> HIDE DEF n
<1>5. ASSUME NEW i \in 1 .. n PROVE Steady(gs[i], tb)
  <2>1. CASE i = n
    BY <2>1, <1>2
  <2>2. CASE i # n
    <3>1. i \in 1 .. n - 1
      BY <2>2, <1>2
    <3> QED BY <3>1, <1>2, <1>3
  <2> QED BY <2>1, <2>2
<1> QED BY <1>2, <1>5 DEF AllSteady, gs, n

(* ... has made a call ...                                                 *)
LEMMA SteadyCall ==
  ASSUME NEW S, NEW fs \in Seq(S), fs # <<>>, NEW tb, AllSteady(fs, tb), NEW fr, Steady(fr, tb),
         NEW c, Steady(c, tb)
  PROVE  LET gs == Front(fs) \o <<fr, c>> IN
         /\ AllSteady(gs, tb) /\ Len(gs) = Len(fs) + 1 /\ Len(fs) \in Nat \ {0}
         /\ gs[Len(fs)] = fr /\ gs[Len(fs) + 1] = c
<1> DEFINE T == S \union {fr, c}
           gs == Front(fs) \o <<fr, c>>
           n == Len(fs)
<1>1. fs \in Seq(T) /\ fr \in T /\ c \in T
  BY InMore
<1> HIDE DEF T
<1>2. /\ Len(gs) = n + 1 /\ n \in Nat \ {0}
      /\ \A i \in 1 .. n - 1 : gs[i] = fs[i]
      /\ gs[n] = fr /\ gs[n + 1] = c
  BY <1>1, CallIs
<1> HIDE DEF gs
<1>3. \A i \in 1 .. n : Steady(fs[i], tb)
  BY DEF AllSteady
<1> HIDE DEF n
<1>5. ASSUME NEW i \in 1 .. n + 1 PROVE Steady(gs[i], tb)
  <2>1. CASE i = n
    BY <2>1, <1>2
  <2>2. CASE i = n + 1
    BY <2>2, <1>2
  <2>3. CASE i # n /\ i # n + 1
    <3>1. i \in 1 .. n - 1
      BY <2>3, <1>2
    <3> QED BY <3>1, <1>2, <1>3
  <2> QED BY <2>1, <2>2, <2>3
<1> QED BY <1>2, <1>5 DEF AllSteady, gs, n

(* ... or has returned.                                                    *)
LEMMA SteadyReturn ==
  ASSUME NEW S, NEW fs \in Seq(S), fs # <<>>, NEW tb, AllSteady(fs, tb)
  PROVE  AllSteady(Front(fs), tb)
<1> DEFINE gs == Front(fs)
           n == Len(fs)
<1>1. n \in Nat \ {0} /\ Len(gs) = n - 1 /\ \A i \in 1 .. n - 1 : gs[i] = fs[i]
  BY Ends
<1>2. \A i \in 1 .. n : Steady(fs[i], tb)
  BY DEF AllSteady
<1> HIDE DEF gs, n
<1>3. ASSUME NEW i \in 1 .. n - 1 PROVE Steady(gs[i], tb)
  <2>1. i \in 1 .. n
    BY <1>1
  <2> QED BY <2>1, <1>1, <1>2
<1> QED BY <1>1, <1>3 DEF AllSteady, gs

(* Nothing is said of the top of the stack after a quiet step.             *)
LEMMA QuietPass ==
  ASSUME Base, frames # <<>>, NEW tb, AllSteady(frames, tb), NEW gs, NEW rt,
         Quietly(frames, gs, rt, tb), NEW chs, NEW vs
  PROVE  AllSteady(gs, tb) /\ TopPass(gs, chs, vs, rt)
<1> DEFINE n == Len(frames)
<1>0. frames \in Seq(FrameSet) /\ n \in Nat \ {0}
  BY TopIs, Ends
<1>1. ASSUME NEW fr, fr.f = "alloc", Steady(fr, tb), gs = Append(Front(frames), fr)
      PROVE  AllSteady(gs, tb) /\ TopPass(gs, chs, vs, rt)
  <2>1. AllSteady(gs, tb) /\ Len(gs) = n /\ gs[n] = fr
    BY <1>0, <1>1, SteadyGoto
  <2>2. OnTop(fr, chs, vs, rt) /\ \A p : Asks(p, fr, chs, vs)
    BY <1>1 DEF OnTop, Asks
  <2> QED BY <2>1, <2>2 DEF TopPass
<1>2. ASSUME NEW fr, NEW c, fr.f = "handle" => fr.at # "reserved", c.f = "handle" => c.at = "nlpm",
             Steady(fr, tb), Steady(c, tb), gs = Front(frames) \o <<fr, c>>
      PROVE  AllSteady(gs, tb) /\ TopPass(gs, chs, vs, rt)
  <2>1. AllSteady(gs, tb) /\ Len(gs) = n + 1 /\ gs[n] = fr /\ gs[n + 1] = c
    BY <1>0, <1>2, SteadyCall
  <2>2. OnTop(c, chs, vs, rt) /\ Asks(fr, c, chs, vs)
    BY <1>2 DEF OnTop, Asks
  <2>3. (n + 1) - 1 = n
    BY <1>0
  <2> HIDE DEF n
  <2> QED BY <2>1, <2>2, <2>3 DEF TopPass
<1>3. ASSUME gs = Front(frames), Last(frames).f = "reserve" => rt.grew = TRUE \/ rt.err = TRUE
      PROVE  AllSteady(gs, tb) /\ TopPass(gs, chs, vs, rt)
  <2>1. AllSteady(gs, tb)
    BY <1>0, <1>3, SteadyReturn
  <2>2. Len(gs) = n - 1 /\ (\A i \in 1 .. n - 1 : gs[i] = frames[i]) /\ Last(frames) = frames[n]
    BY <1>0, <1>3, Ends
  <2>3. \A i \in 1 .. n - 1 : Calls(frames[i], frames[i + 1])
    BY DEF Base, StackOK, Nested
  <2> HIDE DEF n
  <2>4. CASE n = 1
    <3>1. Len(gs) = 0
      BY <2>2, <2>4
    <3> QED BY <2>1, <3>1 DEF TopPass
  <2>5. CASE n # 1
    <3> DEFINE p == frames[n - 1]
    <3>1. n - 1 \in 1 .. n - 1 /\ (n - 1) + 1 = n
      BY <1>0, <2>5
    <3>2. gs[n - 1] = p /\ Calls(p, frames[n])
      BY <2>2, <2>3, <3>1
    <3> HIDE DEF p
    <3>3. OnTop(p, chs, vs, rt)
      BY <1>3, <2>2, <3>2 DEF OnTop, Calls
    <3>4. \A o : Asks(o, p, chs, vs)
      BY <3>2 DEF Asks, Calls
    <3> QED BY <2>1, <2>2, <3>2, <3>3, <3>4 DEF TopPass
  <2> QED BY <2>4, <2>5
<1> QED BY <1>1, <1>2, <1>3 DEF Quietly

(* A quiet step that changes no capacity.                                  *)
LEMMA QuietKeeps ==
  ASSUME Base, Pass, frames # <<>>, Quietly(frames, frames', ret', table), UNCHANGED table,
         SameCaps(vecs, vecs'), ChainsFit(chains')
  PROVE  Pass'
<1>1. AllSteady(frames', table) /\ TopPass(frames', chains', vecs', ret')
  BY QuietPass DEF Pass
<1>2. BareEmpty(vecs', table)
  BY DEF Pass, BareEmpty, SameCaps
<1> QED BY <1>1, <1>2 DEF Pass

(* The call on top.                                                        *)
LEMMA TopSteady ==
  ASSUME Base, Pass, frames # <<>>
  PROVE  Steady(Top, table)
<1>1. frames \in Seq(FrameSet) /\ Top = Last(frames)
  BY TopIs
<1> DEFINE n == Len(frames)
<1>2. n \in Nat \ {0} /\ Top = frames[n]
  BY <1>1, Ends
<1>3. \A i \in 1 .. n : Steady(frames[i], table)
  BY DEF Pass, AllSteady
<1> HIDE DEF n
<1>4. n \in 1 .. n
  BY <1>2
<1> QED BY <1>2, <1>3, <1>4

(* An allocation goes on ...                                               *)
LEMMA GotoQuiet ==
  ASSUME NEW fr, Goto(fr), fr.f = "alloc", Steady(fr, table)
  PROVE  Quietly(frames, frames', ret', table)
  BY DEF Goto, Quietly

(* ... a call is made ...                                                  *)
LEMMA CallQuiet ==
  ASSUME NEW fr, NEW c, Call(fr, c), fr.f = "handle" => fr.at # "reserved",
         c.f = "handle" => c.at = "nlpm", Steady(fr, table), Steady(c, table)
  PROVE  Quietly(frames, frames', ret', table)
  BY DEF Call, Quietly

(* ... or another call than reserve returns.                               *)
LEMMA ReturnQuiet ==
  ASSUME NEW r, Return(r), Top.f # "reserve"
  PROVE  Quietly(frames, frames', ret', table)
  BY DEF Return, Quietly, Top

(* ... with a pointer.                                                     *)
LEMMA ReturnPtrQuiet ==
  ASSUME NEW p, ReturnPtr(p), Top.f # "reserve"
  PROVE  Quietly(frames, frames', ret', table)
  BY ReturnQuiet DEF ReturnPtr

(* The same allocation at another place.                                   *)
LEMMA AllocSteady ==
  ASSUME Base, Pass, frames # <<>>, Top.f = "alloc", NEW fr, fr.f = "alloc", fr.own = Top.own,
         fr.size = Top.size, fr.at # "slow" \/ Top.own = TRUE
  PROVE  Steady(fr, table)
<1>1. Steady(Top, table)
  BY TopSteady
<1> QED BY <1>1 DEF Steady

(* Vectors that belong to no chunk table.                                  *)
LEMMA NotBare ==
  ASSUME NEW tb
  PROVE  /\ \A s : ~ Bare(Objects(s), tb)
         /\ ~ Bare(Regions, tb)
         /\ \A c \in Classes : ~ Bare(FreeChunks(c), tb)
<1>1. ASSUME NEW v, v[1] # "chunks" PROVE ~ Bare(v, tb)
  <2>1. \A s : Chunks(s)[1] = "chunks"
    BY DEF Chunks
  <2> QED BY <1>1, <2>1 DEF Bare
<1>2. /\ \A s : Objects(s)[1] # "chunks"
      /\ Regions[1] # "chunks"
      /\ \A c \in Classes : FreeChunks(c)[1] # "chunks"
  BY DEF Objects, Regions, FreeChunks, Classes
<1> QED BY <1>1, <1>2

(* A vector of a chunk table that has its box.                             *)
LEMMA Boxed ==
  ASSUME NEW tb, NEW s, tb[Define(s)] # 0
  PROVE  ~ Bare(Chunks(s), tb)
<1>1. \A z : Chunks(z)[2] = z
  BY DEF Chunks
<1>2. \A z : Chunks(z) = Chunks(s) => z = s
  BY <1>1
<1> QED BY <1>2 DEF Bare

(* New calls.                                                              *)
LEMMA ReserveSteady ==
  ASSUME NEW tb, NEW v, ~ Bare(v, tb), NEW add, NEW put, NEW st, NEW counted
  PROVE  Steady(Reserve(v, add, put, st, counted), tb) /\ Reserve(v, add, put, st, counted).f # "handle"
  BY DEF Steady, Reserve

(* An object is given back.                                                *)
LEMMA DeallocSteady ==
  ASSUME NEW tb, NEW ptr, NEW size, NEW st
  PROVE  Steady(Dealloc(ptr, size, st), tb) /\ Dealloc(ptr, size, st).f # "handle"
<1> DEFINE v == Objects(RecommendedSize(size))
           one == 1
           put == <<ptr>>
           no == FALSE
<1>1. ~ Bare(v, tb)
  BY NotBare
<1>2. Dealloc(ptr, size, st) = Reserve(v, one, put, st, no)
  BY DEF Dealloc
<1> HIDE DEF v, one, put, no
<1> QED BY <1>1, <1>2, ReserveSteady

(* The allocator allocates for itself.                                     *)
LEMMA OwnSteady ==
  ASSUME NEW tb, NEW size, size \in AskedFor, NEW st, NEW counted
  PROVE  Steady(Alloc(size, st, counted, TRUE), tb) /\ Alloc(size, st, counted, TRUE).f # "handle"
  BY DEF Steady, Alloc

(* handle_state begins.                                                    *)
LEMMA HandleSteady ==
  ASSUME NEW tb, NEW k
  PROVE  Steady(Handle(k), tb) /\ Handle(k).at = "nlpm" /\ Handle(k).phase = 0
<1> DEFINE h == Handle(k)
           none == <<>>
<1>1. h.f = "handle" /\ h.at = "nlpm" /\ h.phase = 0 /\ h.todo = none
  BY DEF Handle
<1>2. Len(none) = 0
  OBVIOUS
<1> HIDE DEF h, none
<1>3. Tasks(h.phase, h.todo)
  BY <1>1, <1>2 DEF Tasks
<1> QED BY <1>1, <1>3 DEF Steady, h

(* The chains stay as they are, or there is one more.                      *)
LEMMA FitSame ==
  ASSUME Pass, UNCHANGED chains
  PROVE  ChainsFit(chains')
  BY DEF Pass

(* One more chain.                                                         *)
LEMMA FitMore ==
  ASSUME NEW chs, chs \in Seq(Seq(StateSet)), ChainsFit(chs), NEW ch, ch \in Seq(StateSet), ChainFits(ch)
  PROVE  ChainsFit(Append(chs, ch))
<1> DEFINE n == Len(chs)
           dhs == Append(chs, ch)
<1>1. n \in Nat /\ Len(dhs) = n + 1 /\ (\A i \in 1 .. n : dhs[i] = chs[i]) /\ dhs[n + 1] = ch
  BY AppendIs, Indices
<1>2. \A i \in 1 .. n : ChainFits(chs[i])
  BY DEF ChainsFit
<1> HIDE DEF n, dhs
<1>3. ASSUME NEW i \in 1 .. n + 1 PROVE ChainFits(dhs[i])
  <2>1. i \in 1 .. n \/ i = n + 1
    BY <1>1
  <2> QED BY <1>1, <1>2, <2>1
<1> QED BY <1>1, <1>3 DEF ChainsFit, dhs

(* A chain is replaced.                                                    *)
LEMMA FitPut ==
  ASSUME NEW chs, chs \in Seq(Seq(StateSet)), ChainsFit(chs), NEW ch, ch \in Seq(StateSet), ChainFits(ch),
         NEW k, k \in 1 .. Len(chs)
  PROVE  ChainsFit([chs EXCEPT ![k] = ch])
<1> DEFINE dhs == [chs EXCEPT ![k] = ch]
<1>1. Len(dhs) = Len(chs) /\ dhs[k] = ch /\ \A i \in 1 .. Len(chs) : i # k => dhs[i] = chs[i]
  BY PutIs
<1>2. \A i \in 1 .. Len(chs) : ChainFits(chs[i])
  BY DEF ChainsFit
<1> HIDE DEF dhs
<1> QED BY <1>1, <1>2 DEF ChainsFit, dhs

(* A State of a new region uses no chunk.                                  *)
LEMMA FreshFits ==
  ASSUME World
  PROVE  ChainFits(FreshState.chain) /\ \A z \in OwnSizes : NoneOpen(FreshState.chain, z)
<1> DEFINE region == RegionAt(mapped + 1)
           s == FromRegion(region)
           ch == <<s>>
<1>1. region \in Ptr
  <2>1. mapped + 1 \in Nat \ {0} /\ REGION_SIZE \in Nat \ {0}
    BY Constants DEF World
  <2> QED BY <2>1 DEF RegionAt, Ptr
<1>2. \A c \in Classes : s.used[c] = <<>>
  <2> HIDE DEF region
  <2> QED BY <1>1, FromRegionIs
<1>3. FreshState.chain = ch
  BY DEF FreshState, Work
<1> HIDE DEF s
<1>4. StateFits(s) /\ \A z \in OwnSizes : Shut(s.used[Define(z)], z)
  BY <1>2, NewFits
<1>5. Len(ch) = 1 /\ ch[1] = s
  OBVIOUS
<1> HIDE DEF ch
<1>6. \A i \in 1 .. Len(ch) : ch[i] = s
  BY <1>5
<1> QED BY <1>3, <1>4, <1>6 DEF ChainFits, NoneOpen

(* No capacity changes.                                                    *)
LEMMA LessCaps ==
  ASSUME NEW vs, NEW ws, Less(vs, ws)
  PROVE  SameCaps(vs, ws)
  BY DEF Less, SameCaps

-----------------------------------------------------------------------------
(* The steps of an allocation.                                             *)
LEMMA AllocPopPass ==
  ASSUME Base, Pass, AllocPop
  PROVE  Pass'
<1>1. frames # <<>> /\ Top.f = "alloc" /\ UNCHANGED <<table, chains>>
  BY DEF AllocPop, At
<1>2. Top \in AllocSet /\ TopObjects \in Vectors /\ ChainsFit(chains')
  BY <1>1, AllocRecord, FitSame
<1>3. CASE vecs[TopObjects].items # <<>>
  <2> DEFINE p == Last(vecs[TopObjects].items)
  <2>1. vecs' = Pop(TopObjects) /\ ReturnPtr(p)
    BY <1>3 DEF AllocPop
  <2> HIDE DEF p
  <2>2. Quietly(frames, frames', ret', table)
    BY <1>1, <2>1, ReturnPtrQuiet
  <2>3. SameCaps(vecs, vecs')
    BY <1>2, <1>3, <2>1, LessPop, LessCaps
  <2> QED BY <1>1, <1>2, <2>2, <2>3, QuietKeeps
<1>4. CASE vecs[TopObjects].items = <<>>
  <2> DEFINE fr == [Top EXCEPT !.at = "check"]
  <2>1. Goto(fr) /\ UNCHANGED vecs
    BY <1>4 DEF AllocPop
  <2>2. fr.f = "alloc" /\ fr.at # "slow" /\ fr.size = Top.size /\ fr.own = Top.own
    BY <1>2 DEF AllocSet
  <2> HIDE DEF fr
  <2>3. Quietly(frames, frames', ret', table)
    BY <1>1, <2>1, <2>2, AllocSteady, GotoQuiet
  <2>4. SameCaps(vecs, vecs')
    BY <2>1, LessSame, LessCaps
  <2> QED BY <1>1, <1>2, <2>3, <2>4, QuietKeeps
<1> QED BY <1>3, <1>4

(* The check for non-local pointers.                                       *)
LEMMA CheckNonLocalPtrsPass ==
  ASSUME Base, Pass, CheckNonLocalPtrs
  PROVE  Pass'
<1>1. frames # <<>> /\ Top.f = "alloc" /\ UNCHANGED <<table, chains, vecs>>
  BY DEF CheckNonLocalPtrs, At
<1>2. ChainsFit(chains') /\ SameCaps(vecs, vecs')
  BY <1>1, FitSame DEF SameCaps
<1>3. PICK x \in user : Call(Top, Reserve(Objects(x.size), 1, <<x.ptr>>, 0, FALSE))
  BY DEF CheckNonLocalPtrs
<1> DEFINE one == 1
           put == <<x.ptr>>
           zero == 0
           no == FALSE
           v == Objects(x.size)
           c == Reserve(v, one, put, zero, no)
<1>4. Call(Top, c)
  BY <1>3
<1>5. Steady(c, table) /\ c.f # "handle"
  <2>1. ~ Bare(v, table)
    BY NotBare
  <2> HIDE DEF one, put, zero, no, v
  <2> QED BY <2>1, ReserveSteady
<1> HIDE DEF c
<1>6. Steady(Top, table)
  BY <1>1, TopSteady
<1>7. Quietly(frames, frames', ret', table)
  BY <1>1, <1>4, <1>5, <1>6, CallQuiet
<1> QED BY <1>1, <1>2, <1>7, QuietKeeps

(* A region is mapped and its State handled.                               *)
LEMMA NewStatePass ==
  ASSUME Base, Pass, frames # <<>>, Top.f = "alloc", UNCHANGED <<vecs, table>>,
         NEW x, x \in WorkSet, ChainFits(x.chain), NEW fr, fr.f = "alloc", Steady(fr, table),
         NewState(x, fr)
  PROVE  Pass'
<1> DEFINE c == Handle(Len(chains) + 1)
<1>1. Call(fr, c) /\ chains' = Append(chains, x.chain)
  BY DEF NewState
<1>2. Steady(c, table) /\ c.at = "nlpm"
  BY HandleSteady
<1> HIDE DEF c
<1>3. Quietly(frames, frames', ret', table)
  BY <1>1, <1>2, CallQuiet
<1>4. chains \in Seq(Seq(StateSet)) /\ x.chain \in Seq(StateSet)
  BY TopIs, WorkIs
<1>5. ChainsFit(Append(chains, x.chain))
  BY <1>4, FitMore DEF Pass
<1>6. SameCaps(vecs, vecs') /\ ChainsFit(chains')
  BY <1>1, <1>5 DEF SameCaps
<1> QED BY <1>3, <1>6, QuietKeeps

(* A chunk is taken, or memory asked for.                                  *)
LEMMA AllocGetChunkPass ==
  ASSUME StatesApart, Base, Pass, AllocGetChunk
  PROVE  Pass'
<1> DEFINE from == FreeChunks(Class)
           large == FreeChunks("large")
           with(chunk, at) == [Top EXCEPT !.chunk = chunk, !.at = at]
<1>1. frames # <<>> /\ Top.f = "alloc" /\ UNCHANGED table
  BY DEF AllocGetChunk, At
<1>2. Top \in AllocSet /\ TopObjects \in Vectors /\ from \in Vectors /\ large \in Vectors /\ Top.own \in BOOLEAN
  BY <1>1, AllocRecord, AllocTop
<1>3. ASSUME NEW chunk, NEW at, at # "slow" \/ Top.own = TRUE
      PROVE  with(chunk, at).f = "alloc" /\ Steady(with(chunk, at), table)
  <2> DEFINE fr == with(chunk, at)
  <2>1. fr.f = "alloc" /\ fr.own = Top.own /\ fr.size = Top.size /\ fr.at = at
    BY <1>2 DEF AllocSet
  <2> HIDE DEF fr
  <2>2. Steady(fr, table)
    BY <1>1, <1>3, <2>1, AllocSteady
  <2> QED BY <2>1, <2>2 DEF fr
<1>4. CASE /\ vecs[TopObjects].items # <<>> /\ UNCHANGED chains
           /\ vecs' = Pop(TopObjects) /\ ReturnPtr(Last(vecs[TopObjects].items))
  <2> DEFINE p == Last(vecs[TopObjects].items)
  <2>1. ReturnPtr(p)
    BY <1>4
  <2> HIDE DEF p
  <2>2. Quietly(frames, frames', ret', table)
    BY <1>1, <2>1, ReturnPtrQuiet
  <2>3. SameCaps(vecs, vecs') /\ ChainsFit(chains')
    BY <1>2, <1>4, LessPop, LessCaps, FitSame
  <2> QED BY <1>1, <2>2, <2>3, QuietKeeps
<1>5. ASSUME NEW v \in Vectors, NEW at, at # "slow", vecs[v].items # <<>>, UNCHANGED chains,
             vecs' = Pop(v), Goto(with(Last(vecs[v].items), at))
      PROVE  Pass'
  <2> DEFINE fr == with(Last(vecs[v].items), at)
  <2>1. Goto(fr) /\ fr.f = "alloc" /\ Steady(fr, table)
    BY <1>3, <1>5
  <2> HIDE DEF fr
  <2>2. Quietly(frames, frames', ret', table)
    BY <2>1, GotoQuiet
  <2>3. SameCaps(vecs, vecs') /\ ChainsFit(chains')
    BY <1>5, LessPop, LessCaps, FitSame
  <2> QED BY <1>1, <2>2, <2>3, QuietKeeps
<1>6. CASE Goto([Top EXCEPT !.at = "slow"]) /\ Top.own /\ UNCHANGED <<vecs, chains>>
  <2> DEFINE fr == [Top EXCEPT !.at = "slow"]
  <2>1. fr.f = "alloc" /\ fr.own = Top.own /\ fr.size = Top.size /\ Goto(fr) /\ Top.own = TRUE
    BY <1>2, <1>6 DEF AllocSet
  <2> HIDE DEF fr
  <2>2. Steady(fr, table)
    BY <1>1, <2>1, AllocSteady
  <2>3. Quietly(frames, frames', ret', table)
    BY <2>1, <2>2, GotoQuiet
  <2>4. SameCaps(vecs, vecs') /\ ChainsFit(chains')
    BY <1>6, FitSame DEF SameCaps
  <2> QED BY <1>1, <2>3, <2>4, QuietKeeps
<1>8. CASE UNCHANGED <<vecs, chains>> /\ ReturnPtr(0)
  <2> DEFINE zero == 0
  <2>1. ReturnPtr(zero)
    BY <1>8
  <2> HIDE DEF zero
  <2>2. Quietly(frames, frames', ret', table)
    BY <1>1, <2>1, ReturnPtrQuiet
  <2>3. SameCaps(vecs, vecs') /\ ChainsFit(chains')
    BY <1>8, FitSame DEF SameCaps
  <2> QED BY <1>1, <2>2, <2>3, QuietKeeps
<1>9. CASE /\ UNCHANGED vecs
           /\ \E got \in {GetFreeLargeChunk(FreshState, 1, FALSE)} :
                NewState(got, with(got.ptr, IF Class = "common" THEN "split" ELSE "have"))
  <2> DEFINE one == 1
             no == FALSE
             x == GetFreeLargeChunk(FreshState, one, no)
             at == IF Class = "common" THEN "split" ELSE "have"
             fr == with(x.ptr, at)
             z == SIZE_OF_NLPM
  <2>1. NewState(x, fr)
    BY <1>9
  <2>2. World /\ one \in Nat \ {0} /\ no \in BOOLEAN
    BY DEF World, Base, TypeOK
  <2>3. FreshState \in WorkSet
    BY <2>2, FreshIs
  <2>4. at # "slow"
    OBVIOUS
  <2>5. fr.f = "alloc" /\ Steady(fr, table)
    <3> HIDE DEF x, at
    <3> QED BY <1>3, <2>4
  <2>6. z \in AskedFor
    BY DEF AskedFor
  <2>7. z \in OwnSizes /\ z # SIZE_OF_STATE
    BY <2>6, AskedForIs, Constants, StateNotAsked
  <2> HIDE DEF one, no, at, z, fr
  <2>8. Got(FreshState, x, no)
    BY <2>2, <2>3, GetLargeIs
  <2>9. Tame(FreshState.chain, x.chain, z)
    BY <2>2, <2>3, <2>7, GetLargeTame
  <2>10. ChainFits(x.chain) /\ x \in WorkSet
    BY <2>2, <2>7, <2>8, <2>9, FreshFits DEF Tame, Got
  <2> HIDE DEF x
  <2> QED BY <1>1, <1>9, <2>1, <2>5, <2>10, NewStatePass
<1>10. "have" # "slow" /\ "split" # "slow"
  OBVIOUS
<1> HIDE DEF with
<1>11. \/ /\ vecs[TopObjects].items # <<>> /\ UNCHANGED chains
          /\ vecs' = Pop(TopObjects) /\ ReturnPtr(Last(vecs[TopObjects].items))
       \/ /\ vecs[from].items # <<>> /\ UNCHANGED chains
          /\ vecs' = Pop(from) /\ Goto(with(Last(vecs[from].items), "have"))
       \/ Goto([Top EXCEPT !.at = "slow"]) /\ Top.own /\ UNCHANGED <<vecs, chains>>
       \/ /\ vecs[large].items # <<>> /\ UNCHANGED chains
          /\ vecs' = Pop(large) /\ Goto(with(Last(vecs[large].items), "split"))
       \/ /\ UNCHANGED vecs
          /\ \/ \E got \in {GetFreeLargeChunk(FreshState, 1, FALSE)} :
                  NewState(got, with(got.ptr, IF Class = "common" THEN "split" ELSE "have"))
             \/ ReturnPtr(0) /\ UNCHANGED chains
  BY DEF AllocGetChunk, with
<1> HIDE DEF from, large
<1>12. CASE /\ vecs[from].items # <<>> /\ UNCHANGED chains
            /\ vecs' = Pop(from) /\ Goto(with(Last(vecs[from].items), "have"))
  BY <1>2, <1>5, <1>10, <1>12
<1>13. CASE /\ vecs[large].items # <<>> /\ UNCHANGED chains
            /\ vecs' = Pop(large) /\ Goto(with(Last(vecs[large].items), "split"))
  BY <1>2, <1>5, <1>10, <1>13
<1> QED BY <1>4, <1>6, <1>8, <1>9, <1>11, <1>12, <1>13

(* An allocation goes on, without a change of what is asked for ...        *)
LEMMA AllocGoes ==
  ASSUME Base, Pass, frames # <<>>, Top.f = "alloc", UNCHANGED <<table, chains>>, SameCaps(vecs, vecs'),
         NEW fr, fr.f = "alloc", fr.own = Top.own, fr.size = Top.size, fr.at # "slow" \/ Top.own = TRUE,
         Goto(fr)
  PROVE  Pass'
<1>1. Steady(fr, table)
  BY AllocSteady
<1>2. Quietly(frames, frames', ret', table) /\ ChainsFit(chains')
  BY <1>1, GotoQuiet, FitSame
<1> QED BY <1>2, QuietKeeps

(* ... makes a call ...                                                    *)
LEMMA AllocAsks ==
  ASSUME Base, Pass, frames # <<>>, Top.f = "alloc", UNCHANGED <<table, chains>>, SameCaps(vecs, vecs'),
         NEW fr, fr.f = "alloc", fr.own = Top.own, fr.size = Top.size, fr.at # "slow",
         NEW c, c.f # "handle", Steady(c, table), Call(fr, c)
  PROVE  Pass'
<1>1. Steady(fr, table)
  BY AllocSteady
<1>2. Quietly(frames, frames', ret', table) /\ ChainsFit(chains')
  BY <1>1, CallQuiet, FitSame
<1> QED BY <1>2, QuietKeeps

(* ... or returns.                                                         *)
LEMMA AllocReturns ==
  ASSUME Base, Pass, frames # <<>>, Top.f = "alloc", UNCHANGED <<table, chains>>, SameCaps(vecs, vecs'),
         NEW p, ReturnPtr(p)
  PROVE  Pass'
<1>1. Quietly(frames, frames', ret', table) /\ ChainsFit(chains')
  BY ReturnPtrQuiet, FitSame
<1> QED BY <1>1, QuietKeeps

(* A large chunk is divided.                                               *)
LEMMA AllocSplitPass ==
  ASSUME Base, Pass, AllocSplit
  PROVE  Pass'
<1> DEFINE common == FreeChunks("common")
           large == FreeChunks("large")
           split == Stride(Top.chunk, COMMON_CHUNK_SIZE, COMMON_CHUNKS_IN_LARGE_CHUNK)
<1>1. frames # <<>> /\ Top.f = "alloc" /\ UNCHANGED <<table, chains>>
  BY DEF AllocSplit, At
<1>2. Top \in AllocSet /\ common \in Vectors /\ large \in Vectors
  BY <1>1, AllocRecord
<1>3. ~ Bare(common, table) /\ ~ Bare(large, table)
  BY NotBare DEF Classes
<1> DEFINE moved(at, chunk) == [Top EXCEPT !.at = at, !.large = Top.chunk, !.chunk = chunk]
<1>4. ASSUME NEW at, at # "slow", NEW chunk
      PROVE  /\ moved(at, chunk).f = "alloc" /\ moved(at, chunk).own = Top.own
             /\ moved(at, chunk).size = Top.size /\ moved(at, chunk).at # "slow"
  BY <1>2, <1>4 DEF AllocSet
<1>5. CASE vecs[common].items # <<>>
  <2> DEFINE chunk == Last(vecs[common].items)
             fr == moved("putback", chunk)
             one == 1
             put == <<Top.chunk>>
             zero == 0
             yes == TRUE
             c == Reserve(large, one, put, zero, yes)
  <2>1. vecs' = Pop(common) /\ Call(fr, c)
    BY <1>5 DEF AllocSplit
  <2>2. SameCaps(vecs, vecs')
    BY <1>2, <1>5, <2>1, LessPop, LessCaps
  <2>3. fr.f = "alloc" /\ fr.own = Top.own /\ fr.size = Top.size /\ fr.at # "slow"
    BY <1>4
  <2> HIDE DEF fr, one, put, zero, yes, large
  <2>4. Steady(c, table) /\ c.f # "handle"
    BY <1>3, ReserveSteady
  <2> HIDE DEF c
  <2> QED BY <1>1, <2>1, <2>2, <2>3, <2>4, AllocAsks
<1>6. CASE vecs[common].items = <<>>
  <2> DEFINE chunk == Last(split)
             fr == moved("extended", chunk)
             add == COMMON_CHUNKS_IN_LARGE_CHUNK - 1
             put == Front(split)
             zero == 0
             yes == TRUE
             c == Reserve(common, add, put, zero, yes)
  <2>1. UNCHANGED vecs /\ Call(fr, c)
    BY <1>6 DEF AllocSplit
  <2>2. SameCaps(vecs, vecs')
    BY <2>1 DEF SameCaps
  <2>3. fr.f = "alloc" /\ fr.own = Top.own /\ fr.size = Top.size /\ fr.at # "slow"
    BY <1>4
  <2> HIDE DEF fr, add, put, zero, yes, common
  <2>4. Steady(c, table) /\ c.f # "handle"
    BY <1>3, ReserveSteady
  <2> HIDE DEF c
  <2> QED BY <1>1, <2>1, <2>2, <2>3, <2>4, AllocAsks
<1> QED BY <1>5, <1>6

(* ... which is done.                                                      *)
LEMMA AllocSplitDonePass ==
  ASSUME Base, Pass, AllocSplitDone
  PROVE  Pass'
<1>1. frames # <<>> /\ Top.f = "alloc" /\ UNCHANGED <<table, chains, vecs>>
  BY DEF AllocSplitDone, At
<1>2. Top \in AllocSet /\ SameCaps(vecs, vecs')
  BY <1>1, AllocRecord DEF SameCaps
<1> DEFINE fr == [Top EXCEPT !.at = "have"]
           zero == 0
<1>3. ReturnPtr(zero) \/ Goto(fr)
  BY DEF AllocSplitDone
<1>4. fr.f = "alloc" /\ fr.own = Top.own /\ fr.size = Top.size /\ fr.at # "slow"
  BY <1>2 DEF AllocSet
<1> HIDE DEF fr, zero
<1>5. CASE ReturnPtr(zero)
  BY <1>1, <1>2, <1>5, AllocReturns
<1>6. CASE Goto(fr)
  BY <1>1, <1>2, <1>4, <1>6, AllocGoes
<1> QED BY <1>3, <1>5, <1>6

(* A chunk is put into its table, which has its box.                       *)
LEMMA AllocHavePass ==
  ASSUME Base, Pass, TablesExist, AllocHave
  PROVE  Pass'
<1>1. frames # <<>> /\ Top.f = "alloc" /\ UNCHANGED <<table, chains>> /\ At("alloc", "have")
  BY DEF AllocHave, At
<1>2. Top \in AllocSet /\ TopObjects \in Vectors /\ Class \in Classes
  BY <1>1, AllocRecord
<1>3. CASE vecs[TopObjects].items # <<>>
  <2> DEFINE p == Last(vecs[TopObjects].items)
  <2>1. vecs' = Pop(TopObjects) /\ ReturnPtr(p)
    BY <1>3 DEF AllocHave
  <2>2. SameCaps(vecs, vecs')
    BY <1>2, <1>3, <2>1, LessPop, LessCaps
  <2> HIDE DEF p
  <2> QED BY <1>1, <2>1, <2>2, AllocReturns
<1>4. CASE vecs[TopObjects].items = <<>>
  <2> DEFINE fr == [Top EXCEPT !.at = "pushed"]
             v == Chunks(Top.size)
             one == 1
             put == <<Top.chunk>>
             yes == TRUE
             c == Reserve(v, one, put, Top.st, yes)
  <2>1. UNCHANGED vecs /\ Call(fr, c)
    BY <1>4 DEF AllocHave
  <2>2. SameCaps(vecs, vecs')
    BY <2>1 DEF SameCaps
  <2>3. fr.f = "alloc" /\ fr.own = Top.own /\ fr.size = Top.size /\ fr.at # "slow"
    BY <1>2 DEF AllocSet
  <2>4. table[Define(Top.size)] # 0
    <3>1. \A k \in Classes : table[k] # 0
      BY <1>1 DEF TablesExist
    <3> QED BY <1>2, <3>1 DEF Class
  <2>5. ~ Bare(v, table)
    BY <2>4, Boxed
  <2> HIDE DEF fr, one, put, yes, v
  <2>6. Steady(c, table) /\ c.f # "handle"
    BY <2>5, ReserveSteady
  <2> HIDE DEF c
  <2> QED BY <1>1, <2>1, <2>2, <2>3, <2>6, AllocAsks
<1> QED BY <1>3, <1>4

(* There is no memory.                                                     *)
LEMMA GiveUpPass ==
  ASSUME Base, Pass, frames # <<>>, Top.f = "alloc", GiveUp, UNCHANGED <<table, chains, vecs>>
  PROVE  Pass'
<1>1. Top \in AllocSet /\ SameCaps(vecs, vecs') /\ Top.own \in BOOLEAN
  BY AllocTop DEF SameCaps
<1> DEFINE fr == [Top EXCEPT !.at = "slow"]
           zero == 0
<1>2. ReturnPtr(zero) \/ (Goto(fr) /\ Top.own = TRUE)
  BY <1>1 DEF GiveUp
<1>3. fr.f = "alloc" /\ fr.own = Top.own /\ fr.size = Top.size
  BY <1>1 DEF AllocSet
<1> HIDE DEF fr, zero
<1>4. CASE ReturnPtr(zero)
  BY <1>1, <1>4, AllocReturns
<1>5. CASE Goto(fr) /\ Top.own = TRUE
  BY <1>1, <1>3, <1>5, AllocGoes
<1> QED BY <1>2, <1>4, <1>5

(* The objects of a new chunk.                                             *)
LEMMA AllocPushedPass ==
  ASSUME Base, Pass, AllocPushed
  PROVE  Pass'
<1>1. frames # <<>> /\ Top.f = "alloc" /\ UNCHANGED <<table, chains, vecs>>
  BY DEF AllocPushed, At
<1>2. Top \in AllocSet /\ SameCaps(vecs, vecs')
  BY <1>1, AllocRecord DEF SameCaps
<1> DEFINE fr == [Top EXCEPT !.at = "carved"]
           n == PerChunk(Top.size) - 1
           put == Stride(Top.chunk, Top.size, n)
           yes == TRUE
           c == Reserve(TopObjects, n, put, Top.st, yes)
<1>3. GiveUp \/ Call(fr, c)
  BY DEF AllocPushed
<1>4. fr.f = "alloc" /\ fr.own = Top.own /\ fr.size = Top.size /\ fr.at # "slow"
  BY <1>2 DEF AllocSet
<1>5. ~ Bare(TopObjects, table)
  BY NotBare DEF TopObjects
<1> HIDE DEF fr, n, put, yes
<1>6. Steady(c, table) /\ c.f # "handle"
  BY <1>5, ReserveSteady
<1> HIDE DEF c
<1>7. CASE GiveUp
  BY <1>1, <1>7, GiveUpPass
<1>8. CASE Call(fr, c)
  BY <1>1, <1>2, <1>4, <1>6, <1>8, AllocAsks
<1> QED BY <1>3, <1>7, <1>8

(* ... are there.                                                          *)
LEMMA AllocCarvedPass ==
  ASSUME Base, Pass, AllocCarved
  PROVE  Pass'
<1>1. frames # <<>> /\ Top.f = "alloc" /\ UNCHANGED <<table, chains, vecs>>
  BY DEF AllocCarved, At
<1>2. SameCaps(vecs, vecs')
  BY <1>1 DEF SameCaps
<1> DEFINE p == Top.chunk + Top.size * (PerChunk(Top.size) - 1)
<1>3. GiveUp \/ ReturnPtr(p)
  BY DEF AllocCarved
<1> HIDE DEF p
<1>4. CASE GiveUp
  BY <1>1, <1>4, GiveUpPass
<1>5. CASE ReturnPtr(p)
  BY <1>1, <1>2, <1>5, AllocReturns
<1> QED BY <1>3, <1>4, <1>5

(* A State gives memory for a size that is asked for.                      *)
LEMMA SlowSelfAllocPass ==
  ASSUME StatesApart, Base, Pass, SlowSelfAlloc
  PROVE  Pass'
<1>1. frames # <<>> /\ Top.f = "alloc" /\ Top.at = "slow" /\ UNCHANGED <<table, vecs>>
  BY DEF SlowSelfAlloc, At
<1>2. /\ Top \in AllocSet /\ SameCaps(vecs, vecs') /\ Top.own \in BOOLEAN /\ Top.size \in Sizes
      /\ Top.counted \in BOOLEAN /\ Usable(Top.st, chains)
  BY <1>1, AllocTop DEF SameCaps
<1>3. Steady(Top, table) /\ World /\ chains \in Seq(Seq(StateSet)) /\ Len(chains) \in Nat
  BY <1>1, TopSteady, TopIs DEF World, Base, TypeOK
<1>4. Top.own = TRUE /\ Top.size \in AskedFor
  BY <1>1, <1>2, <1>3 DEF Steady
<1>5. Top.size \in OwnSizes /\ Top.size # SIZE_OF_STATE
  BY <1>2, <1>4, StateNotAsked, Constants
<1>6. CASE /\ Top.st # 0
           /\ \E w \in {AllocSize(Work(chains[Top.st]), Top.size, Top.counted)} :
                /\ chains' = [chains EXCEPT ![Top.st] = w.chain]
                /\ ReturnPtr(w.ptr)
  <2> DEFINE st == Top.st
             ch == chains[st]
             w == Work(ch)
             x == AllocSize(w, Top.size, Top.counted)
             p == x.ptr
  <2>1. chains' = [chains EXCEPT ![st] = x.chain] /\ ReturnPtr(p)
    BY <1>6
  <2>2. st \in 1 .. Len(chains) /\ ch # <<>>
    BY <1>2, <1>3, <1>6 DEF Usable
  <2>3. ch \in Seq(StateSet)
    BY <1>3, <2>2, Indices
  <2>4. ChainFits(ch)
    BY <2>2 DEF Pass, ChainsFit
  <2> HIDE DEF ch, st
  <2>5. w \in WorkSet /\ w.chain = ch
    BY <1>3, <2>3, WorkOn
  <2> HIDE DEF w
  <2>6. ChainFits(x.chain)
    BY <1>2, <1>3, <1>4, <1>5, <2>2, <2>4, <2>5, AllocSizeFits
  <2>7. x \in WorkSet
    BY <1>2, <1>3, <1>5, <2>2, <2>5, AllocSizeIs
  <2> HIDE DEF x
  <2>8. x.chain \in Seq(StateSet)
    BY <2>7, WorkIs
  <2>9. ChainsFit(chains')
    BY <1>3, <2>1, <2>2, <2>6, <2>8, FitPut DEF Pass
  <2> HIDE DEF p
  <2>10. Quietly(frames, frames', ret', table)
    BY <1>1, <2>1, ReturnPtrQuiet
  <2> QED BY <1>1, <1>2, <2>9, <2>10, QuietKeeps
<1>7. CASE ReturnPtr(0) /\ UNCHANGED chains
  <2> DEFINE zero == 0
  <2>1. ReturnPtr(zero)
    BY <1>7
  <2> HIDE DEF zero
  <2> QED BY <1>1, <1>2, <1>7, <2>1, AllocReturns
<1>8. CASE \E w \in {AllocSize(FreshState, Top.size, Top.counted)} :
             NewState(w, [Top EXCEPT !.chunk = w.ptr, !.at = "handled"])
  <2> DEFINE x == AllocSize(FreshState, Top.size, Top.counted)
             fr == [Top EXCEPT !.chunk = x.ptr, !.at = "handled"]
  <2>1. NewState(x, fr)
    BY <1>8
  <2>2. FreshState \in WorkSet /\ FreshState.chain # <<>> /\ ChainFits(FreshState.chain)
    BY <1>3, FreshIs, FreshFits
  <2>3. ChainFits(x.chain)
    BY <1>2, <1>3, <1>4, <1>5, <2>2, AllocSizeFits
  <2>4. x \in WorkSet
    BY <1>2, <1>3, <1>5, <2>2, AllocSizeIs
  <2>5. fr.f = "alloc" /\ fr.own = Top.own /\ fr.size = Top.size /\ fr.at # "slow"
    <3> HIDE DEF x
    <3> QED BY <1>2 DEF AllocSet
  <2> HIDE DEF x, fr
  <2>6. Steady(fr, table)
    BY <1>1, <2>5, AllocSteady
  <2> QED BY <1>1, <2>1, <2>3, <2>4, <2>5, <2>6, NewStatePass
<1> QED BY <1>6, <1>7, <1>8 DEF SlowSelfAlloc

(* ... and is handled.                                                     *)
LEMMA SlowSelfAllocHandledPass ==
  ASSUME Base, Pass, SlowSelfAllocHandled
  PROVE  Pass'
<1> DEFINE p == Top.chunk
<1>1. frames # <<>> /\ Top.f = "alloc" /\ UNCHANGED <<table, chains, vecs>> /\ ReturnPtr(p)
  BY DEF SlowSelfAllocHandled, At
<1>2. SameCaps(vecs, vecs')
  BY <1>1 DEF SameCaps
<1> HIDE DEF p
<1> QED BY <1>1, <1>2, AllocReturns

(* The steps of reserve: only the capacity of its own vector changes.      *)
LEMMA QuietGrows ==
  ASSUME Base, Pass, frames # <<>>, Top.f = "reserve", Quietly(frames, frames', ret', table),
         UNCHANGED <<table, chains>>,
         \A v \in Vectors : v # Top.v => vecs'[v].cap = vecs[v].cap
  PROVE  Pass'
<1>1. AllSteady(frames', table) /\ TopPass(frames', chains', vecs', ret')
  BY QuietPass DEF Pass
<1>2. ~ Bare(Top.v, table)
  BY TopSteady DEF Steady
<1>3. BareEmpty(vecs', table)
  BY <1>2 DEF Pass, BareEmpty
<1> QED BY <1>1, <1>3 DEF Pass

(* The same reserve at another place.                                      *)
LEMMA ReserveMoved ==
  ASSUME Base, Pass, frames # <<>>, Top.f = "reserve", NEW fr, fr.f = "reserve", fr.v = Top.v
  PROVE  Steady(fr, table)
<1>1. Steady(Top, table)
  BY TopSteady
<1> QED BY <1>1 DEF Steady

(* alloc_with: the sizes of buffers are powers of two, rounded up to a     *)
(* size.                                                                   *)
LEMMA AllocWithQuiet ==
  ASSUME Base, Pass, frames # <<>>, Top.f = "reserve", NEW min_cap, min_cap \in Nat \ {0},
         AllocWith(Top, min_cap), WithinSizes'
  PROVE  Quietly(frames, frames', ret', table)
<1> DEFINE e == SizeOfElem(Top.v)
           n == min_cap * e
           size == RecommendedSize(NextPowerOfTwo(n))
           cap == size \div e
           fr == [Top EXCEPT !.at = "got", !.cap = cap]
           c == Alloc(size, Top.st, Top.counted, TRUE)
<1>1. frames' = Front(frames) \o <<fr, c>> /\ Call(fr, c)
  BY DEF AllocWith, Call
<1>2. c.f = "alloc" /\ c.size = size
  BY DEF Alloc
<1>3. \A i \in DOMAIN frames' : frames'[i].f = "alloc" => frames'[i].size \in Sizes
  BY DEF WithinSizes
<1>4. frames \in Seq(FrameSet) /\ Top \in ReserveSet
  BY TopIs, ReserveTop
<1>5. n \in Nat
  <2>1. e \in Nat \ {0}
    BY ElemIs
  <2> HIDE DEF e
  <2> QED BY <2>1
<1> HIDE DEF n, e
<1>6. fr.f = "reserve" /\ fr.v = Top.v
  <2> HIDE DEF cap
  <2> QED BY <1>4 DEF ReserveSet
<1> HIDE DEF fr
<1>7. size \in AskedFor
  <2>1. size \in Sizes
    <3> HIDE DEF c, size
    <3> QED BY <1>1, <1>2, <1>3, <1>4, CalleeIn
  <2> QED BY <1>5, <2>1 DEF AskedFor
<1>8. Steady(c, table) /\ c.f # "handle"
  <2> HIDE DEF size
  <2> QED BY <1>7, OwnSteady
<1> HIDE DEF c
<1>9. Steady(fr, table)
  BY <1>6, ReserveMoved
<1> QED BY <1>1, <1>6, <1>8, <1>9, CallQuiet

(* A buffer is asked for.                                                  *)
LEMMA AllocWithPass ==
  ASSUME Base, Pass, frames # <<>>, Top.f = "reserve", NEW min_cap, min_cap \in Nat \ {0},
         AllocWith(Top, min_cap), WithinSizes', UNCHANGED <<table, chains, vecs>>
  PROVE  Pass'
<1>1. Quietly(frames, frames', ret', table)
  BY AllocWithQuiet
<1> QED BY <1>1, QuietGrows

(* reserve returns after it has grown the vector.                          *)
LEMMA FinishPass ==
  ASSUME Base, Pass, frames # <<>>, Top.f = "reserve", NEW vs, VecsOK(vs), Finish(vs, TRUE),
         UNCHANGED <<table, chains>>, \A v \in Vectors : v # Top.v => vs[v].cap = vecs[v].cap
  PROVE  Pass'
<1> DEFINE r == [Nothing EXCEPT !.grew = TRUE]
<1>1. Return(r) /\ vecs' = [vs EXCEPT ![Top.v].items = @ \o Top.put]
  BY DEF Finish
<1>2. r.grew = TRUE
  BY DEF Nothing
<1> HIDE DEF r
<1>3. Quietly(frames, frames', ret', table)
  BY <1>1, <1>2 DEF Return, Quietly
<1>4. DOMAIN vs = Vectors
  BY DEF VecsOK
<1>5. \A v \in Vectors : v # Top.v => vecs'[v].cap = vecs[v].cap
  BY <1>1, <1>4
<1> QED BY <1>3, <1>5, QuietGrows

(* ... or makes a call to give an old buffer back.                         *)
LEMMA ReserveDeallocs ==
  ASSUME Base, Pass, frames # <<>>, Top.f = "reserve", NEW fr, fr.f = "reserve", fr.v = Top.v,
         NEW ptr, NEW size, Call(fr, Dealloc(ptr, size, Top.st)), UNCHANGED <<table, chains>>,
         \A v \in Vectors : v # Top.v => vecs'[v].cap = vecs[v].cap
  PROVE  Pass'
<1> DEFINE c == Dealloc(ptr, size, Top.st)
<1>1. Call(fr, c) /\ Steady(c, table) /\ c.f # "handle"
  BY DeallocSteady
<1> HIDE DEF c
<1>2. Steady(fr, table)
  BY ReserveMoved
<1>3. Quietly(frames, frames', ret', table)
  BY <1>1, <1>2, CallQuiet
<1> QED BY <1>3, QuietGrows

(* The buffer has come.                                                    *)
LEMMA ReserveGotPass ==
  ASSUME Base, Pass, WithinSizes', ReserveGot
  PROVE  Pass'
<1> DEFINE old == vecs[Top.v]
           new == [vecs EXCEPT ![Top.v].ptr = ret.ptr, ![Top.v].cap = Top.cap]
<1>1. frames # <<>> /\ Top.f = "reserve" /\ Top.at = "got" /\ UNCHANGED <<table, chains>>
  BY DEF ReserveGot, At
<1>3. /\ MinCap \in Nat /\ VecsOK(vecs) /\ ret \in RetSet /\ Top.cap \in Nat /\ Fits(Top.v, Top.cap)
      /\ Top.v \in Vectors /\ Top \in ReserveSet /\ old \in VecSet
  BY <1>1, ReserveTop DEF Base, TypeOK
<1>4. ret.ptr \in Nat
  BY <1>3 DEF RetSet
<1>5. \/ /\ MinCap > Top.cap /\ AllocWith(Top, MinCap) /\ UNCHANGED vecs
      \/ /\ Call([Top EXCEPT !.at = "retry", !.min_cap = MinCap],
                 Dealloc(ret.ptr, Top.cap * SizeOfElem(Top.v), Top.st))
         /\ UNCHANGED vecs
      \/ ReturnErr /\ UNCHANGED vecs
      \/ ret.ptr # 0 /\ Finish(new, TRUE)
      \/ /\ vecs' = new
         /\ Call([Top EXCEPT !.at = "freed"],
                 Dealloc(old.ptr, old.cap * SizeOfElem(Top.v), Top.st))
  BY DEF ReserveGot
<1>6. /\ \A v \in Vectors : v # Top.v => new[v].cap = vecs[v].cap
      /\ ret.ptr # 0 => VecsOK(new)
  <2> DEFINE r == [old EXCEPT !.ptr = ret.ptr, !.cap = Top.cap]
  <2>1. r \in VecSet /\ r.cap = Top.cap /\ r.ptr = ret.ptr
    BY <1>3, <1>4 DEF VecSet
  <2>2. new = [vecs EXCEPT ![Top.v] = r] /\ DOMAIN vecs = Vectors
    BY <1>3 DEF VecsOK
  <2> HIDE DEF r, new
  <2>3. \A v \in Vectors : v # Top.v => new[v].cap = vecs[v].cap
    BY <2>2
  <2>4. ret.ptr # 0 => VecsOK(new)
    BY <1>3, <2>1, <2>2, OneVector
  <2> QED BY <2>3, <2>4
<1> HIDE DEF new
<1>7. CASE MinCap > Top.cap /\ AllocWith(Top, MinCap) /\ UNCHANGED vecs
  <2>1. MinCap \in Nat \ {0}
    BY <1>3, <1>7
  <2> QED BY <1>1, <1>7, <2>1, AllocWithPass
<1>8. CASE /\ Call([Top EXCEPT !.at = "retry", !.min_cap = MinCap],
                   Dealloc(ret.ptr, Top.cap * SizeOfElem(Top.v), Top.st))
           /\ UNCHANGED vecs
  <2> DEFINE fr == [Top EXCEPT !.at = "retry", !.min_cap = MinCap]
             ptr == ret.ptr
             size == Top.cap * SizeOfElem(Top.v)
  <2>1. Call(fr, Dealloc(ptr, size, Top.st))
    BY <1>8
  <2>2. fr.f = "reserve" /\ fr.v = Top.v
    BY <1>1, <1>3 DEF ReserveSet
  <2>3. \A v \in Vectors : v # Top.v => vecs'[v].cap = vecs[v].cap
    BY <1>8
  <2> HIDE DEF fr, ptr, size
  <2> QED BY <1>1, <2>1, <2>2, <2>3, ReserveDeallocs
<1>9. CASE ReturnErr /\ UNCHANGED vecs
  <2> DEFINE r == [Nothing EXCEPT !.err = TRUE]
  <2>1. Return(r) /\ r.err = TRUE
    BY <1>9 DEF ReturnErr, Nothing
  <2> HIDE DEF r
  <2>2. Quietly(frames, frames', ret', table)
    BY <2>1 DEF Return, Quietly
  <2> QED BY <1>1, <1>9, <2>2, QuietGrows
<1>10. CASE ret.ptr # 0 /\ Finish(new, TRUE)
  BY <1>1, <1>6, <1>10, FinishPass
<1>11. CASE /\ vecs' = new
            /\ Call([Top EXCEPT !.at = "freed"],
                    Dealloc(old.ptr, old.cap * SizeOfElem(Top.v), Top.st))
  <2> DEFINE fr == [Top EXCEPT !.at = "freed"]
             ptr == old.ptr
             size == old.cap * SizeOfElem(Top.v)
  <2>1. Call(fr, Dealloc(ptr, size, Top.st))
    BY <1>11
  <2>2. fr.f = "reserve" /\ fr.v = Top.v
    BY <1>1, <1>3 DEF ReserveSet
  <2>3. \A v \in Vectors : v # Top.v => vecs'[v].cap = vecs[v].cap
    BY <1>6, <1>11
  <2> HIDE DEF fr, ptr, size
  <2> QED BY <1>1, <2>1, <2>2, <2>3, ReserveDeallocs
<1> QED BY <1>5, <1>7, <1>8, <1>9, <1>10, <1>11

(* ... was too small ...                                                   *)
LEMMA ReserveRetryPass ==
  ASSUME Base, Pass, WithinSizes', ReserveRetry
  PROVE  Pass'
<1>1. /\ frames # <<>> /\ Top.f = "reserve" /\ Top.at = "retry" /\ UNCHANGED <<table, chains, vecs>>
      /\ AllocWith(Top, Top.min_cap)
  BY DEF ReserveRetry, At
<1>2. Top.min_cap \in Nat \ {0}
  BY <1>1, ReserveTop
<1> DEFINE m == Top.min_cap
<1>3. AllocWith(Top, m) /\ m \in Nat \ {0}
  BY <1>1, <1>2
<1> HIDE DEF m
<1> QED BY <1>1, <1>3, AllocWithPass

(* ... and the old one has been given back.                                *)
LEMMA ReserveFreedPass ==
  ASSUME Base, Pass, WithinSizes', ReserveFreed
  PROVE  Pass'
<1>1. frames # <<>> /\ Top.f = "reserve" /\ UNCHANGED <<table, chains>>
  BY DEF ReserveFreed, At
<1>2. MinCap \in Nat /\ Top.cap \in Nat /\ VecsOK(vecs)
  BY <1>1, ReserveTop DEF Base, TypeOK
<1>3. CASE MinCap > Top.cap
  <2>1. AllocWith(Top, MinCap) /\ UNCHANGED vecs
    BY <1>3 DEF ReserveFreed
  <2>2. MinCap \in Nat \ {0}
    BY <1>2, <1>3
  <2> QED BY <1>1, <2>1, <2>2, AllocWithPass
<1>4. CASE ~ (MinCap > Top.cap)
  <2>1. Finish(vecs, TRUE)
    BY <1>4 DEF ReserveFreed
  <2> QED BY <1>1, <1>2, <2>1, FinishPass
<1> QED BY <1>3, <1>4

(* A vector that will grow is asked for room for something.                *)
LEMMA AsksSome ==
  ASSUME NEW p, p \in HandleSet, Tasks(p.phase, p.todo), NEW vs, WillGrow(p, vs), NEW state
  PROVE  AddOf(p.todo[1], state) # 0
<1>1. p.todo \in Seq(TaskSet)
  BY DEF HandleSet
<1> DEFINE todo == p.todo
           n == Len(todo)
<1>2. n \in Nat \ {0}
  BY <1>1, Indices DEF WillGrow
<1> HIDE DEF n
<1>3. 1 \in 1 .. n
  BY <1>2
<1>4. \A i \in 1 .. n : ForChunks(todo[i], PhaseClass[p.phase])
  BY DEF Tasks, WillGrow, n
<1>5. ForChunks(todo[1], PhaseClass[p.phase])
  BY <1>3, <1>4
<1> QED BY <1>5 DEF ForChunks, AddOf

(* A vector that has room for what it is asked for is left as it is.       *)
LEMMA PutNothing ==
  ASSUME NEW vs, VecsOK(vs), NEW v, v \in Vectors
  PROVE  [vs EXCEPT ![v].items = @ \o <<>>] = vs
<1> DEFINE i == vs[v].items
           j == i \o <<>>
           r == [vs[v] EXCEPT !.items = j]
<1>1. vs \in [Vectors -> VecSet] /\ vs[v] \in VecSet
  BY DEF VecsOK
<1>2. i \in Seq(Ptr)
  BY <1>1 DEF VecSet
<1>3. j = i
  <2> HIDE DEF i
  <2> QED BY <1>2
<1> HIDE DEF j
<1>4. r = vs[v]
  BY <1>1, <1>3 DEF VecSet
<1>5. [vs EXCEPT ![v].items = @ \o <<>>] = [vs EXCEPT ![v] = r]
  BY DEF j
<1> HIDE DEF r
<1> QED BY <1>1, <1>4, <1>5

(* A pass learns that there is room: what it has reserved stays reserved.  *)
LEMMA AskedPass ==
  ASSUME Base, Pass, frames # <<>>, Top.f = "reserve", Top.at = "test", panicked = FALSE,
         MinCap <= vecs[Top.v].cap, Len(frames) > 1,
         frames[Len(frames) - 1].f = "handle", frames[Len(frames) - 1].at = "reserved"
  PROVE  LET p == frames[Len(frames) - 1] IN
         /\ Top.put = <<>>
         /\ p.more = FALSE => /\ Reserved(p, chains[p.k][1], vecs)
                              /\ Roomy(p.todo[1], chains[p.k][1], vecs)
<1> DEFINE n == Len(frames)
           p == frames[n - 1]
           state == chains[p.k][1]
<1>1. frames \in Seq(FrameSet) /\ n \in Nat \ {0} /\ Top = frames[n] /\ n > 1
  BY TopIs, Ends
<1>2. Asks(p, Top, chains, vecs)
  BY <1>1 DEF Pass, TopPass
<1>3. /\ Top.v = p.todo[1].v /\ Top.add = AddOf(p.todo[1], state) /\ Top.put = <<>>
      /\ PassOK(p, chains, vecs)
  BY <1>2 DEF Asks
<1>4. p \in HandleSet /\ Tasks(p.phase, p.todo)
  <2>1. \A i \in 1 .. n : Steady(frames[i], table)
    BY DEF Pass, AllSteady
  <2>2. n - 1 \in 1 .. n
    <3> HIDE DEF n, p
    <3> QED BY <1>1
  <2>3. Steady(p, table) /\ p \in FrameSet
    BY <1>1, <2>1, <2>2, Indices
  <2> HIDE DEF p
  <2>4. p.f = "handle"
    BY DEF p
  <2> QED BY <2>3, <2>4, FrameIs DEF Steady
<1>5. /\ vecs[Top.v].cap \in Nat /\ vecs[Top.v].items \in Seq(Ptr) /\ Top.add \in Nat
  BY ReserveTop
<1> DEFINE l == Len(vecs[Top.v].items)
<1>6. l \in Nat
  BY <1>5, Indices
<1>7. l + Top.add <= vecs[Top.v].cap
  BY DEF MinCap, Size
<1> HIDE DEF l, p, n, state
<1>8. Roomy(p.todo[1], state, vecs)
  BY <1>3, <1>7 DEF Roomy, l
<1>9. ASSUME WillGrow(p, vecs) PROVE FALSE
  <2>1. Top.add # 0
    BY <1>3, <1>4, <1>9, AsksSome
  <2>2. vecs[Top.v].cap = 0
    BY <1>3, <1>9 DEF WillGrow
  <2> QED BY <1>5, <1>6, <1>7, <2>1, <2>2
<1>10. p.more = FALSE => Reserved(p, state, vecs)
  BY <1>3, <1>9 DEF PassOK, state
<1> QED BY <1>3, <1>8, <1>10 DEF p, n, state

(* reserve begins.                                                         *)
LEMMA ReserveTestPass ==
  ASSUME Base, Pass, WithinSizes', ReserveTest
  PROVE  Pass'
<1>1. frames # <<>> /\ Top.f = "reserve" /\ Top.at = "test" /\ UNCHANGED <<table, chains>> /\ ~ panicked
  BY DEF ReserveTest, At
<1>2. /\ MinCap \in Nat /\ VecsOK(vecs) /\ Top.v \in Vectors /\ vecs[Top.v].cap \in Nat
      /\ panicked = FALSE
  BY <1>1, ReserveTop DEF Base, TypeOK
<1>3. CASE ~ (vecs[Top.v].cap >= MinCap)
  <2>1. AllocWith(Top, MinCap) /\ UNCHANGED vecs
    BY <1>3 DEF ReserveTest
  <2>2. MinCap \in Nat \ {0}
    BY <1>2, <1>3
  <2> QED BY <1>1, <2>1, <2>2, AllocWithPass
<1>4. CASE vecs[Top.v].cap >= MinCap
  <2> DEFINE n == Len(frames)
             r == [Nothing EXCEPT !.grew = FALSE]
             p == frames[n - 1]
  <2>1. Return(r) /\ vecs' = [vecs EXCEPT ![Top.v].items = @ \o Top.put]
    BY <1>4 DEF ReserveTest, Finish
  <2> HIDE DEF r
  <2>2. frames' = Front(frames) /\ frames \in Seq(FrameSet)
    BY <1>1, <2>1, TopIs DEF Return
  <2>3. AllSteady(frames', table)
    BY <1>1, <2>2, SteadyReturn DEF Pass
  <2>4. BareEmpty(vecs', table)
    <3>1. DOMAIN vecs = Vectors
      BY <1>2 DEF VecsOK
    <3>2. \A v \in Vectors : vecs'[v].cap = vecs[v].cap
      BY <1>2, <2>1, <3>1
    <3> QED BY <3>2 DEF Pass, BareEmpty
  <2>5. /\ n \in Nat \ {0} /\ Len(frames') = n - 1 /\ Top = frames[n]
        /\ \A i \in 1 .. n - 1 : frames'[i] = frames[i]
    BY <1>1, <2>2, Ends, TopIs
  <2>6. \A i \in 1 .. n - 1 : Calls(frames[i], frames[i + 1])
    BY DEF Base, StackOK, Nested
  <2>7. TopPass(frames', chains, vecs', ret')
    <3>1. CASE n = 1
      <4>1. Len(frames') = 0
        BY <2>5, <3>1
      <4> QED BY <4>1 DEF TopPass
    <3>2. CASE n # 1
      <4>1. n - 1 \in 1 .. n - 1 /\ (n - 1) + 1 = n /\ n > 1
        <5> HIDE DEF n
        <5> QED BY <2>5, <3>2
      <4>2. frames'[n - 1] = p /\ Calls(p, Top)
        BY <2>5, <2>6, <4>1
      <4>3. p.f = "handle" /\ p.at = "reserved" =>
              /\ Top.put = <<>>
              /\ p.more = FALSE => Reserved(p, chains[p.k][1], vecs) /\ Roomy(p.todo[1], chains[p.k][1], vecs)
        <5>1. MinCap <= vecs[Top.v].cap
          BY <1>2, <1>4
        <5> QED BY <1>1, <1>2, <4>1, <5>1, AskedPass
      <4>4. Top.put = <<>> => vecs' = vecs
        BY <1>2, <2>1, PutNothing
      <4> HIDE DEF p
      <4>5. OnTop(p, chains, vecs', ret')
        <5>1. p.f = "handle" => p.at \in {"reserved", "dealloc"}
          BY <1>1, <4>2 DEF Calls
        <5>2. p.f = "handle" /\ p.at = "reserved" /\ p.more = FALSE =>
                Reserved(p, chains[p.k][1], vecs') /\ Roomy(p.todo[1], chains[p.k][1], vecs')
          BY <4>3, <4>4
        <5> QED BY <5>1, <5>2 DEF OnTop
      <4>6. \A o : Asks(o, p, chains, vecs')
        BY <1>1, <4>2 DEF Asks, Calls
      <4> QED BY <2>5, <4>2, <4>5, <4>6 DEF TopPass
    <3> QED BY <3>1, <3>2
  <2> QED BY <1>1, <2>3, <2>4, <2>7 DEF Pass
<1> QED BY <1>3, <1>4

(* handle_state goes on: what is said of a pass on top has to be shown.    *)
LEMMA HandleGoes ==
  ASSUME Base, frames # <<>>, NEW fr, Goto(fr), fr.f = "handle", AllSteady(frames, table'),
         Steady(fr, table'), OnTop(fr, chains', vecs', ret'), BareEmpty(vecs', table'), ChainsFit(chains')
  PROVE  Pass'
<1> DEFINE tb == table'
           n == Len(frames)
<1>1. frames' = Append(Front(frames), fr) /\ frames \in Seq(FrameSet)
  BY TopIs DEF Goto
<1>2. AllSteady(frames, tb) /\ Steady(fr, tb)
  OBVIOUS
<1> HIDE DEF tb
<1>3. AllSteady(frames', tb) /\ Len(frames') = n /\ frames'[n] = fr
  BY <1>1, <1>2, SteadyGoto
<1>4. \A p : Asks(p, fr, chains', vecs')
  BY DEF Asks
<1>5. TopPass(frames', chains', vecs', ret')
  BY <1>3, <1>4 DEF TopPass
<1> QED BY <1>3, <1>5 DEF Pass, tb

(* ... with nothing else changed.                                          *)
LEMMA HandleGoesOn ==
  ASSUME Base, Pass, frames # <<>>, NEW fr, Goto(fr), fr.f = "handle", UNCHANGED <<table, chains, vecs>>,
         Steady(fr, table), OnTop(fr, chains, vecs, Nothing)
  PROVE  Pass'
<1>1. AllSteady(frames, table') /\ BareEmpty(vecs', table') /\ ChainsFit(chains') /\ Steady(fr, table')
  BY DEF Pass
<1>2. OnTop(fr, chains', vecs', ret')
  BY DEF Goto
<1> QED BY <1>1, <1>2, HandleGoes

(* A panic.                                                                *)
LEMMA PanicPass ==
  ASSUME Pass, Panic
  PROVE  Pass'
  BY DEF Pass, Panic

(* What is known of a pass that is on top.                                 *)
LEMMA TopKnown ==
  ASSUME Base, Pass, frames # <<>>, ~ panicked
  PROVE  OnTop(Top, chains, vecs, ret) /\ Steady(Top, table)
<1>1. panicked = FALSE
  BY DEF Base, TypeOK
<1> DEFINE n == Len(frames)
<1>2. n \in Nat \ {0} /\ Top = frames[n]
  BY TopIs, Ends
<1>3. OnTop(frames[n], chains, vecs, ret)
  BY <1>1, <1>2 DEF Pass, TopPass
<1> QED BY <1>2, <1>3, TopSteady

(* A new pass has not reserved anything yet.                               *)
LEMMA NothingReserved ==
  ASSUME NEW fr, fr.f = "handle", fr.at = "reserve", fr.phase = 0, NEW chs, NEW vs, NEW rt
  PROVE  OnTop(fr, chs, vs, rt)
<1>1. \A q \in 1 .. 0 : FALSE
  OBVIOUS
<1>2. \A state : Reserved(fr, state, vs)
  BY <1>1 DEF Reserved
<1> QED BY <1>2 DEF OnTop, PassOK

(* init_non_local_ptr_manager ...                                          *)
LEMMA HandleNlpmPass ==
  ASSUME Base, Pass, HandleNlpm
  PROVE  Pass'
<1>1. frames # <<>> /\ Top.f = "handle" /\ Top.at = "nlpm" /\ UNCHANGED <<table, chains, vecs>> /\ ~ panicked
  BY DEF HandleNlpm, At
<1>2. Top \in HandleSet /\ Steady(Top, table)
  BY <1>1, HandleTop, TopSteady
<1>3. Top.phase = 0 /\ Tasks(Top.phase, Top.todo)
  BY <1>1, <1>2 DEF Steady
<1> DEFINE fr(at) == [Top EXCEPT !.at = at]
<1>4. ASSUME NEW at
      PROVE  /\ fr(at).f = "handle" /\ fr(at).at = at /\ fr(at).phase = 0 /\ Steady(fr(at), table)
  <2> DEFINE g == fr(at)
  <2>1. g.f = "handle" /\ g.at = at /\ g.phase = Top.phase /\ g.todo = Top.todo
    BY <1>2 DEF HandleSet
  <2> HIDE DEF g
  <2>2. Steady(g, table)
    BY <1>3, <2>1 DEF Steady
  <2> QED BY <1>3, <2>1, <2>2 DEF g
<1>5. CASE nlpm = 0
  <2> DEFINE g == fr("inited")
             size == SIZE_OF_NLPM
             yes == TRUE
             c == Alloc(size, Top.k, yes, TRUE)
  <2>1. Call(g, c)
    BY <1>5 DEF HandleNlpm
  <2>2. size \in AskedFor
    BY DEF AskedFor
  <2>3. g.at # "reserved" /\ Steady(g, table)
    BY <1>4
  <2> HIDE DEF size, yes, g
  <2>4. Steady(c, table) /\ c.f # "handle"
    BY <2>2, OwnSteady
  <2> HIDE DEF c
  <2>5. Quietly(frames, frames', ret', table)
    BY <2>1, <2>3, <2>4, CallQuiet
  <2>6. SameCaps(vecs, vecs') /\ ChainsFit(chains')
    BY <1>1, FitSame DEF SameCaps
  <2> QED BY <1>1, <2>5, <2>6, QuietKeeps
<1>6. CASE nlpm # 0
  <2> DEFINE g == fr("reserve")
  <2>1. Goto(g)
    BY <1>6 DEF HandleNlpm
  <2>2. g.f = "handle" /\ g.at = "reserve" /\ g.phase = 0 /\ Steady(g, table)
    BY <1>4
  <2> HIDE DEF g
  <2>3. OnTop(g, chains, vecs, Nothing)
    BY <2>2, NothingReserved
  <2> QED BY <1>1, <2>1, <2>2, <2>3, HandleGoesOn
<1> QED BY <1>5, <1>6

(* ... is done.                                                            *)
LEMMA HandleInitedPass ==
  ASSUME Base, Pass, HandleInited
  PROVE  Pass'
<1>1. frames # <<>> /\ Top.f = "handle" /\ Top.at = "inited" /\ UNCHANGED <<table, chains, vecs>>
  BY DEF HandleInited, At
<1>2. Top \in HandleSet /\ Steady(Top, table)
  BY <1>1, HandleTop, TopSteady
<1>3. Top.phase = 0 /\ Tasks(Top.phase, Top.todo)
  BY <1>1, <1>2 DEF Steady
<1> DEFINE g == [Top EXCEPT !.at = "reserve"]
<1>4. g.f = "handle" /\ g.at = "reserve" /\ g.phase = 0 /\ g.todo = Top.todo
  BY <1>2, <1>3 DEF HandleSet
<1>5. Goto(g)
  BY DEF HandleInited
<1> HIDE DEF g
<1>6. Steady(g, table)
  BY <1>3, <1>4 DEF Steady
<1>7. OnTop(g, chains, vecs, Nothing)
  BY <1>4, NothingReserved
<1> QED BY <1>1, <1>4, <1>5, <1>6, <1>7, HandleGoesOn

(* The tasks of each part of a pass.                                       *)
LEMMA TasksAre ==
  ASSUME StatesApart, NEW state, state \in StateSet, StateFits(state), NEW q, q \in 1 .. 7
  PROVE  Tasks(q, ToReserve(state, q))
<1> DEFINE todo == ToReserve(state, q)
<1>1. CASE q \in {1, 2}
  <2> DEFINE used == state.used[PhaseClass[q]]
  <2>1. Len(todo) = Len(used) /\ \A i \in 1 .. Len(used) : todo[i].v = Objects(RecommendedSize(used[i].size))
    BY <1>1, SlotTasks
  <2> HIDE DEF todo, used
  <2>2. \A x, s : Objects(x) # Chunks(s)
    BY DEF Objects, Chunks
  <2>3. \A i \in 1 .. Len(todo) : \A s \in Sizes : todo[i].v # Chunks(s)
    BY <2>1, <2>2
  <2> QED BY <1>1, <2>3 DEF Tasks, todo
<1>2. CASE q \in {3, 4}
  <2> DEFINE class == PhaseClass[q]
             used == state.used[class]
             arr == CountAllUsedChunks(used)
             z == SIZE_OF_STATE
             Z == {y \in OwnSizes : Define(y) = class}
  <2>1. /\ Len(todo) = Len(arr)
        /\ \A i \in 1 .. Len(arr) :
             /\ todo[i].v = Chunks(RecommendedSize(arr[i].size))
             /\ todo[i].slot = <<>> /\ todo[i].add = arr[i].number
    BY <1>2, ChunkTasks
  <2>2. class \in Classes
    BY <1>2 DEF PhaseClass, Classes
  <2>3. used \in Seq(UsedSet) /\ UsedFits(used, class)
    BY <2>2, StateIs DEF StateFits
  <2> HIDE DEF class, todo
  <2>4. \A i \in 1 .. Len(used) : used[i].size \in Z
    <3> SUFFICES ASSUME NEW i \in 1 .. Len(used) PROVE used[i].size \in Z
      OBVIOUS
    <3>1. used[i] \in UsedSet
      BY <2>3, Indices
    <3>2. Define(used[i].size) = class
      BY <2>3 DEF UsedFits
    <3> QED BY <3>1, <3>2 DEF UsedSet
  <2> HIDE DEF used
  <2>5. z \in OwnSizes
    BY Constants
  <2> HIDE DEF z, Z
  <2>6. NonZero(arr) /\ Counts(arr) /\ \A i \in DOMAIN arr : arr[i].size \in Z
    BY <2>3, <2>4, <2>5, CountsRunning, CountIs, CountsWithin
  <2> HIDE DEF arr
  <2>7. DOMAIN arr = 1 .. Len(arr)
    BY <2>6, SortedIs DEF Counts
  <2>8. ASSUME NEW i \in 1 .. Len(todo) PROVE ForChunks(todo[i], class)
    <3> DEFINE y == arr[i].size
               s == RecommendedSize(y)
    <3>1. i \in DOMAIN arr /\ i \in 1 .. Len(arr)
      BY <2>1, <2>7, <2>8
    <3>2. todo[i].v = Chunks(s) /\ todo[i].slot = <<>> /\ todo[i].add # 0
      BY <2>1, <2>6, <3>1 DEF NonZero
    <3>3. y \in OwnSizes /\ Define(y) = class
      BY <2>6, <3>1 DEF Z
    <3> HIDE DEF y
    <3>4. s \in Sizes /\ Define(s) = class
      BY <3>3, OwnVectors, RecommendedClass
    <3> QED BY <3>2, <3>4 DEF ForChunks
  <2> QED BY <1>2, <2>8 DEF Tasks, class, todo
<1>3. CASE q \in {5, 6, 7}
  <2>1. /\ Regions[1] # "chunks" /\ FreeChunks("large")[1] # "chunks" /\ FreeChunks("common")[1] # "chunks"
        /\ \A s : Chunks(s)[1] = "chunks"
    BY DEF Regions, FreeChunks, Chunks
  <2>2. \E v, add : todo = <<[v |-> v, slot |-> <<>>, add |-> add, counted |-> FALSE]>> /\ v[1] # "chunks"
    <3> HIDE DEF todo
    <3>1. CASE q = 5
      BY <2>1, <3>1, FreeTasks DEF todo
    <3>2. CASE q = 6
      BY <2>1, <3>2, FreeTasks DEF todo
    <3>3. CASE q = 7
      BY <2>1, <3>3, FreeTasks DEF todo
    <3> QED BY <1>3, <3>1, <3>2, <3>3
  <2> HIDE DEF todo
  <2>3. PICK v, add : todo = <<[v |-> v, slot |-> <<>>, add |-> add, counted |-> FALSE]>> /\ v[1] # "chunks"
    BY <2>2
  <2>4. \A i \in 1 .. Len(todo) : todo[i].v = v
    BY <2>3
  <2>5. \A i \in 1 .. Len(todo) : \A s \in Sizes : todo[i].v # Chunks(s)
    BY <2>1, <2>3, <2>4
  <2> QED BY <1>3, <2>5 DEF Tasks, todo
<1> QED BY <1>1, <1>2, <1>3

(* A pass comes to its next part.                                          *)
LEMMA PhaseReserves ==
  ASSUME NEW fr, fr.phase \in 0 .. 7, fr.todo = <<>>, NEW state, NEW vs,
         NEW gr, gr.phase \in 1 .. 7, gr.todo = ToReserve(state, gr.phase),
         gr.phase = 1 \/ (gr.phase = fr.phase + 1 /\ Reserved(fr, state, vs))
  PROVE  Reserved(gr, state, vs)
<1> SUFFICES ASSUME NEW q \in 1 .. gr.phase, NEW n \in 1 .. Len(ToReserve(state, q))
             PROVE  \/ Roomy(ToReserve(state, q)[n], state, vs)
                    \/ /\ q = gr.phase
                       /\ \E m \in 1 .. Len(gr.todo) : gr.todo[m] = ToReserve(state, q)[n]
  BY DEF Reserved
<1>1. CASE q = gr.phase
  BY <1>1
<1>2. CASE q # gr.phase
  <2>1. gr.phase = fr.phase + 1 /\ Reserved(fr, state, vs)
    BY <1>2
  <2>2. q \in 1 .. fr.phase
    BY <1>2, <2>1
  <2>3. Len(fr.todo) = 0
    OBVIOUS
  <2>4. ~ \E m \in 1 .. Len(fr.todo) : fr.todo[m] = ToReserve(state, q)[n]
    BY <2>3
  <2> QED BY <2>1, <2>2, <2>4 DEF Reserved
<1> QED BY <1>1, <1>2

(* ... has come to its end ...                                             *)
LEMMA AllReserved ==
  ASSUME NEW fr, fr.phase = 7, fr.todo = <<>>, NEW state, NEW vs, Reserved(fr, state, vs)
  PROVE  AllRoomy(state, vs)
<1> SUFFICES ASSUME NEW q \in 1 .. 7, NEW n \in 1 .. Len(ToReserve(state, q))
             PROVE  Roomy(ToReserve(state, q)[n], state, vs)
  BY DEF AllRoomy
<1>1. q \in 1 .. fr.phase
  OBVIOUS
<1>2. Len(fr.todo) = 0
  OBVIOUS
<1>3. ~ \E m \in 1 .. Len(fr.todo) : fr.todo[m] = ToReserve(state, q)[n]
  BY <1>2
<1> QED BY <1>1, <1>3 DEF Reserved

(* ... or has done a task.                                                 *)
LEMMA TailReserves ==
  ASSUME NEW fr, fr.todo \in Seq(TaskSet), fr.todo # <<>>, NEW state, NEW vs, Reserved(fr, state, vs),
         Roomy(fr.todo[1], state, vs), NEW gr, gr.phase = fr.phase, gr.todo = Tail(fr.todo)
  PROVE  Reserved(gr, state, vs)
<1> DEFINE todo == fr.todo
           l == Len(todo)
<1>1. Len(gr.todo) = l - 1 /\ \A i \in 1 .. l - 1 : gr.todo[i] = todo[i + 1]
  BY TailIs
<1>2. l \in Nat \ {0}
  BY Indices
<1> SUFFICES ASSUME NEW q \in 1 .. gr.phase, NEW n \in 1 .. Len(ToReserve(state, q))
             PROVE  \/ Roomy(ToReserve(state, q)[n], state, vs)
                    \/ /\ q = gr.phase
                       /\ \E m \in 1 .. Len(gr.todo) : gr.todo[m] = ToReserve(state, q)[n]
  BY DEF Reserved
<1> DEFINE t == ToReserve(state, q)[n]
<1>3. \/ Roomy(t, state, vs)
      \/ q = fr.phase /\ \E m \in 1 .. l : todo[m] = t
  BY DEF Reserved
<1> HIDE DEF l, t
<1>4. ASSUME q = fr.phase, NEW m \in 1 .. l, todo[m] = t
      PROVE  \/ Roomy(t, state, vs)
             \/ q = gr.phase /\ \E i \in 1 .. Len(gr.todo) : gr.todo[i] = t
  <2>1. CASE m = 1
    BY <1>4, <2>1
  <2>2. CASE m # 1
    <3>1. m - 1 \in 1 .. l - 1 /\ (m - 1) + 1 = m
      BY <1>2, <2>2
    <3>2. gr.todo[m - 1] = t /\ m - 1 \in 1 .. Len(gr.todo)
      BY <1>1, <1>4, <3>1
    <3> QED BY <1>4, <3>2
  <2> QED BY <2>1, <2>2
<1> QED BY <1>3, <1>4 DEF t

(* handle_state begins a part of a pass, or the commit.                    *)
LEMMA HandlePhasePass ==
  ASSUME StatesApart, Base, Pass, HandlePhase
  PROVE  Pass'
<1> DEFINE phase == IF Top.phase = 7 THEN 1 ELSE Top.phase + 1
<1>1. /\ frames # <<>> /\ Top.f = "handle" /\ Top.at = "reserve" /\ Top.todo = <<>> /\ ~ panicked
      /\ UNCHANGED <<table, chains, vecs>>
  BY DEF HandlePhase, At
<1>2. /\ Top \in HandleSet /\ State \in StateSet /\ State = chains[Top.k][1] /\ Top.more \in BOOLEAN
      /\ Top.phase \in 0 .. 7 /\ chains[Top.k] # <<>> /\ Top.k \in 1 .. Len(chains)
      /\ chains[Top.k] \in Seq(StateSet)
  BY <1>1, HandleTop
<1>3. OnTop(Top, chains, vecs, ret) /\ Steady(Top, table)
  BY <1>1, TopKnown
<1>4. Top.more = FALSE => Reserved(Top, State, vecs)
  <2>1. PassOK(Top, chains, vecs)
    BY <1>1, <1>3 DEF OnTop
  <2>2. ~ WillGrow(Top, vecs)
    BY <1>1 DEF WillGrow
  <2> QED BY <1>2, <2>1, <2>2 DEF PassOK
<1>5. CASE Top.phase = 7 /\ ~ Top.more
  <2> DEFINE fr == [Top EXCEPT !.at = "commit"]
  <2>1. Goto(fr)
    BY <1>5 DEF HandlePhase
  <2>2. fr.f = "handle" /\ fr.at = "commit" /\ fr.k = Top.k /\ fr.phase = Top.phase /\ fr.todo = Top.todo
    BY <1>1, <1>2 DEF HandleSet
  <2> HIDE DEF fr
  <2>3. Steady(fr, table)
    BY <1>1, <1>3, <2>2 DEF Steady
  <2>4. AllRoomy(State, vecs)
    BY <1>1, <1>2, <1>4, <1>5, AllReserved
  <2>5. OnTop(fr, chains, vecs, Nothing)
    BY <1>2, <2>2, <2>4 DEF OnTop
  <2> QED BY <1>1, <2>1, <2>2, <2>3, <2>5, HandleGoesOn
<1>6. CASE ~ (Top.phase = 7 /\ ~ Top.more)
  <2> DEFINE todo == ToReserve(State, phase)
             more == IF phase = 1 THEN FALSE ELSE Top.more
             fr == [Top EXCEPT !.phase = phase, !.todo = todo, !.more = more]
  <2>1. Goto(fr)
    BY <1>2, <1>6 DEF HandlePhase, HandleSet
  <2>2. phase \in 1 .. 7 /\ (phase = 1 \/ (phase = Top.phase + 1 /\ more = Top.more))
    <3>1. phase \in 1 .. 7 /\ (phase = 1 \/ phase = Top.phase + 1)
      BY <1>2
    <3> HIDE DEF phase
    <3>2. phase # 1 => more = Top.more
      OBVIOUS
    <3> HIDE DEF more
    <3> QED BY <3>1, <3>2
  <2>3. StateFits(State)
    <3>1. ChainFits(chains[Top.k])
      BY <1>2 DEF Pass, ChainsFit
    <3> DEFINE n == Len(chains[Top.k])
    <3>2. n \in Nat \ {0}
      BY <1>2, Indices
    <3> HIDE DEF n
    <3>3. 1 \in 1 .. n
      BY <3>2
    <3> QED BY <1>2, <3>1, <3>3 DEF ChainFits, n
  <2>4. Tasks(phase, todo)
    <3> HIDE DEF phase
    <3> QED BY <1>2, <2>2, <2>3, TasksAre
  <2>5. todo = ToReserve(State, phase)
    OBVIOUS
  <2> HIDE DEF todo, phase, more
  <2>6. /\ fr.f = "handle" /\ fr.at = "reserve" /\ fr.k = Top.k /\ fr.phase = phase /\ fr.todo = todo
        /\ fr.more = more
    BY <1>1, <1>2 DEF HandleSet
  <2> HIDE DEF fr
  <2>7. Steady(fr, table)
    BY <2>4, <2>6 DEF Steady
  <2>8. more = FALSE => Reserved(fr, State, vecs)
    BY <1>1, <1>2, <1>4, <2>2, <2>5, <2>6, PhaseReserves
  <2>9. OnTop(fr, chains, vecs, Nothing)
    BY <1>2, <2>6, <2>8 DEF OnTop, PassOK
  <2> QED BY <1>1, <2>1, <2>6, <2>7, <2>9, HandleGoesOn
<1> QED BY <1>5, <1>6

(* The vector of the next task is that of a table that has its box, or of  *)
(* no table.                                                               *)
LEMMA TaskBoxed ==
  ASSUME Base, Pass, frames # <<>>, Top.f = "handle", Top.todo # <<>>,
         ~ (Top.phase \in {3, 4} /\ table[PhaseClass[Top.phase]] = 0)
  PROVE  ~ Bare(Top.todo[1].v, table)
<1> DEFINE todo == Top.todo
           n == Len(todo)
           v == todo[1].v
<1>1. todo \in Seq(TaskSet) /\ Tasks(Top.phase, todo)
  BY HandleTop, TopSteady DEF Steady
<1>2. n \in Nat \ {0}
  BY <1>1, Indices
<1> HIDE DEF n
<1>3. 1 \in 1 .. n
  BY <1>2
<1>4. CASE Top.phase \in {3, 4}
  <2>1. ForChunks(todo[1], PhaseClass[Top.phase])
    BY <1>1, <1>3, <1>4 DEF Tasks, n
  <2>2. PICK s \in Sizes : v = Chunks(s) /\ Define(s) = PhaseClass[Top.phase]
    BY <2>1 DEF ForChunks
  <2>3. table[Define(s)] # 0
    BY <1>4, <2>2
  <2>4. ~ Bare(Chunks(s), table)
    BY <2>3, Boxed
  <2> QED BY <2>2, <2>4
<1>5. CASE Top.phase \notin {3, 4}
  <2>1. \A s \in Sizes : v # Chunks(s)
    BY <1>1, <1>3, <1>5 DEF Tasks, n
  <2> QED BY <2>1 DEF Bare
<1> QED BY <1>4, <1>5

(* A task is done.                                                         *)
LEMMA HandleReservePass ==
  ASSUME Base, Pass, HandleReserve
  PROVE  Pass'
<1> DEFINE task == Head(Top.todo)
           add == IF task.slot = <<>> THEN task.add ELSE State.used[task.slot[1]][task.slot[2]].slots
           class == PhaseClass[Top.phase]
<1>1. /\ frames # <<>> /\ Top.f = "handle" /\ Top.at = "reserve" /\ Top.todo # <<>> /\ ~ panicked
      /\ UNCHANGED <<table, chains, vecs>>
  BY DEF HandleReserve, At
<1>2. /\ Top \in HandleSet /\ State = chains[Top.k][1] /\ Top.todo \in Seq(TaskSet)
  BY <1>1, HandleTop
<1>3. OnTop(Top, chains, vecs, ret) /\ Steady(Top, table)
  BY <1>1, TopKnown
<1>4. task = Top.todo[1]
  BY <1>1, <1>2, TailIs
<1>5. ASSUME NEW at, at \notin {"nlpm", "inited"}
      PROVE  LET fr == [Top EXCEPT !.at = at] IN
             /\ fr.f = "handle" /\ fr.at = at /\ fr.k = Top.k /\ fr.phase = Top.phase
             /\ fr.todo = Top.todo /\ fr.more = Top.more /\ Steady(fr, table)
  <2> DEFINE fr == [Top EXCEPT !.at = at]
  <2>1. /\ fr.f = "handle" /\ fr.at = at /\ fr.k = Top.k /\ fr.phase = Top.phase
        /\ fr.todo = Top.todo /\ fr.more = Top.more
    BY <1>2 DEF HandleSet
  <2> HIDE DEF fr
  <2>2. Steady(fr, table)
    BY <1>1, <1>3, <1>5, <2>1 DEF Steady
  <2> QED BY <2>1, <2>2 DEF fr
<1>6. CASE Top.phase \in {3, 4} /\ table[class] = 0
  <2> DEFINE fr == [Top EXCEPT !.at = "boxed"]
             size == SizeOfTable[class]
             yes == TRUE
             c == Alloc(size, Top.k, yes, TRUE)
  <2>1. Call(fr, c)
    BY <1>6 DEF HandleReserve
  <2>2. class \in Classes
    BY <1>6 DEF PhaseClass, Classes
  <2>3. size \in AskedFor
    <3> HIDE DEF class
    <3> QED BY <2>2 DEF AskedFor
  <2>4. fr.at # "reserved" /\ Steady(fr, table)
    BY <1>5
  <2> HIDE DEF fr, size, yes
  <2>5. Steady(c, table) /\ c.f # "handle"
    BY <2>3, OwnSteady
  <2> HIDE DEF c
  <2>6. Quietly(frames, frames', ret', table)
    BY <2>1, <2>4, <2>5, CallQuiet
  <2>7. SameCaps(vecs, vecs') /\ ChainsFit(chains')
    BY <1>1, FitSame DEF SameCaps
  <2> QED BY <1>1, <2>6, <2>7, QuietKeeps
<1>7. CASE ~ (Top.phase \in {3, 4} /\ table[class] = 0)
  <2> DEFINE fr == [Top EXCEPT !.at = "reserved"]
             none == <<>>
             v == task.v
             c == Reserve(v, add, none, Top.k, task.counted)
             n == Len(frames)
  <2>1. Call(fr, c)
    BY <1>7 DEF HandleReserve
  <2>2. ~ Bare(v, table)
    BY <1>1, <1>4, <1>7, TaskBoxed
  <2>3. /\ fr.f = "handle" /\ fr.at = "reserved" /\ fr.k = Top.k /\ fr.phase = Top.phase
        /\ fr.todo = Top.todo /\ fr.more = Top.more /\ Steady(fr, table)
    BY <1>5
  <2>4. c.f = "reserve" /\ c.v = v /\ c.add = add /\ c.put = none
    <3> HIDE DEF v, add, none, task
    <3> QED BY DEF Reserve
  <2>5. Steady(c, table)
    <3> HIDE DEF v, add, none
    <3> QED BY <2>2, ReserveSteady
  <2>6. add = AddOf(Top.todo[1], State)
    BY <1>4 DEF AddOf
  <2> HIDE DEF fr, c
  <2>7. PassOK(fr, chains, vecs)
    <3>1. PassOK(Top, chains, vecs)
      BY <1>1, <1>3 DEF OnTop
    <3>2. \A state : Reserved(Top, state, vecs) => Reserved(fr, state, vecs)
      BY <2>3 DEF Reserved
    <3>3. WillGrow(Top, vecs) => WillGrow(fr, vecs)
      BY <2>3 DEF WillGrow
    <3> QED BY <2>3, <3>1, <3>2, <3>3 DEF PassOK
  <2>8. frames' = Front(frames) \o <<fr, c>> /\ frames \in Seq(FrameSet) /\ AllSteady(frames, table)
    BY <1>1, <2>1, TopIs DEF Call, Pass
  <2>9. /\ AllSteady(frames', table) /\ Len(frames') = n + 1 /\ n \in Nat \ {0}
        /\ frames'[n] = fr /\ frames'[n + 1] = c
    BY <1>1, <2>3, <2>5, <2>8, SteadyCall, SMTT(40)
  <2>10. Asks(fr, c, chains, vecs)
    BY <1>2, <1>4, <2>3, <2>4, <2>6, <2>7 DEF Asks
  <2>11. OnTop(c, chains, vecs, ret')
    BY <2>4 DEF OnTop
  <2> HIDE DEF n
  <2>12. (n + 1) - 1 = n
    BY <2>9
  <2>13. TopPass(frames', chains, vecs, ret')
    BY <2>9, <2>10, <2>11, <2>12 DEF TopPass
  <2> QED BY <1>1, <2>9, <2>13, SMTT(40) DEF Pass
<1> QED BY <1>6, <1>7

(* A table gets its box.                                                   *)
LEMMA BoxedMore ==
  ASSUME NEW tb, tb \in [Classes -> Nat], NEW class, class \in Classes, NEW p, p # 0
  PROVE  LET tc == [tb EXCEPT ![class] = p] IN
         /\ \A v : Bare(v, tc) => Bare(v, tb)
         /\ \A fr : Steady(fr, tb) => Steady(fr, tc)
<1> DEFINE tc == [tb EXCEPT ![class] = p]
<1>1. \A c \in Classes : tc[c] = 0 => tb[c] = 0
  OBVIOUS
<1>2. \A s \in Sizes : Define(s) \in Classes
  BY DEF Define, Classes
<1> HIDE DEF tc
<1>3. \A v : Bare(v, tc) => Bare(v, tb)
  BY <1>1, <1>2 DEF Bare
<1>4. \A fr : Steady(fr, tb) => Steady(fr, tc)
  BY <1>3 DEF Steady
<1> QED BY <1>3, <1>4 DEF tc

(* handle_state has the memory for a table: the vector it was for is       *)
(* empty, so that it will grow.                                            *)
LEMMA HandleBoxedPass ==
  ASSUME Base, Pass, TablesExist, HandleBoxed
  PROVE  Pass'
<1> DEFINE class == PhaseClass[Top.phase]
<1>1. frames # <<>> /\ Top.f = "handle" /\ Top.at = "boxed" /\ At("handle", "boxed")
  BY DEF HandleBoxed, At
<1>2. Top \in HandleSet /\ InPass(Top, chains) /\ Top.todo \in Seq(TaskSet)
  BY <1>1, HandleTop
<1>3. Top.phase \in {3, 4} /\ Top.todo # <<>>
  BY <1>1, <1>2 DEF InPass
<1>4. class \in Classes /\ table[class] = 0 /\ table \in [Classes -> Nat]
  BY <1>1, <1>3 DEF PhaseClass, Classes, TablesExist, Base, TypeOK
<1>5. Steady(Top, table)
  BY <1>1, TopSteady
<1>6. CASE Panic
  BY <1>6, PanicPass
<1>7. CASE /\ ret.ptr # 0
           /\ table' = [table EXCEPT ![class] = ret.ptr]
           /\ Goto([Top EXCEPT !.at = "reserve"])
           /\ UNCHANGED <<vecs, nlpm, chains, mapped, dropped, user, panicked, ops, limit>>
  <2> DEFINE fr == [Top EXCEPT !.at = "reserve"]
             p == ret.ptr
             tb == table'
             todo == Top.todo
             n == Len(todo)
             v == todo[1].v
  <2>1. fr.f = "handle" /\ fr.at = "reserve" /\ fr.phase = Top.phase /\ fr.todo = Top.todo
    BY <1>2 DEF HandleSet
  <2>2. Goto(fr) /\ p # 0 /\ tb = [table EXCEPT ![class] = p]
    BY <1>7
  <2> HIDE DEF fr, p, tb, class
  <2>3. (\A w : Bare(w, tb) => Bare(w, table)) /\ \A gr : Steady(gr, table) => Steady(gr, tb)
    BY <1>4, <2>2, BoxedMore
  <2>4. AllSteady(frames, tb)
    BY <2>3 DEF Pass, AllSteady
  <2>5. BareEmpty(vecs, tb)
    BY <2>3 DEF Pass, BareEmpty
  <2>6. Steady(fr, table)
    BY <1>1, <1>5, <2>1 DEF Steady
  <2>7. n \in Nat \ {0}
    BY <1>2, <1>3, Indices
  <2> HIDE DEF n
  <2>8. 1 \in 1 .. n
    BY <2>7
  <2>9. ForChunks(todo[1], class) /\ todo[1] \in TaskSet
    BY <1>1, <1>2, <1>3, <1>5, <2>8, Indices DEF Steady, Tasks, n, class
  <2>10. v \in Vectors /\ Bare(v, table)
    BY <1>4, <2>9 DEF TaskSet, ForChunks, Bare
  <2>11. vecs[v].cap = 0
    BY <2>10 DEF Pass, BareEmpty
  <2>12. WillGrow(fr, vecs)
    BY <1>3, <2>1, <2>11 DEF WillGrow
  <2>13. OnTop(fr, chains', vecs', ret')
    <3>1. vecs' = vecs
      BY <1>7
    <3> QED BY <2>1, <2>12, <3>1 DEF OnTop, PassOK
  <2>14. BareEmpty(vecs', tb) /\ ChainsFit(chains') /\ Steady(fr, tb)
    BY <1>7, <2>3, <2>5, <2>6 DEF Pass
  <2>15. AllSteady(frames, table') /\ Steady(fr, table') /\ BareEmpty(vecs', table')
    BY <2>4, <2>14 DEF tb
  <2> QED BY <1>1, <2>1, <2>2, <2>13, <2>14, <2>15, HandleGoes
<1> QED BY <1>6, <1>7 DEF HandleBoxed

(* A task is done.                                                         *)
LEMMA HandleReservedPass ==
  ASSUME Base, Pass, HandleReserved
  PROVE  Pass'
<1>1. frames # <<>> /\ Top.f = "handle" /\ Top.at = "reserved" /\ ~ panicked
  BY DEF HandleReserved, At
<1>2. /\ Top \in HandleSet /\ InPass(Top, chains) /\ Top.todo \in Seq(TaskSet) /\ Top.more \in BOOLEAN
      /\ ret \in RetSet
  BY <1>1, HandleTop DEF Base, TypeOK
<1>3. Top.todo # <<>> /\ ret.grew \in BOOLEAN /\ ret.err \in BOOLEAN
  BY <1>1, <1>2 DEF InPass, RetSet
<1>4. OnTop(Top, chains, vecs, ret) /\ Steady(Top, table)
  BY <1>1, TopKnown
<1>5. CASE Panic
  BY <1>5, PanicPass
<1>6. CASE /\ ~ ret.err
           /\ Goto([Top EXCEPT !.at = "reserve", !.todo = Tail(@), !.more = @ \/ ret.grew])
           /\ UNCHANGED <<vecs, nlpm, table, chains, mapped, dropped, user, panicked, ops, limit>>
  <2> DEFINE todo == Tail(Top.todo)
             more == Top.more \/ ret.grew
             fr == [Top EXCEPT !.at = "reserve", !.todo = todo, !.more = more]
             state == chains[Top.k][1]
  <2>1. Goto(fr)
    BY <1>2, <1>6 DEF HandleSet
  <2>2. more = FALSE => Top.more = FALSE /\ ret.grew = FALSE /\ ret.err = FALSE
    BY <1>2, <1>3, <1>6
  <2> HIDE DEF more, todo
  <2>3. /\ fr.f = "handle" /\ fr.at = "reserve" /\ fr.k = Top.k /\ fr.phase = Top.phase
        /\ fr.todo = todo /\ fr.more = more
    BY <1>2 DEF HandleSet
  <2> HIDE DEF fr
  <2>4. fr.todo = Tail(Top.todo)
    BY <2>3 DEF todo
  <2>5. fr.more = FALSE => Reserved(Top, state, vecs) /\ Roomy(Top.todo[1], state, vecs)
    BY <1>1, <1>4, <2>2, <2>3 DEF OnTop
  <2>6. fr.more = FALSE => Reserved(fr, state, vecs)
    <3> HIDE DEF state
    <3> QED BY <1>2, <1>3, <2>3, <2>4, <2>5, TailReserves
  <2>7. OnTop(fr, chains, vecs, Nothing)
    BY <2>3, <2>6 DEF OnTop, PassOK
  <2>8. Tasks(Top.phase, todo)
    <3> DEFINE l == Len(Top.todo)
    <3>1. Len(todo) = l - 1 /\ \A i \in 1 .. l - 1 : todo[i] = Top.todo[i + 1]
      BY <1>2, <1>3, TailIs DEF todo
    <3>2. l \in Nat \ {0}
      BY <1>2, <1>3, Indices
    <3>3. Tasks(Top.phase, Top.todo)
      BY <1>1, <1>4 DEF Steady
    <3> HIDE DEF l
    <3>4. \A i \in 1 .. l - 1 : i + 1 \in 1 .. l
      BY <3>2
    <3>5. ASSUME Top.phase \in {3, 4}, NEW i \in 1 .. Len(todo)
          PROVE  ForChunks(todo[i], PhaseClass[Top.phase])
      <4>1. \A j \in 1 .. l : ForChunks(Top.todo[j], PhaseClass[Top.phase])
        BY <3>3, <3>5 DEF Tasks, l
      <4> QED BY <3>1, <3>4, <4>1
    <3>6. ASSUME Top.phase \notin {3, 4}, NEW i \in 1 .. Len(todo), NEW s \in Sizes
          PROVE  todo[i].v # Chunks(s)
      <4>1. \A j \in 1 .. l : Top.todo[j].v # Chunks(s)
        BY <3>3, <3>6 DEF Tasks, l
      <4> QED BY <3>1, <3>4, <4>1
    <3> QED BY <3>5, <3>6 DEF Tasks
  <2>9. Steady(fr, table)
    BY <2>3, <2>8 DEF Steady
  <2> QED BY <1>1, <1>6, <2>1, <2>3, <2>7, <2>9, HandleGoesOn
<1> QED BY <1>5, <1>6 DEF HandleReserved

(* A State is committed, and the next one of the chain begins.             *)
LEMMA HandleCommitPass ==
  ASSUME Base, Pass, HandleCommit
  PROVE  Pass'
<1> DEFINE k == Top.k
           rest == Tail(chains[k])
<1>1. frames # <<>> /\ Top.f = "handle" /\ Top.at = "commit"
  BY DEF HandleCommit, At
<1>2. /\ Top \in HandleSet /\ InPass(Top, chains) /\ k \in 1 .. Len(chains)
      /\ chains[k] \in Seq(StateSet) /\ chains[k] # <<>> /\ chains \in Seq(Seq(StateSet))
  BY <1>1, HandleTop, TopIs
<1>3. Top.todo = <<>> /\ Steady(Top, table)
  BY <1>1, <1>2, TopSteady DEF InPass
<1>4. CASE Panic
  BY <1>4, PanicPass
<1>5. CASE /\ vecs' = [v \in Vectors |-> [vecs[v] EXCEPT !.items = @ \o Given(State, v)]]
           /\ chains' = [chains EXCEPT ![k] = rest]
           /\ \/ Goto([Top EXCEPT !.at = "dealloc"])
              \/ Goto([Top EXCEPT !.at = "reserve", !.phase = 0,
                                  !.to_dealloc = Append(@, Head(rest).at)])
           /\ UNCHANGED table
  <2>1. \A v \in Vectors : vecs'[v].cap = vecs[v].cap
    <3> SUFFICES ASSUME NEW v \in Vectors PROVE vecs'[v].cap = vecs[v].cap
      OBVIOUS
    <3> DEFINE give == Given(State, v)
    <3>1. vecs'[v] = [vecs[v] EXCEPT !.items = @ \o give]
      BY <1>5
    <3>2. vecs[v] \in VecSet
      BY DEF Base, TypeOK, VecsOK
    <3> HIDE DEF give
    <3> QED BY <3>1, <3>2 DEF VecSet
  <2>2. BareEmpty(vecs', table')
    BY <1>5, <2>1 DEF Pass, BareEmpty
  <2>3. ChainsFit(chains')
    <3> DEFINE ch == chains[k]
               n == Len(ch)
    <3>1. rest \in Seq(StateSet) /\ Len(rest) = n - 1 /\ \A i \in 1 .. n - 1 : rest[i] = ch[i + 1]
      BY <1>2, TailIs
    <3>2. n \in Nat \ {0}
      BY <1>2, Indices
    <3>3. \A i \in 1 .. n : StateFits(ch[i])
      BY <1>2 DEF Pass, ChainsFit, ChainFits
    <3> HIDE DEF n, ch, rest
    <3>4. \A i \in 1 .. n - 1 : i + 1 \in 1 .. n
      BY <3>2
    <3>5. ChainFits(rest)
      BY <3>1, <3>3, <3>4 DEF ChainFits
    <3> HIDE DEF k
    <3> QED BY <1>2, <1>5, <3>1, <3>5, FitPut DEF Pass
  <2>4. AllSteady(frames, table')
    BY <1>5 DEF Pass
  <2>5. \E fr : /\ Goto(fr) /\ fr.f = "handle" /\ fr.todo = <<>>
                /\ fr.at = "dealloc" \/ (fr.at = "reserve" /\ fr.phase = 0)
    <3>1. CASE Goto([Top EXCEPT !.at = "dealloc"])
      <4> DEFINE fr == [Top EXCEPT !.at = "dealloc"]
      <4>1. Goto(fr) /\ fr.f = "handle" /\ fr.todo = <<>> /\ fr.at = "dealloc"
        BY <1>2, <1>3, <3>1 DEF HandleSet
      <4> HIDE DEF fr
      <4> QED BY <4>1
    <3>2. CASE Goto([Top EXCEPT !.at = "reserve", !.phase = 0,
                                !.to_dealloc = Append(@, Head(rest).at)])
      <4> DEFINE more == Append(Top.to_dealloc, Head(rest).at)
                 fr == [Top EXCEPT !.at = "reserve", !.phase = 0, !.to_dealloc = more]
      <4>1. Goto(fr)
        BY <1>2, <3>2 DEF HandleSet
      <4> HIDE DEF more
      <4>2. fr.f = "handle" /\ fr.todo = <<>> /\ fr.at = "reserve" /\ fr.phase = 0
        BY <1>2, <1>3 DEF HandleSet
      <4> HIDE DEF fr
      <4> QED BY <4>1, <4>2
    <3> QED BY <1>5, <3>1, <3>2
  <2>6. PICK fr : /\ Goto(fr) /\ fr.f = "handle" /\ fr.todo = <<>>
                  /\ fr.at = "dealloc" \/ (fr.at = "reserve" /\ fr.phase = 0)
    BY <2>5
  <2>7. Tasks(fr.phase, fr.todo)
    <3>1. Len(fr.todo) = 0
      BY <2>6
    <3> QED BY <3>1 DEF Tasks
  <2>8. Steady(fr, table')
    BY <2>6, <2>7 DEF Steady
  <2>9. OnTop(fr, chains', vecs', ret')
    <3>1. CASE fr.at = "dealloc"
      BY <3>1 DEF OnTop
    <3>2. CASE fr.at = "reserve" /\ fr.phase = 0
      BY <2>6, <3>2, NothingReserved
    <3> QED BY <2>6, <3>1, <3>2
  <2> QED BY <1>1, <2>2, <2>3, <2>4, <2>6, <2>8, <2>9, HandleGoes
<1> QED BY <1>4, <1>5 DEF HandleCommit

(* The States of the chain are given back, and handle_state returns.       *)
LEMMA HandleDeallocPass ==
  ASSUME Base, Pass, HandleDealloc
  PROVE  Pass'
<1>1. frames # <<>> /\ Top.f = "handle" /\ Top.at = "dealloc" /\ UNCHANGED <<vecs, table>>
  BY DEF HandleDealloc, At
<1>2. /\ Top \in HandleSet /\ Steady(Top, table) /\ chains \in Seq(Seq(StateSet))
      /\ Top.k \in 1 .. Len(chains) /\ SameCaps(vecs, vecs')
  BY <1>1, HandleTop, TopIs, TopSteady DEF SameCaps
<1>3. CASE Top.to_dealloc # <<>>
  <2> DEFINE less == Tail(Top.to_dealloc)
             fr == [Top EXCEPT !.to_dealloc = less]
             p == Head(Top.to_dealloc)
             size == SIZE_OF_STATE
             zero == 0
             c == Dealloc(p, size, zero)
  <2>1. Call(fr, c) /\ UNCHANGED chains
    BY <1>2, <1>3 DEF HandleDealloc, HandleSet
  <2> HIDE DEF less
  <2>2. fr.f = "handle" /\ fr.at = "dealloc" /\ fr.phase = Top.phase /\ fr.todo = Top.todo
    BY <1>1, <1>2 DEF HandleSet
  <2> HIDE DEF fr, p, size, zero
  <2>3. Steady(fr, table)
    BY <1>1, <1>2, <2>2 DEF Steady
  <2>4. Steady(c, table) /\ c.f # "handle"
    BY DeallocSteady
  <2> HIDE DEF c
  <2>5. Quietly(frames, frames', ret', table)
    BY <2>1, <2>2, <2>3, <2>4, CallQuiet
  <2>6. ChainsFit(chains')
    BY <2>1, FitSame
  <2> QED BY <1>1, <1>2, <2>5, <2>6, QuietKeeps
<1>4. CASE Top.to_dealloc = <<>>
  <2> DEFINE r == Nothing
  <2>1. Return(r) /\ chains' = Front(chains)
    BY <1>4 DEF HandleDealloc
  <2> HIDE DEF r
  <2>2. Quietly(frames, frames', ret', table)
    BY <1>1, <2>1, ReturnQuiet
  <2>3. ChainsFit(chains')
    <3> DEFINE n == Len(chains)
    <3>1. chains # <<>>
      <4>1. n # 0
        <5>1. n \in Nat /\ Top.k \in 1 .. n
          BY <1>2, Indices
        <5> HIDE DEF n
        <5> QED BY <5>1
      <4> QED BY <1>2, <4>1, Indices
    <3>2. n \in Nat \ {0} /\ Len(chains') = n - 1 /\ \A i \in 1 .. n - 1 : chains'[i] = chains[i]
      BY <1>2, <2>1, <3>1, Ends
    <3>3. \A i \in 1 .. n : ChainFits(chains[i])
      BY DEF Pass, ChainsFit
    <3> HIDE DEF n
    <3>4. \A i \in 1 .. n - 1 : i \in 1 .. n
      BY <3>2
    <3> QED BY <3>2, <3>3, <3>4 DEF ChainsFit
  <2> QED BY <1>1, <1>2, <2>2, <2>3, QuietKeeps
<1> QED BY <1>3, <1>4

(* The program has its object.                                             *)
LEMMA TryAllocDonePass ==
  ASSUME Base, Pass, TryAllocDone
  PROVE  Pass'
<1> DEFINE r == Nothing
<1>1. frames # <<>> /\ Top.f = "program" /\ UNCHANGED <<vecs, table, chains>> /\ Return(r)
  BY DEF TryAllocDone, At
<1> HIDE DEF r
<1>2. Quietly(frames, frames', ret', table)
  BY <1>1, ReturnQuiet
<1>3. SameCaps(vecs, vecs') /\ ChainsFit(chains')
  BY <1>1, FitSame DEF SameCaps
<1> QED BY <1>1, <1>2, <1>3, QuietKeeps

(* A stack of one or two new calls.                                        *)
LEMMA PassBegin ==
  ASSUME NEW tb, NEW chs, NEW vs, NEW rt
  PROVE  /\ AllSteady(<<>>, tb) /\ TopPass(<<>>, chs, vs, rt)
         /\ \A a : Steady(a, tb) /\ (a.f = "handle" => a.at = "nlpm") =>
              AllSteady(<<a>>, tb) /\ TopPass(<<a>>, chs, vs, rt)
         /\ \A a, b : Steady(a, tb) /\ Steady(b, tb) /\ a.f # "handle" /\ b.f # "handle" =>
              AllSteady(<<a, b>>, tb) /\ TopPass(<<a, b>>, chs, vs, rt)
<1>1. AllSteady(<<>>, tb) /\ TopPass(<<>>, chs, vs, rt)
  <2> DEFINE fs == <<>>
  <2>1. Len(fs) = 0
    OBVIOUS
  <2> HIDE DEF fs
  <2>2. AllSteady(fs, tb) /\ TopPass(fs, chs, vs, rt)
    BY <2>1 DEF AllSteady, TopPass
  <2> QED BY <2>2 DEF fs
<1>2. ASSUME NEW a, Steady(a, tb), a.f = "handle" => a.at = "nlpm"
      PROVE  AllSteady(<<a>>, tb) /\ TopPass(<<a>>, chs, vs, rt)
  <2> DEFINE fs == <<a>>
  <2>1. Len(fs) = 1 /\ fs[1] = a
    OBVIOUS
  <2> HIDE DEF fs
  <2>2. AllSteady(fs, tb)
    BY <1>2, <2>1 DEF AllSteady
  <2>3. OnTop(a, chs, vs, rt)
    BY <1>2 DEF OnTop
  <2>4. TopPass(fs, chs, vs, rt)
    BY <2>1, <2>3 DEF TopPass
  <2> QED BY <2>2, <2>4 DEF fs
<1>3. ASSUME NEW a, NEW b, Steady(a, tb), Steady(b, tb), a.f # "handle", b.f # "handle"
      PROVE  AllSteady(<<a, b>>, tb) /\ TopPass(<<a, b>>, chs, vs, rt)
  <2> DEFINE fs == <<a, b>>
  <2>1. Len(fs) = 2 /\ fs[1] = a /\ fs[2] = b
    OBVIOUS
  <2> HIDE DEF fs
  <2>2. AllSteady(fs, tb)
    BY <1>3, <2>1 DEF AllSteady
  <2>3. OnTop(b, chs, vs, rt) /\ Asks(a, b, chs, vs)
    BY <1>3 DEF OnTop, Asks
  <2>4. TopPass(fs, chs, vs, rt)
    BY <2>1, <2>3 DEF TopPass
  <2> QED BY <2>2, <2>4 DEF fs
<1> QED BY <1>1, <1>2, <1>3

(* The calls of the program.                                               *)
LEMMA ProgramPass ==
  ASSUME Base, Pass, TryAlloc \/ DeallocLocal \/ DeallocNonLocal \/ TryFreeAllMemory
  PROVE  Pass'
<1>1. CASE TryAlloc
  <2>1. PICK size \in UserSizes :
          Begin(<<[f |-> "program", at |-> "alloc", size |-> size], Alloc(size, 0, TRUE, FALSE)>>)
    BY <1>1 DEF TryAlloc
  <2> DEFINE p == [f |-> "program", at |-> "alloc", size |-> size]
             c == Alloc(size, 0, TRUE, FALSE)
  <2>2. frames' = <<p, c>> /\ UNCHANGED <<vecs, table, chains>>
    BY <1>1, <2>1 DEF TryAlloc, Begin
  <2>3. p.f = "program" /\ c.f = "alloc" /\ c.own = FALSE /\ c.at = "pop"
    BY DEF Alloc
  <2> HIDE DEF p, c
  <2>4. Steady(p, table) /\ Steady(c, table) /\ p.f # "handle" /\ c.f # "handle"
    BY <2>3 DEF Steady
  <2>5. AllSteady(<<p, c>>, table) /\ TopPass(<<p, c>>, chains, vecs, ret')
    BY <2>4, PassBegin
  <2> QED BY <2>2, <2>5 DEF Pass
<1>2. CASE DeallocLocal
  <2>1. PICK x \in user : Begin(<<Dealloc(x.ptr, x.size, 0)>>)
    BY <1>2 DEF DeallocLocal
  <2> DEFINE p == x.ptr
             size == x.size
             zero == 0
             c == Dealloc(p, size, zero)
  <2>2. frames' = <<c>> /\ UNCHANGED <<vecs, table, chains>>
    BY <1>2, <2>1 DEF DeallocLocal, Begin
  <2> HIDE DEF p, size, zero
  <2>3. Steady(c, table) /\ c.f # "handle"
    BY DeallocSteady
  <2> HIDE DEF c
  <2>4. AllSteady(<<c>>, table) /\ TopPass(<<c>>, chains, vecs, ret')
    BY <2>3, PassBegin
  <2> QED BY <2>2, <2>4 DEF Pass
<1>3. CASE DeallocNonLocal
  <2> DEFINE one == 1
             c == Handle(one)
             ch == FreshState.chain
  <2>1. frames' = <<c>> /\ UNCHANGED <<vecs, table>> /\ chains' = <<ch>>
    BY <1>3 DEF DeallocNonLocal, Begin
  <2> HIDE DEF one
  <2>2. Steady(c, table) /\ c.at = "nlpm"
    BY HandleSteady
  <2>3. World
    BY DEF World, Base, TypeOK
  <2>4. ChainFits(ch)
    BY <2>3, FreshFits
  <2> HIDE DEF c, ch
  <2>5. ChainsFit(chains')
    <3> DEFINE chs == <<ch>>
    <3>1. Len(chs) = 1 /\ chs[1] = ch
      OBVIOUS
    <3> HIDE DEF chs
    <3>2. ChainsFit(chs)
      BY <2>4, <3>1 DEF ChainsFit
    <3> QED BY <2>1, <3>2 DEF chs
  <2>6. AllSteady(<<c>>, table) /\ TopPass(<<c>>, chains', vecs, ret')
    BY <2>2, PassBegin
  <2> QED BY <2>1, <2>5, <2>6 DEF Pass
<1>4. CASE TryFreeAllMemory
  <2>1. frames' = <<>> /\ vecs' = [v \in Vectors |-> Null] /\ UNCHANGED chains
    BY <1>4 DEF TryFreeAllMemory, Begin
  <2>2. BareEmpty(vecs', table')
    BY <2>1 DEF BareEmpty, Null
  <2>3. AllSteady(<<>>, table') /\ TopPass(<<>>, chains', vecs', ret')
    BY PassBegin
  <2> QED BY <2>1, <2>2, <2>3 DEF Pass
<1> QED BY <1>1, <1>2, <1>3, <1>4

(* Nothing is under way in the beginning.                                  *)
LEMMA PassInit == Init => Pass
<1> SUFFICES ASSUME Init PROVE Pass
  OBVIOUS
<1>1. frames = <<>> /\ vecs = [v \in Vectors |-> Null] /\ chains = <<>>
  BY DEF Init
<1>2. BareEmpty(vecs, table)
  BY <1>1 DEF BareEmpty, Null
<1>3. Len(chains) = 0
  BY <1>1
<1>4. ChainsFit(chains)
  BY <1>3 DEF ChainsFit
<1> QED BY <1>1, <1>2, <1>4, PassBegin DEF Pass

(* Every step keeps what is known of the passes.                           *)
LEMMA NextPass ==
  ASSUME StatesApart, Base, Pass, TablesExist, WithinSizes', [Next]_vars
  PROVE  Pass'
<1>1. CASE ReserveTest \/ ReserveGot \/ ReserveRetry \/ ReserveFreed
  BY <1>1, ReserveTestPass, ReserveGotPass, ReserveRetryPass, ReserveFreedPass
<1>2. CASE AllocPop \/ CheckNonLocalPtrs \/ AllocGetChunk \/ AllocSplit \/ AllocSplitDone
  BY <1>2, AllocPopPass, CheckNonLocalPtrsPass, AllocGetChunkPass, AllocSplitPass, AllocSplitDonePass
<1>3. CASE AllocHave \/ AllocPushed \/ AllocCarved \/ SlowSelfAlloc \/ SlowSelfAllocHandled
  BY <1>3, AllocHavePass, AllocPushedPass, AllocCarvedPass, SlowSelfAllocPass, SlowSelfAllocHandledPass
<1>4. CASE HandleNlpm \/ HandleInited \/ HandlePhase \/ HandleReserve
  BY <1>4, HandleNlpmPass, HandleInitedPass, HandlePhasePass, HandleReservePass
<1>5. CASE HandleBoxed \/ HandleReserved \/ HandleCommit \/ HandleDealloc
  BY <1>5, HandleBoxedPass, HandleReservedPass, HandleCommitPass, HandleDeallocPass
<1>6. CASE TryAllocDone \/ TryAlloc \/ DeallocLocal \/ DeallocNonLocal \/ TryFreeAllMemory
  BY <1>6, TryAllocDonePass, ProgramPass
<1>7. CASE UNCHANGED vars
  BY <1>7 DEF vars, Pass
<1> QED BY <1>1, <1>2, <1>3, <1>4, <1>5, <1>6, <1>7 DEF Next, Step, Rest

(* The commit has room.                                                    *)
LEMMA CommitRoom ==
  ASSUME StatesApart, Base, Fit, Pass
  PROVE  RoomToCommit
<1> SUFFICES ASSUME At("handle", "commit"), NEW v \in Vectors
             PROVE  Size(v) + Len(Given(State, v)) <= vecs[v].cap
  BY DEF RoomToCommit
<1>1. frames # <<>> /\ Top.f = "handle" /\ Top.at = "commit" /\ ~ panicked
  BY DEF At
<1>2. /\ State \in StateSet /\ State = chains[Top.k][1] /\ chains[Top.k] # <<>>
      /\ Top.k \in 1 .. Len(chains) /\ chains[Top.k] \in Seq(StateSet)
  BY <1>1, HandleTop
<1>3. OnTop(Top, chains, vecs, ret)
  BY <1>1, TopKnown
<1>4. AllRoomy(State, vecs)
  BY <1>1, <1>2, <1>3 DEF OnTop
<1>5. StateFits(State)
  <2>1. ChainFits(chains[Top.k])
    BY <1>2 DEF Pass, ChainsFit
  <2> DEFINE n == Len(chains[Top.k])
  <2>2. n \in Nat \ {0}
    BY <1>2, Indices
  <2> HIDE DEF n
  <2>3. 1 \in 1 .. n
    BY <2>2
  <2> QED BY <1>2, <2>1, <2>3 DEF ChainFits, n
<1>6. VecsOK(vecs) /\ Fitting(vecs)
  BY DEF Base, TypeOK, Fit
<1> HIDE DEF State
<1>7. Len(vecs[v].items) + Len(Given(State, v)) <= vecs[v].cap
  BY <1>2, <1>4, <1>5, <1>6, RoomIs
<1> QED BY <1>7 DEF Size

-----------------------------------------------------------------------------
(* Theorem                                                                 *)

(* No vector holds more elements than its buffer has room for, whatever    *)
(* calls grow it while it grows: reserve and handle_state test the room    *)
(* before the unchecked pushes, and a State that handle_state commits has  *)
(* not grown since its last pass found the room.  It is so when the memory *)
(* of a State is of a size that the allocator does not ask for itself, and *)
(* as long as the tables of the chunk managers exist when they are needed. *)
THEOREM GrowthFits ==
  ASSUME StatesApart
  PROVE  Spec /\ []WithinSizes /\ []TablesExist => []VectorsFit
<1>1. Init => Fit /\ Pass
  BY FitInit, PassInit
<1>2. Base /\ Fit /\ Pass /\ TablesExist /\ WithinSizes' /\ [Next]_vars => (Fit /\ Pass)'
  BY NextFits, NextPass, CommitRoom
<1>3. Fit => VectorsFit
  BY DEF Fit, Fitting, VectorsFit, Size
<1> QED BY <1>1, <1>2, <1>3, CallsNest, PTL DEF Spec
=============================================================================
