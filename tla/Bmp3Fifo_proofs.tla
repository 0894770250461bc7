--------------------------- MODULE Bmp3Fifo_proofs ---------------------------
(***************************************************************************)
(* Proofs about Bmp3Fifo, for every capacity of the FIFO, every profile    *)
(* and selection of settings and every request.                            *)
(*                                                                         *)
(* The model counts bytes, collects data frames and parses with folds.     *)
(* What a fold computes is found by induction: the least counterexample of *)
(* a set of naturals, which is all the induction that is needed here.      *)
(***************************************************************************)
EXTENDS Bmp3Fifo, WellFoundedInduction, FiniteSetTheorems, SequenceTheorems, TLAPS

LEMMA LeastNatural ==
  ASSUME NEW T, T \subseteq Nat, T # {}
  PROVE  \E n \in T : \A m \in T : n <= m
<1> DEFINE R == OpToRel(<, Nat)
<1>1. IsWellFoundedOn(R, Nat)
  BY NatLessThanWellFounded
<1>2. \A x, y \in Nat : <<y, x>> \in R <=> y < x
  BY DEF OpToRel
<1> HIDE DEF R
<1>3. PICK x \in T : \A y \in T : ~ (<<y, x>> \in R)
  BY <1>1, WFMin
<1>4. \A y \in T : ~(y < x)
  BY <1>2, <1>3
<1>5. \A y \in T : x <= y
  BY <1>4
<1> QED
  BY <1>5

(* Induction, for a set of naturals.                                       *)
LEMMA Upwards ==
  ASSUME NEW n \in Nat, NEW T, 0 \in T, \A i \in 0 .. n - 1 : i \in T => i + 1 \in T
  PROVE  \A i \in 0 .. n : i \in T
<1> SUFFICES ASSUME NEW i \in 0 .. n, i \notin T PROVE FALSE
  OBVIOUS
<1> DEFINE Bad == {j \in 0 .. n : j \notin T}
<1>1. PICK j \in Bad : \A m \in Bad : j <= m
  <2>1. Bad \subseteq Nat /\ Bad # {}
    OBVIOUS
  <2> HIDE DEF Bad
  <2> QED
    BY <2>1, LeastNatural
<1>2. j # 0 /\ j - 1 \in 0 .. n - 1
  OBVIOUS
<1>3. j - 1 \in T
  BY <1>1, <1>2
<1> QED
  BY <1>2, <1>3

LEMMA MaxIsLast ==
  ASSUME NEW k \in Nat, NEW s, k \in s, s \subseteq 1 .. k
  PROVE  Max(s) = k
<1>1. \A x \in s : x \in Nat /\ k >= x
  OBVIOUS
<1>2. PICK m : m = Max(s)
  OBVIOUS
<1>3. m \in s /\ \A y \in s : m >= y
  BY <1>1, <1>2 DEF Max
<1> QED
  BY <1>1, <1>2, <1>3

LEMMA LastIn ==
  ASSUME NEW n \in Nat, NEW s \in SUBSET (1 .. n), s # {}
  PROVE  Max(s) \in s
<1> DEFINE Above == {k \in 0 .. n : \A x \in s : k >= x}
<1>1. PICK k \in Above : \A m \in Above : k <= m
  <2>1. Above \subseteq Nat /\ n \in Above
    OBVIOUS
  <2> HIDE DEF Above
  <2> QED
    BY <2>1, LeastNatural
<1>2. k \in s
  <2> SUFFICES ASSUME k \notin s PROVE FALSE
    OBVIOUS
  <2>1. k # 0 /\ \A x \in s : k - 1 >= x
    <3>1. k \in 0 .. n /\ \A x \in s : x \in 1 .. n /\ k >= x /\ x # k
      OBVIOUS
    <3>2. PICK x \in s : TRUE
      OBVIOUS
    <3> QED
      BY <3>1, <3>2
  <2>2. k - 1 \in Above
    BY <2>1
  <2> QED
    BY <1>1, <2>1, <2>2
<1>3. \E m \in s : \A y \in s : m >= y
  BY <1>2
<1> QED
  BY <1>3 DEF Max

LEMMA MaxUpTo ==
  ASSUME NEW k \in Nat, k # 0
  PROVE  Max(1 .. k) = k /\ (1 .. k) \ {k} = 1 .. k - 1
  BY MaxIsLast

(* A fold over the indices 1 .. n is well defined, for a step that stays   *)
(* within a set.                                                           *)
FoldsTo(g, n, base, step) == \A s \in SUBSET (1 .. n) :
  g[s] = IF s = {} THEN base ELSE step[<<g[s \ {Max(s)}], Max(s)>>]

LEMMA FoldExists ==
  ASSUME NEW n \in Nat, NEW S, NEW base \in S, NEW step \in [S \X (1 .. n) -> S]
  PROVE  \E g \in [SUBSET (1 .. n) -> S] : FoldsTo(g, n, base, step)
<1> USE DEF FoldsTo
<1> DEFINE T == {k \in 0 .. n : \E g \in [SUBSET (1 .. k) -> S] : FoldsTo(g, k, base, step)}
<1>1. 0 \in T
  <2> DEFINE g == [s \in SUBSET (1 .. 0) |-> base]
  <2>1. g \in [SUBSET (1 .. 0) -> S] /\ FoldsTo(g, 0, base, step) /\ 0 \in 0 .. n
    OBVIOUS
  <2> HIDE DEF g, FoldsTo
  <2> QED
    BY <2>1
<1>2. \A k \in 0 .. n - 1 : k \in T => k + 1 \in T
  <2> SUFFICES ASSUME NEW k \in 0 .. n - 1, k \in T PROVE k + 1 \in T
    OBVIOUS
  <2>1. PICK g \in [SUBSET (1 .. k) -> S] : FoldsTo(g, k, base, step)
    OBVIOUS
  <2> DEFINE h == [s \in SUBSET (1 .. k + 1) |->
                     IF k + 1 \in s THEN step[<<g[s \ {k + 1}], k + 1>>] ELSE g[s]]
  <2>2. ASSUME NEW s \in SUBSET (1 .. k + 1)
        PROVE  /\ s \ {k + 1} \in SUBSET (1 .. k)
               /\ k + 1 \notin s => s \in SUBSET (1 .. k)
    OBVIOUS
  <2>3. h \in [SUBSET (1 .. k + 1) -> S]
    BY <2>1, <2>2
  <2>4. ASSUME NEW s \in SUBSET (1 .. k + 1)
        PROVE  h[s] = IF s = {} THEN base ELSE step[<<h[s \ {Max(s)}], Max(s)>>]
    <3>1. CASE k + 1 \in s
      <4>1. Max(s) = k + 1 /\ s # {}
        <5>1. k + 1 \in Nat /\ s \subseteq 1 .. k + 1
          OBVIOUS
        <5> QED
          BY <3>1, <5>1, MaxIsLast
      <4>2. s \ {k + 1} \in SUBSET (1 .. k + 1) /\ h[s \ {k + 1}] = g[s \ {k + 1}]
        OBVIOUS
      <4> QED
        BY <3>1, <4>1, <4>2
    <3>2. CASE k + 1 \notin s
      <4>1. s \in SUBSET (1 .. k) /\ h[s] = g[s]
        BY <2>2, <3>2
      <4>2. s \ {Max(s)} \in SUBSET (1 .. k + 1) /\ h[s \ {Max(s)}] = g[s \ {Max(s)}]
        BY <3>2
      <4> QED
        BY <2>1, <4>1, <4>2
    <3> QED
      BY <3>1, <3>2
  <2>5. FoldsTo(h, k + 1, base, step)
    <3> HIDE DEF h
    <3> QED
      BY <2>4
  <2>6. k + 1 \in 0 .. n
    OBVIOUS
  <2> HIDE DEF h, FoldsTo
  <2> QED
    BY <2>3, <2>5, <2>6
<1>3. n \in T
  <2> HIDE DEF T
  <2>1. \A i \in 0 .. n : i \in T
    BY <1>1, <1>2, Upwards
  <2> QED
    BY <2>1
<1> QED
  BY <1>3
----------------------------------------------------------------------------
(* Size.  What fits in no FIFO has a size, too.                            *)
AnyFrames == [kind : DOMAIN Bytes \cup {"empty"}, sample : Nat, bytes : Nat]

Total(fs) == CHOOSE iter : iter = [s \in SUBSET DOMAIN fs |->
  IF s = {} THEN 0 ELSE iter[s \ {Max(s)}] + fs[Max(s)].bytes]

LEMMA TotalEquation ==
  ASSUME NEW n \in Nat, NEW fs \in [1 .. n -> AnyFrames]
  PROVE  \A s \in SUBSET (1 .. n) :
           Total(fs)[s] = IF s = {} THEN 0 ELSE Total(fs)[s \ {Max(s)}] + fs[Max(s)].bytes
<1> DEFINE step == [x \in Nat \X (1 .. n) |-> x[1] + fs[x[2]].bytes]
<1>1. step \in [Nat \X (1 .. n) -> Nat]
  BY DEF AnyFrames
<1>2. \A x \in Nat, k \in 1 .. n : step[<<x, k>>] = x + fs[k].bytes
  OBVIOUS
<1> HIDE DEF step
<1>3. PICK g \in [SUBSET (1 .. n) -> Nat] : FoldsTo(g, n, 0, step)
  BY <1>1, FoldExists
<1>4. ASSUME NEW s \in SUBSET (1 .. n), s # {}
      PROVE  Max(s) \in 1 .. n /\ g[s \ {Max(s)}] \in Nat
  BY <1>4, LastIn
<1>5. g = [s \in SUBSET DOMAIN fs |->
             IF s = {} THEN 0 ELSE g[s \ {Max(s)}] + fs[Max(s)].bytes]
  BY <1>2, <1>3, <1>4 DEF FoldsTo
<1>6. Total(fs) = [s \in SUBSET DOMAIN fs |->
             IF s = {} THEN 0 ELSE Total(fs)[s \ {Max(s)}] + fs[Max(s)].bytes]
  BY <1>5, Zenon DEF Total
<1> HIDE DEF Total
<1> QED
  BY <1>6

(* Total(fs)[1 .. k] is the size of the first k frames.                    *)
LEMMA TotalStart ==
  ASSUME NEW n \in Nat, NEW fs \in [1 .. n -> AnyFrames]
  PROVE  Total(fs)[1 .. 0] = 0
<1>1. 1 .. 0 = {}
  OBVIOUS
<1> QED
  BY <1>1, TotalEquation

LEMMA TotalNext ==
  ASSUME NEW n \in Nat, NEW fs \in [1 .. n -> AnyFrames], NEW k \in 0 .. n - 1
  PROVE  Total(fs)[1 .. k + 1] = Total(fs)[1 .. k] + fs[k + 1].bytes
<1> DEFINE j == k + 1
<1>1. j \in Nat /\ j # 0 /\ j - 1 = k /\ 1 .. j \subseteq 1 .. n /\ 1 \in 1 .. j
  OBVIOUS
<1> HIDE DEF j
<1>2. Max(1 .. j) = j /\ (1 .. j) \ {j} = 1 .. k
  BY <1>1, MaxUpTo
<1>3. 1 .. j \in SUBSET (1 .. n) /\ 1 .. j # {}
  BY <1>1
<1>4. Total(fs)[1 .. j] = Total(fs)[(1 .. j) \ {Max(1 .. j)}] + fs[Max(1 .. j)].bytes
  BY <1>3, TotalEquation
<1>5. Total(fs)[1 .. j] = Total(fs)[1 .. k] + fs[j].bytes
  BY <1>2, <1>4
<1> QED
  BY <1>5 DEF j

LEMMA TotalNat ==
  ASSUME NEW n \in Nat, NEW fs \in [1 .. n -> AnyFrames], NEW i \in 0 .. n
  PROVE  Total(fs)[1 .. i] \in Nat
<1> DEFINE T == {k \in 0 .. n : Total(fs)[1 .. k] \in Nat}
<1>1. 0 \in T
  BY TotalStart
<1>2. \A k \in 0 .. n - 1 : k \in T => k + 1 \in T
  <2> SUFFICES ASSUME NEW k \in 0 .. n - 1, k \in T PROVE k + 1 \in T
    OBVIOUS
  <2>1. k + 1 \in 0 .. n /\ fs[k + 1].bytes \in Nat
    BY DEF AnyFrames
  <2>2. Total(fs)[1 .. k + 1] = Total(fs)[1 .. k] + fs[k + 1].bytes
    BY TotalNext
  <2> QED
    BY <2>1, <2>2
<1>3. i \in T
  <2> HIDE DEF T
  <2> QED
    BY <1>1, <1>2, Upwards
<1> QED
  BY <1>3

LEMMA SizeTotal ==
  ASSUME NEW fs \in Seq(AnyFrames)
  PROVE  /\ Size(fs) = Total(fs)[1 .. Len(fs)]
         /\ fs \in [1 .. Len(fs) -> AnyFrames] /\ Len(fs) \in Nat
<1>1. Size(fs) = Total(fs)[DOMAIN fs]
  BY Zenon DEF Size, FoldLeft, MapThenFoldSet, Total
<1> QED
  BY <1>1

(* Frames count behind others as they do alone.                            *)
Behind(fs, gs, at) ==
  /\ fs \in Seq(AnyFrames) /\ gs \in Seq(AnyFrames)
  /\ at \in Nat /\ at + Len(gs) <= Len(fs)
  /\ \A k \in 1 .. Len(gs) : fs[at + k] = gs[k]

LEMMA TotalShift ==
  ASSUME NEW fs, NEW gs, NEW at, Behind(fs, gs, at)
  PROVE  Total(fs)[1 .. at + Len(gs)] = Total(fs)[1 .. at] + Size(gs)
<1> DEFINE n == Len(fs)  m == Len(gs)
<1>a. /\ n \in Nat /\ m \in Nat /\ at \in Nat /\ at + m <= n
      /\ fs \in [1 .. n -> AnyFrames] /\ gs \in [1 .. m -> AnyFrames]
      /\ Size(gs) = Total(gs)[1 .. m]
      /\ \A k \in 1 .. m : fs[at + k] = gs[k]
  BY SizeTotal DEF Behind
<1> HIDE DEF n, m
<1> DEFINE T == {k \in 0 .. m :
                  Total(fs)[1 .. at + k] = Total(fs)[1 .. at] + Total(gs)[1 .. k]}
<1>0. at \in 0 .. n /\ Total(fs)[1 .. at] \in Nat
  BY <1>a, TotalNat
<1>1. 0 \in T
  <2>1. Total(gs)[1 .. 0] = 0 /\ at + 0 = at /\ 0 \in 0 .. m
    BY <1>a, TotalStart
  <2> QED
    BY <1>0, <2>1
<1>2. \A k \in 0 .. m - 1 : k \in T => k + 1 \in T
  <2> SUFFICES ASSUME NEW k \in 0 .. m - 1, k \in T PROVE k + 1 \in T
    OBVIOUS
  <2> DEFINE a == at + k
  <2>1. a \in 0 .. n - 1 /\ a + 1 = at + (k + 1) /\ k + 1 \in 1 .. m /\ k \in 0 .. m
    BY <1>a
  <2>2. Total(gs)[1 .. k + 1] = Total(gs)[1 .. k] + gs[k + 1].bytes /\ Total(gs)[1 .. k] \in Nat
    BY <1>a, <2>1, TotalNext, TotalNat
  <2>3. Total(fs)[1 .. a + 1] = Total(fs)[1 .. a] + fs[a + 1].bytes
    <3> HIDE DEF a
    <3> QED
      BY <1>a, <2>1, TotalNext
  <2>4. fs[at + (k + 1)] = gs[k + 1]
    BY <1>a, <2>1
  <2>5. gs[k + 1].bytes \in Nat
    BY <1>a, <2>1 DEF AnyFrames
  <2>6. Total(fs)[1 .. at + (k + 1)] = Total(fs)[1 .. at] + Total(gs)[1 .. k + 1]
    BY <1>0, <2>1, <2>2, <2>3, <2>4, <2>5, SMTT(30)
  <2> QED
    BY <2>1, <2>6
<1>3. m \in T
  <2>1. m \in 0 .. m
    BY <1>a
  <2> HIDE DEF T
  <2> QED
    BY <1>1, <1>2, <1>a, <2>1, Upwards
<1> QED
  BY <1>3, <1>a DEF m

(* The size of the first i frames.                                         *)
UpTo(fs, i) == Size(SubSeq(fs, 1, i))

LEMMA UpToTotal ==
  ASSUME NEW fs \in Seq(AnyFrames), NEW i \in 0 .. Len(fs)
  PROVE  UpTo(fs, i) = Total(fs)[1 .. i]
<1> DEFINE gs == SubSeq(fs, 1, i)
<1>1. gs \in Seq(AnyFrames) /\ Len(gs) = i /\ \A k \in 1 .. i : gs[k] = fs[k]
  OBVIOUS
<1> HIDE DEF gs
<1>2. /\ fs \in [1 .. Len(fs) -> AnyFrames] /\ gs \in [1 .. i -> AnyFrames]
      /\ Size(gs) = Total(gs)[1 .. i]
  BY <1>1, SizeTotal
<1>3. Behind(fs, gs, 0)
  BY <1>1 DEF Behind
<1>4. Total(fs)[1 .. 0 + Len(gs)] = Total(fs)[1 .. 0] + Size(gs)
  BY <1>3, TotalShift
<1>5. Total(fs)[1 .. 0] = 0
  BY <1>2, TotalStart
<1>6. Total(gs)[1 .. i] \in Nat /\ 0 + Len(gs) = i
  BY <1>1, <1>2, TotalNat
<1> QED
  BY <1>2, <1>4, <1>5, <1>6 DEF gs, UpTo

LEMMA UpToStart ==
  ASSUME NEW fs \in Seq(AnyFrames)
  PROVE  UpTo(fs, 0) = 0 /\ UpTo(fs, Len(fs)) = Size(fs)
<1>1. 0 \in 0 .. Len(fs) /\ Len(fs) \in 0 .. Len(fs) /\ Len(fs) \in Nat
  OBVIOUS
<1>2. UpTo(fs, 0) = Total(fs)[1 .. 0] /\ UpTo(fs, Len(fs)) = Total(fs)[1 .. Len(fs)]
  BY <1>1, UpToTotal
<1> QED
  BY <1>2, SizeTotal, TotalStart

LEMMA UpToNext ==
  ASSUME NEW fs \in Seq(AnyFrames), NEW k \in 0 .. Len(fs) - 1
  PROVE  /\ UpTo(fs, k + 1) = UpTo(fs, k) + fs[k + 1].bytes
         /\ UpTo(fs, k) \in Nat /\ fs[k + 1] \in AnyFrames /\ fs[k + 1].bytes \in Nat
<1>1. k \in 0 .. Len(fs) /\ k + 1 \in 0 .. Len(fs) /\ fs[k + 1] \in AnyFrames
  OBVIOUS
<1>2. UpTo(fs, k + 1) = Total(fs)[1 .. k + 1] /\ UpTo(fs, k) = Total(fs)[1 .. k]
  BY <1>1, UpToTotal
<1>3. Total(fs)[1 .. k + 1] = Total(fs)[1 .. k] + fs[k + 1].bytes
  BY SizeTotal, TotalNext
<1>4. Total(fs)[1 .. k] \in Nat
  BY <1>1, SizeTotal, TotalNat
<1> QED
  BY <1>1, <1>2, <1>3, <1>4 DEF AnyFrames

LEMMA UpToNat ==
  ASSUME NEW fs \in Seq(AnyFrames), NEW k \in 0 .. Len(fs)
  PROVE  UpTo(fs, k) \in Nat
  BY UpToTotal, SizeTotal, TotalNat

LEMMA UpToMore ==
  ASSUME NEW fs \in Seq(AnyFrames), NEW j \in 0 .. Len(fs), NEW i \in 0 .. j
  PROVE  UpTo(fs, i) <= UpTo(fs, j)
<1> DEFINE T == {k \in 0 .. j - i : UpTo(fs, i) <= UpTo(fs, i + k)}
<1>1. 0 \in T
  BY UpToNat
<1>2. \A k \in 0 .. (j - i) - 1 : k \in T => k + 1 \in T
  <2> SUFFICES ASSUME NEW k \in 0 .. (j - i) - 1, k \in T PROVE k + 1 \in T
    OBVIOUS
  <2> DEFINE a == i + k
  <2>1. a \in 0 .. Len(fs) - 1 /\ a + 1 = i + (k + 1) /\ k + 1 \in 0 .. j - i /\ i \in 0 .. Len(fs)
    OBVIOUS
  <2>2. UpTo(fs, a + 1) = UpTo(fs, a) + fs[a + 1].bytes /\ UpTo(fs, a) \in Nat
        /\ fs[a + 1].bytes \in Nat
    <3> HIDE DEF a
    <3> QED
      BY <2>1, UpToNext
  <2>3. UpTo(fs, i) \in Nat
    BY <2>1, UpToNat
  <2> QED
    BY <2>1, <2>2, <2>3
<1>3. j - i \in T
  <2>1. j - i \in Nat /\ j - i \in 0 .. j - i
    OBVIOUS
  <2> HIDE DEF T
  <2> QED
    BY <1>1, <1>2, <2>1, Upwards
<1>4. i + (j - i) = j
  OBVIOUS
<1> QED
  BY <1>3, <1>4

LEMMA SizeNat == ASSUME NEW fs \in Seq(AnyFrames) PROVE Size(fs) \in Nat
<1>1. Len(fs) \in 0 .. Len(fs)
  OBVIOUS
<1> QED
  BY <1>1, UpToStart, UpToNat

LEMMA SizeConcat ==
  ASSUME NEW fs \in Seq(AnyFrames), NEW gs \in Seq(AnyFrames)
  PROVE  Size(fs \o gs) = Size(fs) + Size(gs)
<1> DEFINE all == fs \o gs
<1>1. /\ all \in Seq(AnyFrames) /\ Len(all) = Len(fs) + Len(gs)
      /\ \A k \in 1 .. Len(gs) : all[Len(fs) + k] = gs[k]
      /\ SubSeq(all, 1, Len(fs)) = fs
      /\ Len(fs) \in 0 .. Len(all) /\ Len(gs) \in 0 .. Len(gs)
  OBVIOUS
<1> HIDE DEF all
<1>2. Behind(all, gs, Len(fs))
  BY <1>1 DEF Behind
<1>3. Total(all)[1 .. Len(fs) + Len(gs)] = Total(all)[1 .. Len(fs)] + Size(gs)
  BY <1>2, TotalShift
<1>4. Total(all)[1 .. Len(fs)] = Size(fs)
  BY <1>1, UpToTotal DEF UpTo
<1> QED
  BY <1>1, <1>3, <1>4, SizeTotal DEF all

LEMMA SizeEmpty == Size(<< >>) = 0
<1>1. << >> \in Seq(AnyFrames) /\ Len(<< >>) = 0
  OBVIOUS
<1> QED
  BY <1>1, UpToStart

LEMMA SizeOne ==
  ASSUME NEW f \in AnyFrames
  PROVE  Size(<<f>>) = f.bytes
<1> DEFINE fs == <<f>>
<1>1. fs \in Seq(AnyFrames) /\ Len(fs) = 1 /\ fs[1] = f /\ 0 + 1 = 1 /\ 0 \in 0 .. 0
  OBVIOUS
<1> HIDE DEF fs
<1>2. 0 \in 0 .. Len(fs) - 1
  BY <1>1
<1>3. UpTo(fs, 0 + 1) = UpTo(fs, 0) + fs[0 + 1].bytes /\ UpTo(fs, 0) = 0
  BY <1>2, UpToNext, UpToStart, <1>1
<1>4. UpTo(fs, 1) = Size(fs) /\ f.bytes \in Nat
  BY <1>1, UpToStart DEF AnyFrames
<1> QED
  BY <1>1, <1>3, <1>4 DEF fs

----------------------------------------------------------------------------
(* The data frames.                                                        *)
Collected(fs) == CHOOSE iter : iter = [s \in SUBSET DOMAIN fs |->
  IF s = {} THEN << >>
  ELSE IF fs[Max(s)].kind \in DataKinds THEN Append(iter[s \ {Max(s)}], fs[Max(s)])
       ELSE iter[s \ {Max(s)}]]

LEMMA CollectedEquation ==
  ASSUME NEW n \in Nat, NEW fs \in [1 .. n -> AnyFrames]
  PROVE  \A s \in SUBSET (1 .. n) :
           Collected(fs)[s] =
             IF s = {} THEN << >>
             ELSE IF fs[Max(s)].kind \in DataKinds
                  THEN Append(Collected(fs)[s \ {Max(s)}], fs[Max(s)])
                  ELSE Collected(fs)[s \ {Max(s)}]
<1> DEFINE S == Seq(AnyFrames)
           step == [x \in S \X (1 .. n) |->
                      IF fs[x[2]].kind \in DataKinds THEN Append(x[1], fs[x[2]]) ELSE x[1]]
<1>1. step \in [S \X (1 .. n) -> S] /\ << >> \in S
  OBVIOUS
<1>2. \A x \in S, k \in 1 .. n :
        step[<<x, k>>] = IF fs[k].kind \in DataKinds THEN Append(x, fs[k]) ELSE x
  OBVIOUS
<1> HIDE DEF step, S
<1>3. PICK g \in [SUBSET (1 .. n) -> S] : FoldsTo(g, n, << >>, step)
  BY <1>1, FoldExists
<1>4. ASSUME NEW s \in SUBSET (1 .. n), s # {}
      PROVE  Max(s) \in 1 .. n /\ g[s \ {Max(s)}] \in S
  BY <1>4, LastIn
<1>5. g = [s \in SUBSET DOMAIN fs |->
             IF s = {} THEN << >>
             ELSE IF fs[Max(s)].kind \in DataKinds THEN Append(g[s \ {Max(s)}], fs[Max(s)])
                  ELSE g[s \ {Max(s)}]]
  BY <1>2, <1>3, <1>4 DEF FoldsTo
<1>6. Collected(fs) = [s \in SUBSET DOMAIN fs |->
             IF s = {} THEN << >>
             ELSE IF fs[Max(s)].kind \in DataKinds
                  THEN Append(Collected(fs)[s \ {Max(s)}], fs[Max(s)])
                  ELSE Collected(fs)[s \ {Max(s)}]]
  BY <1>5, Zenon DEF Collected
<1> HIDE DEF Collected
<1> QED
  BY <1>6

LEMMA CollectedStart ==
  ASSUME NEW n \in Nat, NEW fs \in [1 .. n -> AnyFrames]
  PROVE  Collected(fs)[1 .. 0] = << >>
<1>1. 1 .. 0 = {}
  OBVIOUS
<1> QED
  BY <1>1, CollectedEquation

LEMMA CollectedNext ==
  ASSUME NEW n \in Nat, NEW fs \in [1 .. n -> AnyFrames], NEW k \in 0 .. n - 1
  PROVE  Collected(fs)[1 .. k + 1] =
           IF fs[k + 1].kind \in DataKinds THEN Append(Collected(fs)[1 .. k], fs[k + 1])
           ELSE Collected(fs)[1 .. k]
<1> DEFINE j == k + 1
<1>1. j \in Nat /\ j # 0 /\ j - 1 = k /\ 1 .. j \subseteq 1 .. n /\ 1 \in 1 .. j
  OBVIOUS
<1> HIDE DEF j
<1>2. Max(1 .. j) = j /\ (1 .. j) \ {j} = 1 .. k
  BY <1>1, MaxUpTo
<1>3. 1 .. j \in SUBSET (1 .. n) /\ 1 .. j # {}
  BY <1>1
<1>4. Collected(fs)[1 .. j] =
        IF fs[Max(1 .. j)].kind \in DataKinds
        THEN Append(Collected(fs)[(1 .. j) \ {Max(1 .. j)}], fs[Max(1 .. j)])
        ELSE Collected(fs)[(1 .. j) \ {Max(1 .. j)}]
  BY <1>3, CollectedEquation
<1>5. Collected(fs)[1 .. j] =
        IF fs[j].kind \in DataKinds THEN Append(Collected(fs)[1 .. k], fs[j])
        ELSE Collected(fs)[1 .. k]
  BY <1>2, <1>4
<1> QED
  BY <1>5 DEF j

(* The data frames among the first i frames.                               *)
DataUpTo(fs, i) == DataOf(SubSeq(fs, 1, i))

LEMMA DataCollected ==
  ASSUME NEW fs \in Seq(AnyFrames)
  PROVE  DataOf(fs) = Collected(fs)[1 .. Len(fs)]
<1>1. DataOf(fs) = Collected(fs)[DOMAIN fs]
  BY Zenon DEF DataOf, FoldLeft, MapThenFoldSet, Collected
<1> QED
  BY <1>1

LEMMA DataUpToCollected ==
  ASSUME NEW fs \in Seq(AnyFrames), NEW i \in 0 .. Len(fs)
  PROVE  DataUpTo(fs, i) = Collected(fs)[1 .. i]
<1> DEFINE gs == SubSeq(fs, 1, i)  n == Len(fs)
<1>1. gs \in Seq(AnyFrames) /\ Len(gs) = i /\ \A k \in 1 .. i : gs[k] = fs[k]
  OBVIOUS
<1> HIDE DEF gs
<1>a. /\ n \in Nat /\ i \in Nat /\ i <= n
      /\ fs \in [1 .. n -> AnyFrames] /\ gs \in [1 .. i -> AnyFrames]
  BY <1>1
<1> HIDE DEF n
<1> DEFINE T == {k \in 0 .. i : Collected(gs)[1 .. k] = Collected(fs)[1 .. k]}
<1>2. 0 \in T
  BY <1>1, <1>a, CollectedStart
<1>3. \A k \in 0 .. i - 1 : k \in T => k + 1 \in T
  <2> SUFFICES ASSUME NEW k \in 0 .. i - 1, k \in T PROVE k + 1 \in T
    OBVIOUS
  <2>1. k \in 0 .. n - 1 /\ k + 1 \in 1 .. i /\ gs[k + 1] = fs[k + 1]
    BY <1>1, <1>a
  <2>2. Collected(gs)[1 .. k + 1] =
          IF gs[k + 1].kind \in DataKinds THEN Append(Collected(gs)[1 .. k], gs[k + 1])
          ELSE Collected(gs)[1 .. k]
    BY <1>1, <1>a, CollectedNext
  <2>3. Collected(fs)[1 .. k + 1] =
          IF fs[k + 1].kind \in DataKinds THEN Append(Collected(fs)[1 .. k], fs[k + 1])
          ELSE Collected(fs)[1 .. k]
    BY <1>a, <2>1, CollectedNext
  <2> QED
    BY <2>1, <2>2, <2>3
<1>4. i \in T
  <2>1. i \in 0 .. i
    BY <1>a
  <2> HIDE DEF T
  <2> QED
    BY <1>a, <1>2, <1>3, <2>1, Upwards
<1>5. DataOf(gs) = Collected(gs)[1 .. i]
  BY <1>1, DataCollected
<1> QED
  BY <1>4, <1>5 DEF DataUpTo, gs

LEMMA DataUpToStart ==
  ASSUME NEW fs \in Seq(AnyFrames)
  PROVE  DataUpTo(fs, 0) = << >> /\ DataUpTo(fs, Len(fs)) = DataOf(fs)
<1>1. /\ 0 \in 0 .. Len(fs) /\ Len(fs) \in 0 .. Len(fs)
      /\ Len(fs) \in Nat /\ fs \in [1 .. Len(fs) -> AnyFrames]
  OBVIOUS
<1> QED
  BY <1>1, DataUpToCollected, DataCollected, CollectedStart

LEMMA DataUpToNext ==
  ASSUME NEW fs \in Seq(AnyFrames), NEW k \in 0 .. Len(fs) - 1
  PROVE  DataUpTo(fs, k + 1) =
           IF fs[k + 1].kind \in DataKinds THEN Append(DataUpTo(fs, k), fs[k + 1])
           ELSE DataUpTo(fs, k)
<1>1. /\ k \in 0 .. Len(fs) /\ k + 1 \in 0 .. Len(fs)
      /\ Len(fs) \in Nat /\ fs \in [1 .. Len(fs) -> AnyFrames]
  OBVIOUS
<1>2. DataUpTo(fs, k + 1) = Collected(fs)[1 .. k + 1] /\ DataUpTo(fs, k) = Collected(fs)[1 .. k]
  BY <1>1, DataUpToCollected
<1> QED
  BY <1>1, <1>2, CollectedNext

(* The data frames among the first i are frames of fs, and what is the     *)
(* last frame of fs is the last of them.                                   *)
DataOK(fs, i) ==
  /\ DataUpTo(fs, i) \in Seq(AnyFrames)
  /\ \A m \in DOMAIN DataUpTo(fs, i) : \E k \in 1 .. i :
       /\ DataUpTo(fs, i)[m] = fs[k] /\ fs[k].kind \in DataKinds
       /\ k = Len(fs) => m = Len(DataUpTo(fs, i))

LEMMA DataOfFrames ==
  ASSUME NEW fs \in Seq(AnyFrames), NEW i \in 0 .. Len(fs)
  PROVE  DataOK(fs, i)
<1> DEFINE T == {k \in 0 .. Len(fs) : DataOK(fs, k)}
<1>1. 0 \in T
  <2>1. DataUpTo(fs, 0) = << >> /\ 0 \in 0 .. Len(fs)
    BY DataUpToStart
  <2>2. << >> \in Seq(AnyFrames) /\ DOMAIN << >> = {}
    OBVIOUS
  <2> QED
    BY <2>1, <2>2 DEF DataOK
<1>2. \A k \in 0 .. Len(fs) - 1 : k \in T => k + 1 \in T
  <2> SUFFICES ASSUME NEW k \in 0 .. Len(fs) - 1, k \in T PROVE k + 1 \in T
    OBVIOUS
  <2> DEFINE d == DataUpTo(fs, k)  e == DataUpTo(fs, k + 1)  f == fs[k + 1]
  <2>1. e = IF f.kind \in DataKinds THEN Append(d, f) ELSE d
    BY DataUpToNext
  <2>2. /\ k + 1 \in 1 .. Len(fs) /\ f \in AnyFrames /\ d \in Seq(AnyFrames)
        /\ \A m \in DOMAIN d : \E l \in 1 .. k : d[m] = fs[l] /\ fs[l].kind \in DataKinds
    BY DEF DataOK
  <2> HIDE DEF d, e, f
  <2>3. CASE f.kind \in DataKinds
    <3>1. /\ e \in Seq(AnyFrames) /\ Len(e) = Len(d) + 1 /\ e[Len(e)] = f
          /\ \A m \in DOMAIN d : e[m] = d[m]
          /\ \A m \in DOMAIN e : m \in DOMAIN d \/ m = Len(e)
      BY <2>1, <2>2, <2>3
    <3>2. \A m \in DOMAIN e : \E l \in 1 .. k + 1 :
                e[m] = fs[l] /\ fs[l].kind \in DataKinds /\ (l = Len(fs) => m = Len(e))
      <4> SUFFICES ASSUME NEW m \in DOMAIN e
                   PROVE  \E l \in 1 .. k + 1 :
                            e[m] = fs[l] /\ fs[l].kind \in DataKinds /\ (l = Len(fs) => m = Len(e))
        OBVIOUS
      <4>1. CASE m \in DOMAIN d
        <5>1. PICK l \in 1 .. k : d[m] = fs[l] /\ fs[l].kind \in DataKinds
          BY <2>2, <4>1
        <5>2. l \in 1 .. k + 1 /\ l # Len(fs)
          OBVIOUS
        <5> QED
          BY <3>1, <4>1, <5>1, <5>2
      <4>2. CASE m = Len(e)
        <5>1. k + 1 \in 1 .. k + 1
          OBVIOUS
        <5> QED
          BY <2>3, <3>1, <4>2, <5>1 DEF f
      <4> QED
        BY <3>1, <4>1, <4>2
    <3>3. DataOK(fs, k + 1)
      BY <2>2, <3>1, <3>2, Zenon DEF DataOK, e
    <3> QED
      BY <2>2, <3>3
  <2>4. CASE f.kind \notin DataKinds
    <3>1. e = d
      BY <2>1, <2>4
    <3>2. \A m \in DOMAIN e : \E l \in 1 .. k + 1 :
                e[m] = fs[l] /\ fs[l].kind \in DataKinds /\ (l = Len(fs) => m = Len(e))
      <4> SUFFICES ASSUME NEW m \in DOMAIN e
                   PROVE  \E l \in 1 .. k + 1 :
                            e[m] = fs[l] /\ fs[l].kind \in DataKinds /\ (l = Len(fs) => m = Len(e))
        OBVIOUS
      <4>1. PICK l \in 1 .. k : d[m] = fs[l] /\ fs[l].kind \in DataKinds
        BY <2>2, <3>1
      <4>2. l \in 1 .. k + 1 /\ l # Len(fs)
        OBVIOUS
      <4> QED
        BY <3>1, <4>1, <4>2
    <3>3. DataOK(fs, k + 1)
      BY <2>2, <3>1, <3>2, Zenon DEF DataOK, e
    <3> QED
      BY <2>2, <3>3
  <2> QED
    BY <2>3, <2>4
<1>3. i \in T
  <2> HIDE DEF T
  <2> QED
    BY <1>1, <1>2, Upwards
<1> QED
  BY <1>3

LEMMA PrefixOfLonger ==
  ASSUME NEW S, NEW s \in Seq(S), NEW t \in Seq(S), NEW x \in S, IsPrefix(s, t)
  PROVE  IsPrefix(s, Append(t, x))
  BY DEF IsPrefix

LEMMA DataPrefix ==
  ASSUME NEW fs \in Seq(AnyFrames), NEW i \in 0 .. Len(fs)
  PROVE  IsPrefix(DataUpTo(fs, i), DataOf(fs))
<1> DEFINE T == {k \in 0 .. Len(fs) - i : IsPrefix(DataUpTo(fs, i), DataUpTo(fs, i + k))}
           d == DataUpTo(fs, i)
<1>a. d \in Seq(AnyFrames)
  BY DataOfFrames DEF DataOK
<1>1. 0 \in T
  <2>1. IsPrefix(d, d)
    BY <1>a DEF IsPrefix
  <2> QED
    BY <2>1
<1>2. \A k \in 0 .. (Len(fs) - i) - 1 : k \in T => k + 1 \in T
  <2> SUFFICES ASSUME NEW k \in 0 .. (Len(fs) - i) - 1, k \in T PROVE k + 1 \in T
    OBVIOUS
  <2> DEFINE a == i + k
  <2>1. /\ a \in 0 .. Len(fs) - 1 /\ a \in 0 .. Len(fs) /\ a + 1 = i + (k + 1)
        /\ k + 1 \in 0 .. Len(fs) - i /\ fs[a + 1] \in AnyFrames
    OBVIOUS
  <2>2. IsPrefix(d, DataUpTo(fs, a))
    OBVIOUS
  <2> HIDE DEF a, d
  <2>3. /\ DataUpTo(fs, a + 1) = IF fs[a + 1].kind \in DataKinds
                                 THEN Append(DataUpTo(fs, a), fs[a + 1])
                                 ELSE DataUpTo(fs, a)
        /\ DataUpTo(fs, a) \in Seq(AnyFrames)
    BY <2>1, DataUpToNext, DataOfFrames DEF DataOK
  <2>4. IsPrefix(d, DataUpTo(fs, a + 1))
    BY <1>a, <2>1, <2>2, <2>3, PrefixOfLonger
  <2> QED
    BY <2>1, <2>4 DEF d
<1>3. Len(fs) - i \in T
  <2>1. Len(fs) - i \in Nat /\ Len(fs) - i \in 0 .. Len(fs) - i
    OBVIOUS
  <2> HIDE DEF T
  <2> QED
    BY <1>1, <1>2, <2>1, Upwards
<1>4. i + (Len(fs) - i) = Len(fs)
  OBVIOUS
<1> QED
  BY <1>3, <1>4, DataUpToStart

----------------------------------------------------------------------------
(* The sensor's FIFO.                                                      *)
LEMMA BytesLaw ==
  /\ DOMAIN Bytes = {"press_temp", "temp", "press", "time", "change"}
  /\ \A kind \in DOMAIN Bytes : Bytes[kind] \in 2 .. 7
  /\ \A kind \in DataKinds : kind \in DOMAIN Bytes /\ Bytes[kind] >= 4
  /\ Bytes["time"] = 4 /\ Bytes["change"] = 2
  BY DEF Bytes, DataKinds

LEMMA FramesAny ==
  /\ Frames \subseteq AnyFrames /\ Seq(Frames) \subseteq Seq(AnyFrames)
  /\ \A f \in AnyFrames :
       f.sample \in 0 .. MaxSamples /\ f.bytes <= Capacity + 4 => f \in Frames
<1>1. 0 .. MaxSamples \subseteq Nat /\ 0 .. Capacity + 4 \subseteq Nat
  BY Bmp3FifoAssumption
<1>2. Frames \subseteq AnyFrames
  BY <1>1 DEF Frames, AnyFrames
<1>3. ASSUME NEW s \in Seq(Frames) PROVE s \in Seq(AnyFrames)
  BY <1>2
<1>4. ASSUME NEW f \in AnyFrames, f.sample \in 0 .. MaxSamples, f.bytes <= Capacity + 4
      PROVE  f \in Frames
  <2>1. f.bytes \in 0 .. Capacity + 4
    BY <1>4, Bmp3FifoAssumption DEF AnyFrames
  <2> QED
    BY <1>4, <2>1 DEF Frames, AnyFrames
<1> QED
  BY <1>2, <1>3, <1>4

LEMMA FrameFits ==
  ASSUME NEW fs \in Seq(AnyFrames), NEW i \in DOMAIN fs
  PROVE  fs[i].bytes \in Nat /\ fs[i].bytes <= Size(fs)
<1> DEFINE k == i - 1
<1>1. k \in 0 .. Len(fs) - 1 /\ k + 1 = i /\ i \in 0 .. Len(fs) /\ Len(fs) \in 0 .. Len(fs)
      /\ i \in 0 .. Len(fs)
  OBVIOUS
<1> HIDE DEF k
<1>2. UpTo(fs, k + 1) = UpTo(fs, k) + fs[k + 1].bytes /\ UpTo(fs, k) \in Nat
      /\ fs[k + 1].bytes \in Nat
  BY <1>1, UpToNext
<1>3. UpTo(fs, i) <= UpTo(fs, Len(fs)) /\ UpTo(fs, Len(fs)) = Size(fs)
  <2>1. i \in 0 .. Len(fs) /\ i \in 0 .. Len(fs) /\ Len(fs) \in 0 .. Len(fs)
    BY <1>1
  <2>2. i \in 0 .. Len(fs) => UpTo(fs, i) <= UpTo(fs, Len(fs))
    BY <2>1, UpToMore
  <2> QED
    BY <2>1, <2>2, UpToStart
<1>4. Size(fs) \in Nat
  BY SizeNat
<1> QED
  BY <1>1, <1>2, <1>3, <1>4

(* A suffix, as Put takes it of the frames.                                *)
Suffix(fs, k) == SubSeq(fs, k, Len(fs))

LEMMA SuffixLaw ==
  ASSUME NEW fs \in Seq(AnyFrames), NEW k \in 1 .. Len(fs) + 1
  PROVE  /\ Suffix(fs, k) \in Seq(AnyFrames)
         /\ \A i \in DOMAIN Suffix(fs, k) : \E j \in DOMAIN fs : Suffix(fs, k)[i] = fs[j]
         /\ Size(fs) = UpTo(fs, k - 1) + Size(Suffix(fs, k))
         /\ k = 1 => Suffix(fs, k) = fs
<1> DEFINE r == SubSeq(fs, k, Len(fs))  p == SubSeq(fs, 1, k - 1)
<1>1. r \in Seq(AnyFrames) /\ p \in Seq(AnyFrames) /\ Len(r) = Len(fs) - (k - 1)
  OBVIOUS
<1>2. \A i \in DOMAIN r : (k - 1) + i \in DOMAIN fs /\ r[i] = fs[(k - 1) + i]
  OBVIOUS
<1>3. fs = p \o r
  <2> DEFINE j == k - 1
  <2>1. j \in 0 .. Len(fs) /\ k = j + 1 /\ 0 = 1 - 1
    OBVIOUS
  <2>2. 1 \in 1 .. Len(fs) + 1 /\ j \in 1 - 1 .. Len(fs) /\ Len(fs) \in j .. Len(fs)
    OBVIOUS
  <2> HIDE DEF j
  <2>3. SubSeq(fs, 1, j) \o SubSeq(fs, j + 1, Len(fs)) = SubSeq(fs, 1, Len(fs))
    BY <2>2, ConcatAdjacentSubSeq
  <2> QED
    BY <2>1, <2>3, SubSeqFull DEF j
<1>4. k = 1 => r = fs
  OBVIOUS
<1> HIDE DEF r, p
<1>5. Size(p \o r) = Size(p) + Size(r)
  BY <1>1, SizeConcat
<1>6. Size(fs) = Size(p) + Size(r)
  BY <1>3, <1>5
<1>7. \A i \in DOMAIN r : \E j \in DOMAIN fs : r[i] = fs[j]
  BY <1>2
<1> QED
  BY <1>1, <1>4, <1>6, <1>7 DEF r, p, Suffix, UpTo

(* What Put stores: the suffix it chooses exists.                          *)
LEMMA PutStores ==
  ASSUME NEW f \in AnyFrames, f.sample \in 0 .. MaxSamples, Put(f),
         fifo \in Seq(Frames), Size(fifo) <= Capacity
  PROVE  /\ fifo' \in Seq(Frames) /\ Size(fifo') <= Capacity
         /\ \A i \in DOMAIN fifo' : fifo'[i] = f \/ \E j \in DOMAIN fifo : fifo'[i] = fifo[j]
         /\ overran \in BOOLEAN => overran' \in BOOLEAN
         /\ overran => overran'
         /\ pc = "data" /\ ~overran' => fifo' = fifo \/ fifo' = Append(fifo, f)
<1> DEFINE all == Append(fifo, f)
<1>0. fifo \in Seq(AnyFrames)
  BY FramesAny
<1>1. /\ all \in Seq(AnyFrames) /\ Len(all) \in Nat
      /\ \A i \in DOMAIN all : all[i] = f \/ \E j \in DOMAIN fifo : all[i] = fifo[j]
      /\ \A i \in DOMAIN all : all[i] \in AnyFrames /\ all[i].sample \in 0 .. MaxSamples
  <2>1. all \in Seq(AnyFrames) /\ Len(all) \in Nat
    BY <1>0
  <2>2. \A i \in DOMAIN all : all[i] = f \/ \E j \in DOMAIN fifo : all[i] = fifo[j]
    BY <1>0
  <2>3. \A j \in DOMAIN fifo : fifo[j].sample \in 0 .. MaxSamples
    <3>1. \A j \in DOMAIN fifo : fifo[j] \in Frames
      OBVIOUS
    <3> QED
      BY <3>1 DEF Frames
  <2> QED
    BY <2>1, <2>2, <2>3
<1> DEFINE Fits(k) == /\ Size(SubSeq(all, k, Len(all))) <= Capacity
                      /\ \A j \in 1 .. k - 1 : Size(SubSeq(all, j, Len(all))) > Capacity
           from == CHOOSE k \in 1 .. Len(all) + 1 : Fits(k)
           stored == IF chip'.stop /\ from > 1 THEN fifo ELSE SubSeq(all, from, Len(all))
<1>2. /\ fifo' = stored
      /\ overran' = (overran \/ (pc = "data" /\ from > 1 /\ ~chip'.stop))
  BY DEF Put
<1> HIDE DEF all
<1>3. \E k \in 1 .. Len(all) + 1 : Fits(k)
  <2> DEFINE K == {k \in 1 .. Len(all) + 1 : Size(Suffix(all, k)) <= Capacity}
  <2>1. Len(all) + 1 \in K
    <3>1. Suffix(all, Len(all) + 1) = << >>
      BY <1>1 DEF Suffix
    <3> QED
      BY <1>1, <3>1, SizeEmpty, Bmp3FifoAssumption
  <2>2. K \subseteq Nat
    BY <1>1
  <2> HIDE DEF K
  <2>3. PICK k \in K : \A m \in K : k <= m
    BY <2>1, <2>2, LeastNatural
  <2> USE DEF K
  <2>4. ASSUME NEW j \in 1 .. k - 1 PROVE Size(SubSeq(all, j, Len(all))) > Capacity
    <3>1. j \in 1 .. Len(all) + 1 /\ ~(k <= j)
      BY <1>1
    <3>2. Suffix(all, j) \in Seq(AnyFrames)
      BY <1>1, <3>1, SuffixLaw
    <3>3. Size(Suffix(all, j)) \in Nat
      BY <3>2, SizeNat
    <3>4. ~(Size(Suffix(all, j)) <= Capacity)
      BY <2>3, <3>1
    <3> QED
      BY <3>3, <3>4, Bmp3FifoAssumption DEF Suffix
  <2>5. k \in 1 .. Len(all) + 1 /\ Size(SubSeq(all, k, Len(all))) <= Capacity
    BY <2>3 DEF Suffix
  <2> QED
    BY <2>4, <2>5
<1>4. from \in 1 .. Len(all) + 1 /\ Size(Suffix(all, from)) <= Capacity
  BY <1>3 DEF Suffix
<1> HIDE DEF from
<1> DEFINE r == Suffix(all, from)
<1>5. /\ r \in Seq(AnyFrames)
      /\ \A i \in DOMAIN r : \E j \in DOMAIN all : r[i] = all[j]
      /\ from = 1 => r = all
  BY <1>1, <1>4, SuffixLaw
<1>6. stored = IF chip'.stop /\ from > 1 THEN fifo ELSE r
  BY DEF Suffix
<1>7. Size(r) <= Capacity
  BY <1>4
<1> HIDE DEF r, stored
<1>8. r \in Seq(Frames)
  <2>1. ASSUME NEW i \in DOMAIN r PROVE r[i] \in Frames
    <3>1. r[i].bytes \in Nat /\ r[i].bytes <= Size(r) /\ Size(r) \in Nat
      BY <1>5, FrameFits, SizeNat
    <3>2. r[i] \in AnyFrames /\ r[i].sample \in 0 .. MaxSamples
      BY <1>1, <1>5
    <3> QED
      BY <1>7, <3>1, <3>2, FramesAny, Bmp3FifoAssumption
  <2> QED
    BY <1>5, <2>1
<1>9. \A i \in DOMAIN r : r[i] = f \/ \E j \in DOMAIN fifo : r[i] = fifo[j]
  BY <1>1, <1>5
<1>10. pc = "data" /\ ~overran' => fifo' = fifo \/ fifo' = all
  <2> SUFFICES ASSUME pc = "data", ~overran' PROVE fifo' = fifo \/ fifo' = all
    OBVIOUS
  <2>1. from > 1 => chip'.stop
    BY <1>2
  <2>2. CASE from > 1
    BY <1>2, <1>6, <2>1, <2>2
  <2>3. CASE ~(from > 1)
    <3>1. from = 1
      BY <1>1, <1>4, <2>3
    <3> QED
      BY <1>2, <1>5, <1>6, <2>3, <3>1
  <2> QED
    BY <2>2, <2>3
<1> QED
  BY <1>2, <1>6, <1>7, <1>8, <1>9, <1>10 DEF all

----------------------------------------------------------------------------
(* The inductive invariant.                                                *)
TimeMissing == (timed.dev /\ ~timed.chip) \/ overran

ChipOK == chip.press => chip.temp \/ TempAlone

(* The FIFO holds whole frames.                                            *)
Stored(f) ==
  /\ f.kind \in DataKinds \cup {"change"} /\ IsWhole(f)
  /\ f.kind = "press" => TempAlone

FifoOK == \A i \in DOMAIN fifo : Stored(fifo[i])

(* The frames that the length was read of are still the first ones, and    *)
(* only measurements have come after them.                                 *)
Counted(i) ==
  /\ byte_count = UpTo(fifo, i) + (IF dev.time THEN 4 ELSE 0)
  /\ \A k \in i + 1 .. Len(fifo) : fifo[k].bytes >= 4

LengthOK == pc = "data" /\ ~overran => \E i \in 0 .. Len(fifo) : Counted(i)

(* The buffer holds whole frames, the last excepted.                       *)
Buffered(f, last) ==
  /\ f.bytes > 0
  /\ f.kind = "empty" => last /\ TimeMissing
  /\ f.kind # "empty" /\ ~IsWhole(f) =>
       last /\ (timed.dev \/ overran) /\ f.bytes < Bytes[f.kind]
  /\ f.kind = "press" => TempAlone

BufferOK == \A i \in DOMAIN buffer : Buffered(buffer[i], i = Len(buffer))

PcOK ==
  /\ pc \in {"length", "data"} =>
       /\ buffer = << >> /\ given = << >> /\ start_idx = 0
       /\ ~config_err /\ ~frame_not_available /\ ~usable
  /\ usable => Size(buffer) = byte_count

(* An index where the parser stands when it has seen the first j frames of *)
(* the buffer: at the next, or past the last, or inside the empty bytes.   *)
Stands(at, j) ==
  \/ at = UpTo(buffer, j)
  \/ /\ j = Len(buffer) /\ j > 0 /\ at > UpTo(buffer, j - 1)
     /\ at >= byte_count \/ buffer[j].kind = "empty"

PlaceOK ==
  /\ \E j \in 0 .. Len(buffer) : given = DataUpTo(buffer, j) /\ Stands(start_idx, j)
  /\ usable /\ frame_not_available => given = DataFrames
  /\ config_err => TimeMissing

FifoInv == TypeOK /\ ChipOK /\ FifoOK /\ LengthOK /\ BufferOK /\ PcOK /\ PlaceOK

----------------------------------------------------------------------------
(* bmp3_get_fifo_data: the burst.                                          *)
LEMMA WholeExists ==
  ASSUME NEW n \in Nat, fifo \in Seq(AnyFrames)
  PROVE  /\ Whole(n) \in 0 .. Len(fifo)
         /\ UpTo(fifo, Whole(n)) <= n
         /\ Whole(n) < Len(fifo) => UpTo(fifo, Whole(n) + 1) > n
<1> DEFINE Ends(k) == /\ Size(SubSeq(fifo, 1, k)) <= n
                      /\ k < Len(fifo) => Size(SubSeq(fifo, 1, k + 1)) > n
<1>1. \E k \in 0 .. Len(fifo) : Ends(k)
  <2>1. CASE UpTo(fifo, Len(fifo)) <= n
    <3>1. Len(fifo) \in 0 .. Len(fifo) /\ ~(Len(fifo) < Len(fifo))
      OBVIOUS
    <3>2. Ends(Len(fifo))
      BY <2>1, <3>1 DEF UpTo
    <3> QED
      BY <3>1, <3>2
  <2>2. CASE ~(UpTo(fifo, Len(fifo)) <= n)
    <3> DEFINE K == {k \in 0 .. Len(fifo) : ~(UpTo(fifo, k) <= n)}
    <3>1. K \subseteq Nat /\ Len(fifo) \in K
      BY <2>2
    <3> HIDE DEF K
    <3>2. PICK k \in K : \A m \in K : k <= m
      BY <3>1, LeastNatural
    <3> USE DEF K
    <3>3. k # 0
      BY <3>2, UpToStart
    <3> DEFINE j == k - 1
    <3>4. j \in 0 .. Len(fifo) /\ j + 1 = k /\ j \notin K /\ k \in 0 .. Len(fifo)
      BY <3>2, <3>3
    <3>5. UpTo(fifo, j) <= n /\ ~(UpTo(fifo, j + 1) <= n)
      BY <3>2, <3>4
    <3>6. UpTo(fifo, j + 1) \in Nat
      BY <3>4, UpToNat
    <3> HIDE DEF j
    <3>7. Ends(j)
      BY <3>5, <3>6 DEF UpTo
    <3> QED
      BY <3>4, <3>7
  <2> QED
    BY <2>1, <2>2
<1>2. Whole(n) = CHOOSE k \in 0 .. Len(fifo) : Ends(k)
  BY DEF Whole
<1>3. Whole(n) \in 0 .. Len(fifo) /\ Ends(Whole(n))
  BY <1>1, <1>2
<1> QED
  BY <1>3 DEF UpTo

(* What follows the k whole frames of a burst, r bytes of it: part of the  *)
(* next frame, or the time and empty bytes.                                *)
Cut(f, k, r) ==
  /\ k < Len(fifo) /\ r > 0 /\ r < fifo[k + 1].bytes
  /\ f.kind = fifo[k + 1].kind /\ f.sample = fifo[k + 1].sample /\ f.bytes = r

Nothing(f, k, r) ==
  /\ k = Len(fifo) /\ r > 0 /\ ~(chip.time /\ r = 4)
  /\ f.kind = "empty" /\ f.sample = 0 /\ f.bytes \in 1 .. r

TailOK(t, k, r) ==
  /\ t \in Seq(AnyFrames) /\ Size(t) = r
  /\ \A i \in DOMAIN t : \/ t[i] = Frame("time", 0)
                         \/ i = Len(t) /\ (Cut(t[i], k, r) \/ Nothing(t[i], k, r))

LEMMA BurstTail ==
  ASSUME NEW n \in Nat, fifo \in Seq(AnyFrames)
  PROVE  \E t : /\ Burst(n) = SubSeq(fifo, 1, Whole(n)) \o t
                /\ TailOK(t, Whole(n), n - UpTo(fifo, Whole(n)))
<1> DEFINE k == Whole(n)  r == n - UpTo(fifo, k)  f == fifo[k + 1]
           time == IF chip.time /\ r >= Bytes["time"] THEN <<Frame("time", 0)>> ELSE << >>
           none == [kind |-> "empty", sample |-> 0, bytes |-> 0]
           t == IF k < Len(fifo) THEN Piece(f, r) ELSE time \o Piece(none, r - Size(time))
<1>1. Burst(n) = SubSeq(fifo, 1, k) \o t
  BY DEF Burst, UpTo
<1>2. /\ k \in 0 .. Len(fifo) /\ r \in Nat
      /\ k < Len(fifo) => f \in AnyFrames /\ r < f.bytes
  <2>1. k \in 0 .. Len(fifo) /\ UpTo(fifo, k) <= n
        /\ (k < Len(fifo) => UpTo(fifo, k + 1) > n)
    BY WholeExists
  <2> HIDE DEF k
  <2>2. UpTo(fifo, k) \in Nat
    BY <2>1, UpToNat
  <2>3. CASE k < Len(fifo)
    <3>1. k \in 0 .. Len(fifo) - 1
      BY <2>1, <2>3
    <3>2. UpTo(fifo, k + 1) = UpTo(fifo, k) + fifo[k + 1].bytes
          /\ fifo[k + 1] \in AnyFrames /\ fifo[k + 1].bytes \in Nat
      BY <3>1, UpToNext
    <3> QED
      BY <2>1, <2>2, <3>2
  <2> QED
    BY <2>1, <2>2, <2>3
<1> HIDE DEF k, r
<1>3. TailOK(t, k, r)
  <2>1. CASE r = 0
    <3>1. t = << >>
      <4>1. time = << >>
        BY <2>1, BytesLaw
      <4>2. Piece(f, 0) = << >> /\ Piece(none, 0) = << >>
        BY DEF Piece
      <4>3. 0 - Size(<< >>) = 0 /\ << >> \o << >> = << >>
        BY SizeEmpty
      <4> HIDE DEF time, none, f
      <4> QED
        BY <2>1, <4>1, <4>2, <4>3
    <3>2. << >> \in Seq(AnyFrames) /\ DOMAIN << >> = {}
      OBVIOUS
    <3> QED
      BY <2>1, <3>1, <3>2, SizeEmpty DEF TailOK
  <2>2. CASE r # 0 /\ k < Len(fifo)
    <3> DEFINE c == [f EXCEPT !.bytes = r]
    <3>1. t = <<c>>
      BY <2>2 DEF Piece
    <3>2. f \in AnyFrames /\ r \in Nat /\ r < f.bytes
      BY <1>2, <2>2
    <3>3. c \in AnyFrames /\ c.kind = f.kind /\ c.sample = f.sample /\ c.bytes = r
      <4> HIDE DEF f
      <4> QED
        BY <3>2 DEF AnyFrames
    <3>4. Cut(c, k, r)
      BY <1>2, <2>2, <3>2, <3>3 DEF Cut
    <3> HIDE DEF c, t
    <3>5. t \in Seq(AnyFrames) /\ Size(t) = r
      BY <3>1, <3>3, SizeOne
    <3>6. DOMAIN t = {1} /\ Len(t) = 1 /\ t[1] = c
      BY <3>1
    <3> QED
      BY <3>4, <3>5, <3>6 DEF TailOK
  <2>3. CASE r # 0 /\ ~(k < Len(fifo))
    <3> DEFINE rest == r - Size(time)  e == [none EXCEPT !.bytes = rest]
    <3>1. t = time \o Piece(none, rest)
      BY <2>3
    <3>2. Frame("time", 0) \in AnyFrames /\ Frame("time", 0).bytes = 4
      BY BytesLaw DEF Frame, AnyFrames
    <3>3. \/ time = <<Frame("time", 0)>> /\ Size(time) = 4 /\ r >= 4
          \/ time = << >> /\ Size(time) = 0 /\ ~(chip.time /\ r = 4)
      BY <1>2, <3>2, SizeOne, SizeEmpty, BytesLaw
    <3>4. rest \in Nat /\ rest <= r /\ (rest # 0 => ~(chip.time /\ r = 4))
      BY <1>2, <3>3
    <3>5. /\ e.kind = "empty" /\ e.sample = 0 /\ e.bytes = rest /\ e \in AnyFrames
      BY <3>4 DEF AnyFrames
    <3>6. rest # 0 => Nothing(e, k, r)
      BY <1>2, <2>3, <3>4, <3>5 DEF Nothing
    <3>7. Piece(none, rest) = IF rest = 0 THEN << >> ELSE <<e>>
      BY DEF Piece
    <3> DEFINE p == IF rest = 0 THEN << >> ELSE <<e>>
    <3>8. time \in Seq(AnyFrames) /\ p \in Seq(AnyFrames) /\ Size(p) = rest
      BY <3>2, <3>3, <3>4, <3>5, SizeOne, SizeEmpty
    <3>t. t = time \o p
      <4> HIDE DEF time, t, none, rest
      <4> QED
        BY <3>1, <3>7
    <3> HIDE DEF t, time, none, rest, e
    <3>9. t \in Seq(AnyFrames) /\ Size(t) = r
      <4> HIDE DEF p
      <4>1. Size(time \o p) = Size(time) + Size(p) /\ Size(time) \in Nat
        BY <3>8, SizeConcat, SizeNat
      <4> QED
        BY <1>2, <3>t, <3>8, <4>1 DEF rest
    <3>10. ASSUME NEW i \in DOMAIN t
           PROVE  \/ t[i] = Frame("time", 0)
                  \/ i = Len(t) /\ Nothing(t[i], k, r)
      <4>1. CASE rest = 0
        <5>1. t = time
          BY <3>t, <3>8, <4>1
        <5> QED
          BY <3>3, <5>1
      <4>2. CASE rest # 0
        <5>1. t = time \o <<e>>
          BY <3>t, <4>2
        <5>2. CASE time = << >>
          <6>1. t = <<e>>
            BY <5>1, <5>2
          <6> QED
            BY <3>6, <4>2, <6>1
        <5>3. CASE time = <<Frame("time", 0)>>
          <6> DEFINE x == Frame("time", 0)
          <6>1. time = <<x>> /\ x \in AnyFrames
            BY <3>2, <5>3
          <6> HIDE DEF x
          <6>2. Len(t) = 2 /\ t[1] = x /\ t[2] = e /\ DOMAIN t = 1 .. 2
            BY <3>5, <5>1, <6>1
          <6> QED
            BY <3>6, <4>2, <6>2 DEF x
        <5> QED
          BY <3>3, <5>2, <5>3
      <4> QED
        BY <4>1, <4>2
    <3>11. \A i \in DOMAIN t : \/ t[i] = Frame("time", 0)
                               \/ i = Len(t) /\ (Cut(t[i], k, r) \/ Nothing(t[i], k, r))
      BY <3>10, Zenon
    <3> QED
      BY <3>9, <3>11, Zenon DEF TailOK
  <2> QED
    BY <2>1, <2>2, <2>3
<1> QED
  BY <1>1, <1>3 DEF k, r

(* Bytes that are no whole frame have their reason.                        *)
LEMMA CutReason ==
  ASSUME FifoInv, pc = "data", ~overran,
         NEW k \in 0 .. Len(fifo), UpTo(fifo, k) < byte_count,
         k < Len(fifo) => UpTo(fifo, k + 1) > byte_count
  PROVE  /\ dev.time
         /\ k = Len(fifo) => byte_count - UpTo(fifo, k) = 4
<1>1. fifo \in Seq(AnyFrames) /\ byte_count \in Nat /\ Len(fifo) \in Nat
  BY FramesAny, Bmp3FifoAssumption DEF FifoInv, TypeOK
<1>2. PICK i \in 0 .. Len(fifo) : Counted(i)
  BY DEF FifoInv, LengthOK
<1>3. UpTo(fifo, i) \in Nat /\ UpTo(fifo, k) \in Nat
  BY <1>1, UpToNat
<1>4. i <= k
  <2> SUFFICES ASSUME ~(i <= k) PROVE FALSE
    OBVIOUS
  <2> DEFINE j == k + 1
  <2>1. j \in 0 .. i /\ k < Len(fifo)
    OBVIOUS
  <2> HIDE DEF j
  <2>2. UpTo(fifo, j) <= UpTo(fifo, i)
    BY <1>1, <2>1, UpToMore
  <2>3. j \in 0 .. Len(fifo)
    BY <1>1, <2>1
  <2>4. UpTo(fifo, j) \in Nat
    BY <1>1, <2>3, UpToNat
  <2>5. UpTo(fifo, j) > byte_count
    BY <2>1 DEF j
  <2> QED
    BY <1>1, <1>2, <1>3, <2>2, <2>4, <2>5 DEF Counted
<1>5. UpTo(fifo, i) <= UpTo(fifo, k)
  <2>1. i \in 0 .. k
    BY <1>4
  <2> QED
    BY <1>1, <2>1, UpToMore
<1>6. dev.time
  BY <1>1, <1>2, <1>3, <1>5 DEF Counted
<1>7. i < k => UpTo(fifo, k) >= UpTo(fifo, i) + 4
  <2> SUFFICES ASSUME i < k PROVE UpTo(fifo, k) >= UpTo(fifo, i) + 4
    OBVIOUS
  <2> DEFINE j == i + 1
  <2>1. i \in 0 .. Len(fifo) - 1 /\ j \in i + 1 .. Len(fifo) /\ j \in 0 .. k /\ j = i + 1
    BY <1>1
  <2> HIDE DEF j
  <2>2. UpTo(fifo, i + 1) = UpTo(fifo, i) + fifo[i + 1].bytes /\ fifo[i + 1].bytes \in Nat
    BY <1>1, <2>1, UpToNext
  <2>3. fifo[j].bytes >= 4
    BY <1>2, <2>1 DEF Counted
  <2>4. UpTo(fifo, j) <= UpTo(fifo, k)
    BY <1>1, <2>1, UpToMore
  <2> QED
    BY <1>3, <2>1, <2>2, <2>3, <2>4
<1>8. i = k
  BY <1>1, <1>2, <1>3, <1>4, <1>6, <1>7 DEF Counted
<1> QED
  BY <1>1, <1>2, <1>3, <1>6, <1>8 DEF Counted

LEMMA ReadFifoKeeps ==
  ASSUME FifoInv, ReadFifo
  PROVE  FifoInv'
<1> DEFINE n == byte_count  k == Whole(n)  r == n - UpTo(fifo, k)
           pre == SubSeq(fifo, 1, k)
<1>1. /\ fifo \in Seq(Frames) /\ fifo \in Seq(AnyFrames) /\ Size(fifo) <= Capacity
      /\ n \in Nat /\ n \in 0 .. Capacity + 4 /\ pc = "data"
      /\ chip \in Settings /\ dev \in Settings
  BY FramesAny, Bmp3FifoAssumption DEF FifoInv, TypeOK, ReadFifo
<1>2. /\ k \in 0 .. Len(fifo) /\ UpTo(fifo, k) <= n
      /\ k < Len(fifo) => UpTo(fifo, k + 1) > n
  BY <1>1, WholeExists
<1>3. PICK t : Burst(n) = pre \o t /\ TailOK(t, k, r)
  BY <1>1, BurstTail
<1>4. /\ buffer' = pre \o t /\ fifo' = SubSeq(fifo, k + 1, Len(fifo))
      /\ timed' = [dev |-> dev.time, chip |-> chip.time] /\ usable' \in BOOLEAN
      /\ UNCHANGED <<chip, samples, dev, byte_count, start_idx, config_err,
                     frame_not_available, given, overran>>
      /\ pc' = "idle" /\ sel' = {} /\ configs' = configs
  BY <1>3 DEF ReadFifo, Return
<1> HIDE DEF k
<1>5. /\ pre \in Seq(AnyFrames) /\ Len(pre) = k /\ Size(pre) = UpTo(fifo, k)
      /\ \A i \in 1 .. k : pre[i] = fifo[i] /\ i \in DOMAIN fifo
  BY <1>1, <1>2 DEF UpTo
<1>6. r \in Nat /\ r <= n /\ UpTo(fifo, k) \in Nat
  BY <1>1, <1>2, UpToNat
<1>7. t \in Seq(AnyFrames) /\ Size(t) = r
  BY <1>3 DEF TailOK
<1> HIDE DEF pre
<1>8. /\ buffer' \in Seq(AnyFrames) /\ Len(buffer') = k + Len(t)
      /\ \A i \in 1 .. k : buffer'[i] = fifo[i]
      /\ \A i \in DOMAIN buffer' :
           \/ i \in 1 .. k
           \/ i - k \in DOMAIN t /\ buffer'[i] = t[i - k] /\ (i - k = Len(t) => i = Len(buffer'))
  <2> DEFINE b == buffer'
  <2>1. /\ b \in Seq(AnyFrames) /\ Len(b) = k + Len(t)
        /\ \A i \in 1 .. k + Len(t) : b[i] = IF i <= k THEN pre[i] ELSE t[i - k]
    BY <1>4, <1>5, <1>7, ConcatProperties
  <2> HIDE DEF b
  <2>2. Len(t) \in Nat /\ k \in Nat /\ DOMAIN t = 1 .. Len(t) /\ DOMAIN b = 1 .. k + Len(t)
    BY <1>1, <1>2, <1>7, <2>1
  <2>3. \A i \in 1 .. k : b[i] = fifo[i]
    BY <1>5, <2>1, <2>2
  <2>4. ASSUME NEW i \in DOMAIN b
        PROVE  \/ i \in 1 .. k
               \/ i - k \in DOMAIN t /\ b[i] = t[i - k] /\ (i - k = Len(t) => i = Len(b))
    BY <2>1, <2>2
  <2> QED
    BY <2>1, <2>3, <2>4 DEF b
<1>9. Size(buffer') = n
  <2>1. Size(pre \o t) = Size(pre) + Size(t)
    BY <1>5, <1>7, SizeConcat
  <2> QED
    BY <1>1, <1>4, <1>5, <1>6, <1>7, <2>1
<1>10. r > 0 /\ ~overran => dev.time /\ (k = Len(fifo) => r = 4)
  BY <1>1, <1>2, <1>6, CutReason
<1>11. ASSUME NEW i \in DOMAIN buffer'
       PROVE  Buffered(buffer[i], i = Len(buffer))' /\ buffer'[i] \in Frames
  <2>0. buffer'[i] \in AnyFrames
    BY <1>8
  <2>1. CASE i \in 1 .. k
    <3>1. Stored(fifo[i]) /\ fifo[i] \in Frames /\ buffer'[i] = fifo[i]
      BY <1>1, <1>5, <1>8, <2>1 DEF FifoInv, FifoOK
    <3> DEFINE f == buffer'[i]
    <3>2. f.kind \in DOMAIN Bytes /\ f.kind # "empty" /\ f.bytes = Bytes[f.kind] /\ f.bytes \in 2 .. 7
          /\ (f.kind = "press" => TempAlone) /\ f \in Frames
      BY <3>1, BytesLaw DEF Stored, IsWhole
    <3> QED
      BY <3>2 DEF Buffered, IsWhole, TempAlone
  <2>2. CASE i \notin 1 .. k
    <3> DEFINE f == buffer'[i]
    <3>1. \/ f = Frame("time", 0)
          \/ i = Len(buffer') /\ (Cut(f, k, r) \/ Nothing(f, k, r))
      BY <1>3, <1>8, <2>2 DEF TailOK
    <3>2. CASE f = Frame("time", 0)
      <4>1. f.kind = "time" /\ f.bytes = 4 /\ f.sample = 0
        BY <3>2, BytesLaw DEF Frame
      <4>2. f \in Frames
        <5> HIDE DEF f
        <5> QED
          BY <2>0, <4>1, FramesAny, Bmp3FifoAssumption DEF f
      <4> QED
        BY <4>1, <4>2, BytesLaw DEF Buffered, IsWhole
    <3>3. CASE i = Len(buffer') /\ Cut(f, k, r)
      <4> DEFINE g == fifo[k + 1]
      <4>1. k + 1 \in DOMAIN fifo /\ Stored(g) /\ g \in Frames
        BY <1>1, <1>2, <3>3 DEF Cut, FifoInv, FifoOK
      <4>2. /\ g.bytes = Bytes[g.kind] /\ g.kind # "empty" /\ (g.kind = "press" => TempAlone)
            /\ g.sample \in 0 .. MaxSamples
        BY <4>1 DEF Stored, IsWhole, Frames, DataKinds
      <4>3. f.kind = g.kind /\ f.sample = g.sample /\ f.bytes = r /\ r > 0 /\ r < Bytes[g.kind]
        BY <3>3, <4>2 DEF Cut
      <4>4. timed'.dev \/ overran'
        BY <1>4, <1>10, <4>3
      <4>5. f \in Frames
        <5>1. f.bytes <= Capacity + 4
          BY <1>1, <1>6, <4>3, Bmp3FifoAssumption
        <5> QED
          BY <2>0, <4>2, <4>3, <5>1, FramesAny
      <4> QED
        BY <3>3, <4>2, <4>3, <4>4, <4>5 DEF Buffered, IsWhole, TempAlone
    <3>4. CASE i = Len(buffer') /\ Nothing(f, k, r)
      <4>1. /\ f.kind = "empty" /\ f.sample = 0 /\ f.bytes \in 1 .. r
            /\ k = Len(fifo) /\ r > 0 /\ ~(chip.time /\ r = 4)
        BY <3>4 DEF Nothing
      <4>2. (timed'.dev /\ ~timed'.chip) \/ overran'
        BY <1>4, <1>10, <4>1
      <4>3. f \in Frames
        <5>1. f.bytes <= Capacity + 4 /\ 0 \in 0 .. MaxSamples
          BY <1>1, <1>6, <4>1, Bmp3FifoAssumption
        <5> QED
          BY <2>0, <4>1, <5>1, FramesAny
      <4> QED
        BY <3>4, <4>1, <4>2, <4>3 DEF Buffered, TimeMissing
    <3> QED
      BY <3>1, <3>2, <3>3, <3>4
  <2> QED
    BY <2>1, <2>2
<1>12. BufferOK' /\ buffer' \in Seq(Frames)
  BY <1>8, <1>11 DEF BufferOK
<1>13. FifoOK' /\ fifo' \in Seq(Frames) /\ Size(fifo') <= Capacity
  <2> DEFINE j == k + 1
  <2>1. j \in 1 .. Len(fifo) + 1 /\ j - 1 = k
    BY <1>1, <1>2
  <2> HIDE DEF j
  <2>2. /\ Suffix(fifo, j) \in Seq(AnyFrames)
        /\ \A i \in DOMAIN Suffix(fifo, j) : \E m \in DOMAIN fifo : Suffix(fifo, j)[i] = fifo[m]
        /\ Size(fifo) = UpTo(fifo, j - 1) + Size(Suffix(fifo, j))
    BY <1>1, <2>1, SuffixLaw
  <2>3. fifo' = Suffix(fifo, j)
    BY <1>4 DEF Suffix, j
  <2>4. Size(fifo') \in Nat
    BY <2>2, <2>3, SizeNat
  <2>5. \A m \in DOMAIN fifo : fifo[m] \in Frames /\ Stored(fifo[m])
    BY <1>1 DEF FifoInv, FifoOK
  <2>6. \A i \in DOMAIN fifo' : fifo'[i] \in Frames /\ Stored(fifo'[i])
    BY <2>2, <2>3, <2>5
  <2> QED
    BY <1>1, <1>6, <2>1, <2>2, <2>3, <2>4, <2>6, Bmp3FifoAssumption DEF FifoOK, Stored, TempAlone
<1>14. PlaceOK'
  <2>1. /\ given' = << >> /\ start_idx' = 0 /\ ~config_err' /\ ~frame_not_available'
    BY <1>1, <1>4 DEF FifoInv, PcOK
  <2>2. DataUpTo(buffer', 0) = << >> /\ UpTo(buffer', 0) = 0 /\ 0 \in 0 .. Len(buffer')
    BY <1>8, DataUpToStart, UpToStart
  <2> QED
    BY <2>1, <2>2 DEF PlaceOK, Stands
<1>15. ChipOK' /\ LengthOK' /\ PcOK'
  BY <1>4, <1>9 DEF FifoInv, ChipOK, LengthOK, PcOK, TempAlone
<1>16. TypeOK'
  <2>1. timed' \in [dev : BOOLEAN, chip : BOOLEAN]
    BY <1>1, <1>4 DEF Settings
  <2> QED
    BY <1>4, <1>9, <1>12, <1>13, <2>1 DEF FifoInv, TypeOK
<1> QED
  BY <1>12, <1>13, <1>14, <1>15, <1>16 DEF FifoInv

----------------------------------------------------------------------------
(* bmp3_extract_fifo_data: the parser.                                     *)
NoFrame == [kind |-> "empty", sample |-> 0, bytes |-> 0]

LEMMA HeaderLaw ==
  ASSUME FifoInv
  PROVE  /\ \A j \in 0 .. Len(buffer) - 1 : HeaderAt(UpTo(buffer, j)) = buffer[j + 1]
         /\ \A at : Len(buffer) > 0 /\ at \in Nat /\ at > UpTo(buffer, Len(buffer) - 1)
                     => HeaderAt(at) = NoFrame
<1>1. buffer \in Seq(AnyFrames) /\ Len(buffer) \in Nat
  BY FramesAny DEF FifoInv, TypeOK
<1>2. ASSUME NEW i \in 1 .. Len(buffer), NEW j \in 0 .. Len(buffer) - 1, i <= j
      PROVE  UpTo(buffer, i - 1) < UpTo(buffer, j)
  <2> DEFINE h == i - 1
  <2>1. h \in 0 .. Len(buffer) - 1 /\ i = h + 1 /\ i \in 0 .. j /\ j \in 0 .. Len(buffer)
        /\ i \in DOMAIN buffer
    BY <1>1, <1>2
  <2> HIDE DEF h
  <2>2. UpTo(buffer, h + 1) = UpTo(buffer, h) + buffer[h + 1].bytes /\ UpTo(buffer, h) \in Nat
        /\ buffer[h + 1].bytes \in Nat
    BY <1>1, <2>1, UpToNext
  <2>3. UpTo(buffer, i) <= UpTo(buffer, j) /\ UpTo(buffer, j) \in Nat
    BY <1>1, <2>1, UpToMore, UpToNat
  <2>4. buffer[i].bytes > 0
    BY <2>1 DEF FifoInv, BufferOK, Buffered
  <2> QED
    BY <2>1, <2>2, <2>3, <2>4 DEF h
<1>3. ASSUME NEW i \in 1 .. Len(buffer), NEW j \in 0 .. Len(buffer) - 1,
             UpTo(buffer, i - 1) = UpTo(buffer, j)
      PROVE  i = j + 1
  <2> DEFINE h == i - 1  l == j + 1
  <2>1. h \in 0 .. Len(buffer) - 1 /\ l \in 1 .. Len(buffer) /\ j = l - 1
    BY <1>1
  <2>2. UpTo(buffer, h) \in Nat /\ UpTo(buffer, j) \in Nat
    BY <1>1, <2>1, UpToNat
  <2>3. ~(i <= j)
    BY <1>2, <1>3, <2>2
  <2>4. ~(l <= h)
    <3> HIDE DEF h, l
    <3>1. l <= h => UpTo(buffer, l - 1) < UpTo(buffer, h)
      BY <1>2, <2>1
    <3> QED
      BY <1>3, <2>1, <2>2, <3>1 DEF h
  <2> QED
    BY <1>1, <2>3, <2>4
<1>4. ASSUME NEW j \in 0 .. Len(buffer) - 1
      PROVE  HeaderAt(UpTo(buffer, j)) = buffer[j + 1]
  <2> DEFINE at == UpTo(buffer, j)  l == j + 1
  <2>1. l \in 1 .. Len(buffer) /\ j = l - 1
    BY <1>1
  <2>2. Begins(l, at)
    BY <2>1 DEF Begins, UpTo
  <2>3. \A i \in 1 .. Len(buffer) : Begins(i, at) => i = l
    BY <1>3 DEF Begins, UpTo
  <2> HIDE DEF at, l
  <2>4. l = CHOOSE i \in 1 .. Len(buffer) : Begins(i, at)
    BY <2>1, <2>2, <2>3
  <2> QED
    BY <2>1, <2>2, <2>4 DEF HeaderAt, at, l
<1>5. ASSUME NEW at \in Nat, Len(buffer) > 0, at > UpTo(buffer, Len(buffer) - 1)
      PROVE  HeaderAt(at) = NoFrame
  <2>1. ASSUME NEW i \in 1 .. Len(buffer) PROVE ~Begins(i, at)
    <3> DEFINE h == i - 1  j == Len(buffer) - 1
    <3>1. j \in 0 .. Len(buffer) /\ h \in 0 .. j /\ h \in 0 .. Len(buffer)
      BY <1>1, <1>5
    <3> HIDE DEF h, j
    <3>2. UpTo(buffer, h) <= UpTo(buffer, j) /\ UpTo(buffer, h) \in Nat /\ UpTo(buffer, j) \in Nat
      BY <1>1, <3>1, UpToMore, UpToNat
    <3>3. UpTo(buffer, h) # at
      BY <1>5, <3>2 DEF j
    <3> QED
      BY <3>3 DEF Begins, UpTo, h
  <2> QED
    BY <2>1 DEF HeaderAt, NoFrame
<1> QED
  BY <1>4, <1>5

LEMMA ConcatAppend ==
  ASSUME NEW S, NEW s \in Seq(S), NEW t \in Seq(S), NEW x \in S
  PROVE  s \o Append(t, x) = Append(s \o t, x)
<1> DEFINE a == s \o Append(t, x)  b == Append(s \o t, x)
<1>1. a \in Seq(S) /\ b \in Seq(S) /\ Len(a) = Len(s) + Len(t) + 1 /\ Len(b) = Len(a)
  OBVIOUS
<1>2. \A i \in 1 .. Len(s) + Len(t) + 1 : a[i] = b[i]
  OBVIOUS
<1> HIDE DEF a, b
<1>3. a = b
  BY <1>1, <1>2, SeqEqual
<1> QED
  BY <1>3 DEF a, b

LEMMA AdvanceLaw ==
  /\ Advance("empty") = 2
  /\ \A kind \in DOMAIN Bytes : Advance(kind) = Bytes[kind] /\ Advance(kind) \in 2 .. 7
  /\ "empty" \notin DataKinds /\ "empty" \notin DOMAIN Bytes
  BY BytesLaw DEF Advance, DataKinds

ParserStates == [at : Nat, frames : Seq(AnyFrames), err : BOOLEAN]

(* What holds of the parser while it runs.                                 *)
ParserOK(s) ==
  /\ s \in ParserStates /\ s.at <= byte_count + 6
  /\ s.err => TimeMissing
  /\ \E j \in 0 .. Len(buffer) : given \o s.frames = DataUpTo(buffer, j) /\ Stands(s.at, j)

LEMMA ParseTyped ==
  ASSUME FifoInv, NEW s \in ParserStates
  PROVE  Parse(s) \in ParserStates /\ Parse(s).at > s.at
<1>1. HeaderAt(s.at) \in AnyFrames
  <2>1. buffer \in Seq(AnyFrames)
    BY FramesAny DEF FifoInv, TypeOK
  <2>2. NoFrame \in AnyFrames
    BY DEF NoFrame, AnyFrames
  <2>3. CASE \E i \in 1 .. Len(buffer) : Begins(i, s.at)
    <3> DEFINE c == CHOOSE i \in 1 .. Len(buffer) : Begins(i, s.at)
    <3>1. c \in 1 .. Len(buffer)
      BY <2>3
    <3>2. HeaderAt(s.at) = buffer[c]
      BY <2>3 DEF HeaderAt
    <3> HIDE DEF c
    <3> QED
      BY <2>1, <3>1, <3>2
  <2>4. CASE ~\E i \in 1 .. Len(buffer) : Begins(i, s.at)
    BY <2>2, <2>4 DEF HeaderAt, NoFrame
  <2> QED
    BY <2>3, <2>4
<1> DEFINE f == HeaderAt(s.at)
<1>2. Parse(s) = [at     |-> s.at + Advance(f.kind),
                  frames |-> IF f.kind \in DataKinds THEN Append(s.frames, f) ELSE s.frames,
                  err    |-> s.err \/ f.kind = "empty"]
  BY DEF Parse
<1>3. f.kind \in DOMAIN Bytes \cup {"empty"}
  BY <1>1 DEF AnyFrames
<1>4. Advance(f.kind) \in 2 .. 7
  BY <1>3, AdvanceLaw
<1> HIDE DEF f
<1>5. (IF f.kind \in DataKinds THEN Append(s.frames, f) ELSE s.frames) \in Seq(AnyFrames)
  BY <1>1 DEF f, ParserStates
<1> QED
  BY <1>2, <1>4, <1>5 DEF ParserStates

LEMMA ParseKeeps ==
  ASSUME FifoInv, usable, NEW s, ParserOK(s), s.at < byte_count
  PROVE  ParserOK(Parse(s))
<1>1. /\ buffer \in Seq(AnyFrames) /\ Len(buffer) \in Nat /\ byte_count \in Nat
      /\ Size(buffer) = byte_count /\ given \in Seq(AnyFrames)
      /\ s \in ParserStates /\ s.at \in Nat /\ s.frames \in Seq(AnyFrames)
  BY FramesAny, Bmp3FifoAssumption DEF FifoInv, TypeOK, PcOK, ParserOK, ParserStates
<1>2. PICK j \in 0 .. Len(buffer) : given \o s.frames = DataUpTo(buffer, j) /\ Stands(s.at, j)
  BY DEF ParserOK
<1> DEFINE f == HeaderAt(s.at)  e == Parse(s)
<1>3. /\ e.at = s.at + Advance(f.kind)
      /\ e.frames = IF f.kind \in DataKinds THEN Append(s.frames, f) ELSE s.frames
      /\ e.err = (s.err \/ f.kind = "empty")
      /\ e \in ParserStates
  BY <1>1, ParseTyped DEF Parse
<1> HIDE DEF f, e
<1>4. CASE s.at = UpTo(buffer, j)
  <2>1. j # Len(buffer)
    BY <1>1, <1>4, UpToStart
  <2> DEFINE l == j + 1
  <2>2. j \in 0 .. Len(buffer) - 1 /\ l \in 0 .. Len(buffer) /\ l \in DOMAIN buffer /\ l > 0
        /\ j = l - 1
    BY <1>1, <2>1
  <2>3. f = buffer[l] /\ f \in AnyFrames /\ Buffered(f, l = Len(buffer))
    BY <1>1, <1>4, <2>2, HeaderLaw DEF f, FifoInv, BufferOK
  <2>4. UpTo(buffer, l) = s.at + f.bytes /\ f.bytes \in Nat
    BY <1>1, <1>4, <2>2, <2>3, UpToNext
  <2>5. DataUpTo(buffer, l) = IF f.kind \in DataKinds THEN Append(DataUpTo(buffer, j), f)
                              ELSE DataUpTo(buffer, j)
    BY <1>1, <2>2, <2>3, DataUpToNext
  <2> HIDE DEF l
  <2>6. given \o e.frames = DataUpTo(buffer, l)
    <3>1. given \o Append(s.frames, f) = Append(given \o s.frames, f)
      BY <1>1, <2>3, ConcatAppend, SMTT(30)
    <3> QED
      BY <1>2, <1>3, <2>5, <3>1
  <2>7. f.kind = "empty" \/ f.kind \in DOMAIN Bytes
    BY <2>3 DEF AnyFrames
  <2>8. e.err => TimeMissing
    BY <1>3, <2>3 DEF ParserOK, Buffered
  <2>9. Stands(e.at, l) /\ e.at <= byte_count + 6
    <3>1. CASE f.kind = "empty"
      <4>1. e.at = s.at + 2 /\ l = Len(buffer) /\ buffer[l].kind = "empty"
        BY <1>3, <2>3, <3>1, AdvanceLaw DEF Buffered
      <4> QED
        BY <1>1, <1>4, <2>2, <4>1 DEF Stands
    <3>2. CASE f.kind # "empty" /\ IsWhole(f)
      <4>1. e.at = s.at + f.bytes /\ f.bytes \in 2 .. 7
        BY <1>3, <2>7, <3>2, AdvanceLaw DEF IsWhole
      <4> QED
        BY <1>1, <2>4, <4>1, SMTT(30) DEF Stands
    <3>3. CASE f.kind # "empty" /\ ~IsWhole(f)
      <4>1. /\ e.at = s.at + Bytes[f.kind] /\ Bytes[f.kind] \in 2 .. 7 /\ l = Len(buffer)
            /\ f.bytes < Bytes[f.kind]
        BY <1>3, <2>3, <2>7, <3>3, AdvanceLaw DEF Buffered
      <4>2. byte_count = s.at + f.bytes
        BY <1>1, <2>4, <4>1, UpToStart
      <4>3. UpTo(buffer, l - 1) = s.at
        BY <1>4, <2>2
      <4>4. e.at > s.at /\ e.at >= byte_count /\ e.at <= byte_count + 6
        <5> DEFINE a == s.at  b == Bytes[f.kind]  c == f.bytes
        <5>1. /\ a \in Nat /\ b \in 2 .. 7 /\ c \in Nat /\ c < b
              /\ byte_count = a + c /\ e.at = a + b /\ a < byte_count
          BY <1>1, <2>4, <4>1, <4>2
        <5> HIDE DEF a, b, c
        <5>2. a + b > a /\ a + b >= a + c /\ a + b <= a + c + 6
          BY <5>1
        <5> QED
          BY <5>1, <5>2 DEF a
      <4> QED
        BY <2>2, <4>1, <4>3, <4>4 DEF Stands
    <3> QED
      BY <3>1, <3>2, <3>3, Zenon
  <2> QED
    BY <1>3, <2>2, <2>6, <2>8, <2>9 DEF ParserOK, e
<1>5. CASE /\ j = Len(buffer) /\ j > 0 /\ s.at > UpTo(buffer, j - 1)
           /\ s.at >= byte_count \/ buffer[j].kind = "empty"
  <2>1. buffer[j].kind = "empty" /\ j \in DOMAIN buffer
    BY <1>1, <1>5
  <2>2. TimeMissing
    BY <2>1 DEF FifoInv, BufferOK, Buffered
  <2>3. f.kind = "empty"
    <3>1. f = NoFrame
      BY <1>1, <1>5, HeaderLaw DEF f
    <3> QED
      BY <3>1 DEF NoFrame
  <2>4. e.at = s.at + 2 /\ e.frames = s.frames
    BY <1>3, <2>3, AdvanceLaw
  <2>5. UpTo(buffer, j - 1) \in Nat
    <3> DEFINE h == j - 1
    <3>1. h \in 0 .. Len(buffer)
      BY <1>1, <1>5
    <3> HIDE DEF h
    <3>2. UpTo(buffer, h) \in Nat
      BY <1>1, <3>1, UpToNat
    <3> QED
      BY <3>2 DEF h
  <2>6. Stands(e.at, j) /\ e.at <= byte_count + 6
    BY <1>1, <1>5, <2>1, <2>4, <2>5 DEF Stands
  <2> QED
    BY <1>2, <1>3, <2>2, <2>4, <2>6 DEF ParserOK, e
<1> QED
  BY <1>2, <1>4, <1>5 DEF Stands

(* Running(req)[1 .. k] is where the parser is after k turns of its loop.  *)
Beginning == [at |-> start_idx, frames |-> << >>, err |-> config_err]
Turn(req, s) == IF Len(s.frames) < req /\ s.at < byte_count THEN Parse(s) ELSE s

Running(req) == CHOOSE iter : iter = [s \in SUBSET DOMAIN [k \in 1 .. byte_count |-> k] |->
  IF s = {} THEN Beginning ELSE Turn(req, iter[s \ {Max(s)}])]

LEMMA RunningEquation ==
  ASSUME FifoInv, NEW req
  PROVE  \A s \in SUBSET (1 .. byte_count) :
           Running(req)[s] = IF s = {} THEN Beginning ELSE Turn(req, Running(req)[s \ {Max(s)}])
<1> DEFINE n == byte_count
           step == [x \in ParserStates \X (1 .. n) |-> Turn(req, x[1])]
<1>0. n \in Nat /\ Beginning \in ParserStates
  BY Bmp3FifoAssumption DEF FifoInv, TypeOK, Beginning, ParserStates
<1>1. step \in [ParserStates \X (1 .. n) -> ParserStates]
  BY ParseTyped DEF Turn
<1>2. \A x \in ParserStates, k \in 1 .. n : step[<<x, k>>] = Turn(req, x)
  OBVIOUS
<1> HIDE DEF step
<1>3. PICK g \in [SUBSET (1 .. n) -> ParserStates] : FoldsTo(g, n, Beginning, step)
  BY <1>0, <1>1, FoldExists
<1>4. ASSUME NEW s \in SUBSET (1 .. n), s # {}
      PROVE  Max(s) \in 1 .. n /\ g[s \ {Max(s)}] \in ParserStates
  BY <1>0, <1>4, LastIn
<1>5. g = [s \in SUBSET DOMAIN [k \in 1 .. byte_count |-> k] |->
             IF s = {} THEN Beginning ELSE Turn(req, g[s \ {Max(s)}])]
  BY <1>2, <1>3, <1>4 DEF FoldsTo
<1>6. Running(req) = [s \in SUBSET DOMAIN [k \in 1 .. byte_count |-> k] |->
             IF s = {} THEN Beginning ELSE Turn(req, Running(req)[s \ {Max(s)}])]
  BY <1>5, Zenon DEF Running
<1> HIDE DEF Running
<1> QED
  BY <1>6

LEMMA RunningStart ==
  ASSUME FifoInv, NEW req
  PROVE  Running(req)[1 .. 0] = Beginning
<1>1. 1 .. 0 = {} /\ {} \in SUBSET (1 .. byte_count)
  OBVIOUS
<1> QED
  BY <1>1, RunningEquation

LEMMA RunningNext ==
  ASSUME FifoInv, NEW req, NEW k \in 0 .. byte_count - 1
  PROVE  Running(req)[1 .. k + 1] = Turn(req, Running(req)[1 .. k])
<1> DEFINE j == k + 1
<1>0. byte_count \in Nat
  BY Bmp3FifoAssumption DEF FifoInv, TypeOK
<1>1. /\ j \in Nat /\ j # 0 /\ j - 1 = k /\ 1 .. j \subseteq 1 .. byte_count /\ 1 \in 1 .. j
  BY <1>0
<1> HIDE DEF j
<1>2. Max(1 .. j) = j /\ (1 .. j) \ {j} = 1 .. k
  BY <1>1, MaxUpTo
<1>3. 1 .. j \in SUBSET (1 .. byte_count) /\ 1 .. j # {}
  BY <1>1
<1>4. Running(req)[1 .. j] = Turn(req, Running(req)[(1 .. j) \ {Max(1 .. j)}])
  BY <1>3, RunningEquation
<1>5. Running(req)[1 .. j] = Turn(req, Running(req)[1 .. k])
  BY <1>2, <1>4
<1> QED
  BY <1>5 DEF j

LEMMA ParsedRunning ==
  ASSUME FifoInv, NEW req
  PROVE  Parsed(req) = Running(req)[1 .. byte_count]
<1>1. Parsed(req) = Running(req)[DOMAIN [k \in 1 .. byte_count |-> k]]
  BY Zenon DEF Parsed, FoldLeft, MapThenFoldSet, Running, Beginning, Turn
<1> QED
  BY <1>1

(* The parser takes all it may: req frames, or the bytes there are.        *)
LEMMA ParsedPlaces ==
  ASSUME FifoInv, usable, NEW req \in Nat
  PROVE  /\ ParserOK(Parsed(req))
         /\ Len(Parsed(req).frames) >= req \/ Parsed(req).at >= byte_count
<1> DEFINE R(k) == Running(req)[1 .. k]
           T == {k \in 0 .. byte_count :
                  /\ ParserOK(R(k))
                  /\ Len(R(k).frames) < req /\ R(k).at < byte_count => R(k).at >= k}
<1>0. byte_count \in Nat /\ given \in Seq(AnyFrames) /\ start_idx \in Nat
      /\ start_idx <= byte_count + 6 /\ config_err \in BOOLEAN
  BY FramesAny, Bmp3FifoAssumption DEF FifoInv, TypeOK
<1>1. 0 \in T
  <2>1. R(0) = Beginning
    BY RunningStart
  <2>2. Beginning \in ParserStates /\ given \o << >> = given
    BY <1>0 DEF Beginning, ParserStates
  <2>3. ParserOK(Beginning)
    BY <1>0, <2>2 DEF FifoInv, PlaceOK, ParserOK, Beginning
  <2>4. Beginning.at >= 0
    BY <1>0 DEF Beginning
  <2> QED
    BY <1>0, <2>1, <2>3, <2>4
<1>2. \A k \in 0 .. byte_count - 1 : k \in T => k + 1 \in T
  <2> SUFFICES ASSUME NEW k \in 0 .. byte_count - 1, k \in T PROVE k + 1 \in T
    OBVIOUS
  <2> DEFINE s == R(k)  e == R(k + 1)
  <2>1. e = Turn(req, s)
    BY RunningNext
  <2>2. /\ ParserOK(s) /\ s \in ParserStates /\ s.at \in Nat
        /\ Len(s.frames) < req /\ s.at < byte_count => s.at >= k
    BY DEF ParserOK, ParserStates
  <2>3. k + 1 \in 0 .. byte_count /\ k \in Nat
    BY <1>0
  <2> SUFFICES /\ ParserOK(e)
               /\ Len(e.frames) < req /\ e.at < byte_count => e.at >= k + 1
    BY <2>3
  <2> HIDE DEF s, e
  <2>4. CASE Len(s.frames) < req /\ s.at < byte_count
    <3>1. e = Parse(s)
      BY <2>1, <2>4 DEF Turn
    <3>2. ParserOK(e) /\ e.at > s.at /\ e.at \in Nat
      BY <2>2, <2>4, <3>1, ParseKeeps, ParseTyped DEF ParserStates
    <3> QED
      BY <2>2, <2>3, <2>4, <3>2
  <2>5. CASE ~(Len(s.frames) < req /\ s.at < byte_count)
    <3>1. e = s
      BY <2>1, <2>5 DEF Turn
    <3> QED
      BY <2>2, <2>5, <3>1
  <2> QED
    BY <2>4, <2>5
<1>3. byte_count \in T
  <2>1. byte_count \in 0 .. byte_count
    BY <1>0
  <2> HIDE DEF T
  <2> QED
    BY <1>0, <1>1, <1>2, <2>1, Upwards
<1> DEFINE p == R(byte_count)
<1>4. Parsed(req) = p
  BY ParsedRunning
<1>5. /\ ParserOK(p) /\ Len(p.frames) \in Nat /\ p.at \in Nat
      /\ Len(p.frames) < req /\ p.at < byte_count => p.at >= byte_count
  <2>1. ParserOK(p) /\ (Len(p.frames) < req /\ p.at < byte_count => p.at >= byte_count)
    BY <1>3
  <2> HIDE DEF p, T
  <2>2. p.at \in Nat /\ p.frames \in Seq(AnyFrames)
    BY <2>1 DEF ParserOK, ParserStates
  <2> QED
    BY <2>1, <2>2
<1> HIDE DEF p
<1> QED
  BY <1>0, <1>4, <1>5

LEMMA ExtractKeeps ==
  ASSUME FifoInv, Extract
  PROVE  FifoInv'
<1>1. /\ pc = "idle" /\ usable /\ ~frame_not_available
      /\ UNCHANGED <<chip, fifo, samples, dev, pc, configs, sel, buffer, byte_count,
                     timed, overran, usable>>
  BY DEF Extract, chipVars
<1>2. PICK req \in Requests :
        LET s == Parsed(req)
        IN  /\ IF s.frames = << >>
               THEN frame_not_available' = TRUE /\ UNCHANGED start_idx
               ELSE start_idx' = s.at /\ UNCHANGED frame_not_available
            /\ config_err' = s.err
            /\ given' = given \o s.frames
  BY DEF Extract
<1> DEFINE s == Parsed(req)
<1>3. req \in Nat /\ req > 0
  BY Bmp3FifoAssumption
<1>4. /\ ParserOK(s) /\ (Len(s.frames) >= req \/ s.at >= byte_count)
      /\ s \in ParserStates
  BY <1>1, <1>3, ParsedPlaces DEF ParserOK
<1> HIDE DEF s
<1>5. /\ s.frames = << >> => frame_not_available' = TRUE /\ start_idx' = start_idx
      /\ s.frames # << >> => start_idx' = s.at /\ frame_not_available' = frame_not_available
      /\ config_err' = s.err /\ given' = given \o s.frames
  BY <1>2 DEF s
<1>6. /\ s.at \in Nat /\ s.at <= byte_count + 6 /\ s.frames \in Seq(AnyFrames)
      /\ s.err \in BOOLEAN /\ (s.err => TimeMissing)
  BY <1>4 DEF ParserOK, ParserStates
<1>7. /\ buffer \in Seq(AnyFrames) /\ buffer \in Seq(Frames) /\ Len(buffer) \in Nat
      /\ byte_count \in Nat /\ Size(buffer) = byte_count
      /\ given \in Seq(AnyFrames) /\ start_idx \in 0 .. byte_count + 6
  BY <1>1, FramesAny, Bmp3FifoAssumption DEF FifoInv, TypeOK, PcOK
<1>8. PICK j \in 0 .. Len(buffer) : given \o s.frames = DataUpTo(buffer, j) /\ Stands(s.at, j)
  BY <1>4 DEF ParserOK
<1>9. s.frames = << >> => given = DataFrames
  <2> SUFFICES ASSUME s.frames = << >> PROVE given = DataFrames
    OBVIOUS
  <2>1. s.at >= byte_count
    <3>1. Len(s.frames) = 0
      OBVIOUS
    <3> QED
      BY <1>3, <1>4, <3>1
  <2>2. j = Len(buffer)
    <3> SUFFICES ASSUME j # Len(buffer) PROVE FALSE
      OBVIOUS
    <3> DEFINE l == j + 1
    <3>1. j \in 0 .. Len(buffer) - 1 /\ l \in 0 .. Len(buffer) /\ l \in DOMAIN buffer
      BY <1>7
    <3>2. UpTo(buffer, l) = UpTo(buffer, j) + buffer[l].bytes /\ UpTo(buffer, j) \in Nat
          /\ buffer[l].bytes \in Nat
      BY <1>7, <3>1, UpToNext
    <3>3. buffer[l].bytes > 0
      BY <3>1 DEF FifoInv, BufferOK, Buffered
    <3>4. UpTo(buffer, l) <= UpTo(buffer, Len(buffer)) /\ UpTo(buffer, Len(buffer)) = byte_count
      <4>1. Len(buffer) \in 0 .. Len(buffer) /\ l \in 0 .. Len(buffer)
        BY <1>7, <3>1
      <4> HIDE DEF l
      <4> QED
        BY <1>7, <4>1, UpToMore, UpToStart
    <3>5. s.at = UpTo(buffer, j)
      BY <1>8 DEF Stands
    <3> HIDE DEF l
    <3> QED
      BY <1>6, <1>7, <2>1, <3>2, <3>3, <3>4, <3>5
  <2>3. given \o << >> = given
    BY <1>7
  <2> QED
    BY <1>7, <1>8, <2>2, <2>3, DataUpToStart DEF DataFrames
<1>10. given' = DataUpTo(buffer, j)
  BY <1>5, <1>8
<1>11. given' \in Seq(Frames)
  <2> DEFINE d == DataUpTo(buffer, j)
  <2>1. d \in Seq(AnyFrames) /\ \A m \in DOMAIN d : \E k \in 1 .. j : d[m] = buffer[k]
    BY <1>7, DataOfFrames DEF DataOK
  <2>2. \A k \in 1 .. j : buffer[k] \in Frames
    BY <1>7
  <2> HIDE DEF d
  <2>3. d \in Seq(Frames)
    BY <2>1, <2>2
  <2> QED
    BY <1>10, <2>3 DEF d
<1>12. PlaceOK'
  <2>1. CASE s.frames = << >>
    <3>1. given' = given
      BY <1>5, <1>7, <2>1
    <3> QED
      BY <1>1, <1>5, <1>6, <1>9, <2>1, <3>1
         DEF FifoInv, PlaceOK, Stands, TimeMissing, DataFrames
  <2>2. CASE s.frames # << >>
    BY <1>1, <1>5, <1>6, <1>8, <2>2 DEF PlaceOK, Stands, TimeMissing
  <2> QED
    BY <2>1, <2>2
<1>13. start_idx' \in 0 .. byte_count + 6 /\ frame_not_available' \in BOOLEAN
  <2>1. CASE s.frames = << >>
    BY <1>5, <1>7, <2>1
  <2>2. CASE s.frames # << >>
    <3>1. start_idx' = s.at /\ frame_not_available' = frame_not_available
      BY <1>5, <2>2
    <3>2. frame_not_available \in BOOLEAN
      BY DEF FifoInv, TypeOK
    <3> QED
      BY <1>6, <1>7, <3>1, <3>2
  <2> QED
    BY <2>1, <2>2
<1>14. TypeOK'
  BY <1>1, <1>5, <1>6, <1>11, <1>13 DEF FifoInv, TypeOK
<1>15. ChipOK' /\ FifoOK' /\ LengthOK' /\ PcOK' /\ BufferOK'
  BY <1>1 DEF FifoInv, ChipOK, FifoOK, Stored, LengthOK, Counted, PcOK, BufferOK, Buffered,
              TimeMissing, TempAlone
<1> QED
  BY <1>12, <1>14, <1>15 DEF FifoInv

----------------------------------------------------------------------------
(* The other steps.                                                        *)
LEMMA SampleKeeps ==
  ASSUME FifoInv, Sample
  PROVE  FifoInv'
<1>1. /\ samples < MaxSamples /\ samples' = samples + 1 /\ chip' = chip
      /\ UNCHANGED <<dev, pc, configs, sel, buffer, byte_count, start_idx, config_err,
                     frame_not_available, given, timed, usable>>
  BY DEF Sample, dataVars
<1>2. /\ fifo \in Seq(Frames) /\ fifo \in Seq(AnyFrames) /\ Size(fifo) <= Capacity
      /\ samples' \in 0 .. MaxSamples /\ samples' \in Nat /\ overran \in BOOLEAN
  BY <1>1, FramesAny, Bmp3FifoAssumption DEF FifoInv, TypeOK
<1>3. PICK kind \in DataKinds : Put(Frame(kind, samples')) /\ (kind = "press" => TempAlone)
  <2>1. CASE chip.press /\ chip.temp /\ Put(Frame("press_temp", samples'))
    BY <2>1 DEF DataKinds
  <2>2. CASE chip.press /\ ~chip.temp /\ Put(Frame("press", samples'))
    BY <2>2 DEF DataKinds, FifoInv, ChipOK
  <2>3. CASE ~chip.press /\ chip.temp /\ Put(Frame("temp", samples'))
    BY <2>3 DEF DataKinds
  <2> QED
    BY <2>1, <2>2, <2>3 DEF Sample
<1> DEFINE f == Frame(kind, samples')
<1>4. /\ f \in AnyFrames /\ f.sample \in 0 .. MaxSamples /\ Stored(f)
      /\ f.bytes \in Nat /\ f.bytes >= 4
  BY <1>2, <1>3, BytesLaw DEF Frame, AnyFrames, Stored, IsWhole
<1> HIDE DEF f
<1>5. /\ fifo' \in Seq(Frames) /\ Size(fifo') <= Capacity
      /\ \A i \in DOMAIN fifo' : fifo'[i] = f \/ \E j \in DOMAIN fifo : fifo'[i] = fifo[j]
      /\ overran' \in BOOLEAN /\ (overran => overran')
      /\ pc = "data" /\ ~overran' => fifo' = fifo \/ fifo' = Append(fifo, f)
  BY <1>2, <1>3, <1>4, PutStores DEF f
<1>6. FifoOK'
  <2>1. \A i \in DOMAIN fifo' : Stored(fifo'[i])
    BY <1>4, <1>5 DEF FifoInv, FifoOK
  <2> QED
    BY <2>1 DEF FifoOK, Stored, TempAlone
<1>7. LengthOK'
  <2> SUFFICES ASSUME pc = "data", ~overran'
               PROVE  \E i \in 0 .. Len(fifo') : Counted(i)'
    BY <1>1 DEF LengthOK
  <2>1. PICK i \in 0 .. Len(fifo) : Counted(i)
    BY <1>5 DEF FifoInv, LengthOK
  <2>2. CASE fifo' = fifo
    BY <1>1, <2>1, <2>2 DEF Counted
  <2>3. CASE fifo' = Append(fifo, f)
    <3>1. /\ Len(fifo') = Len(fifo) + 1 /\ i \in 0 .. Len(fifo')
          /\ \A k \in i + 1 .. Len(fifo') : fifo'[k] = f \/ (k \in i + 1 .. Len(fifo) /\ fifo'[k] = fifo[k])
      BY <1>2, <1>4, <2>3
    <3>2. UpTo(fifo', i) = UpTo(fifo, i)
      <4>1. SubSeq(fifo', 1, i) = SubSeq(fifo, 1, i)
        BY <1>2, <1>4, <2>3
      <4> QED
        BY <4>1 DEF UpTo
    <3>3. \A k \in i + 1 .. Len(fifo') : fifo'[k].bytes >= 4
      BY <1>4, <2>1, <3>1 DEF Counted
    <3> QED
      BY <1>1, <2>1, <3>1, <3>2, <3>3 DEF Counted
  <2> QED
    BY <1>5, <2>2, <2>3
<1>8. ChipOK' /\ BufferOK' /\ PcOK' /\ PlaceOK'
  BY <1>1, <1>5 DEF FifoInv, ChipOK, BufferOK, Buffered, PcOK, PlaceOK, Stands, TimeMissing,
                    TempAlone, DataFrames
<1>9. TypeOK'
  BY <1>1, <1>2, <1>5 DEF FifoInv, TypeOK
<1> QED
  BY <1>6, <1>7, <1>8, <1>9 DEF FifoInv

LEMMA WriteConfig1Keeps ==
  ASSUME FifoInv, WriteConfig1
  PROVE  FifoInv'
<1> DEFINE f == Frame("change", 0)
           stop  == IF "stop" \in sel THEN dev'.stop ELSE chip.stop
           time  == IF "time" \in sel THEN dev'.time ELSE chip.time
           press == IF "press" \in sel THEN dev'.press ELSE chip.press
           temp  == IF sel \cap {"press", "temp"} # {} THEN dev'.temp ELSE chip.temp
           v == [chip EXCEPT !.stop = stop, !.time = time, !.press = press, !.temp = temp]
<1>0. chip \in Settings /\ dev \in Settings /\ sel \in Selections \cup {{}}
  BY DEF FifoInv, TypeOK
<1>1. /\ pc = "config_1_write" /\ dev' = Filled /\ AfterConfig1
      /\ UNCHANGED <<samples, buffer, byte_count, start_idx, config_err, frame_not_available,
                     given, timed, usable>>
      /\ chip' = v
      /\ IF v = chip THEN UNCHANGED <<fifo, overran>> ELSE Put(f)
  <2>1. /\ pc = "config_1_write" /\ dev' = Filled /\ AfterConfig1 /\ WriteConfig(v)
        /\ UNCHANGED <<dataVars, given, timed, usable>>
    BY DEF WriteConfig1
  <2> HIDE DEF v, f
  <2> QED
    BY <2>1 DEF WriteConfig, dataVars, f
<1>2. dev' \in Settings /\ ("press" \in sel /\ dev'.press => dev'.temp)
  BY <1>0, <1>1 DEF Filled, Settings
<1>3. chip' \in Settings /\ chip'.press = press /\ chip'.temp = temp
  <2>1. stop \in BOOLEAN /\ time \in BOOLEAN /\ press \in BOOLEAN /\ temp \in BOOLEAN
    BY <1>0, <1>2 DEF Settings
  <2>2. chip' = [chip EXCEPT !.stop = stop, !.time = time, !.press = press, !.temp = temp]
    BY <1>1
  <2> HIDE DEF stop, time, press, temp
  <2>3. /\ [chip EXCEPT !.stop = stop, !.time = time, !.press = press, !.temp = temp] \in Settings
        /\ [chip EXCEPT !.stop = stop, !.time = time, !.press = press, !.temp = temp].press = press
        /\ [chip EXCEPT !.stop = stop, !.time = time, !.press = press, !.temp = temp].temp = temp
    BY <1>0, <2>1 DEF Settings
  <2> QED
    BY <2>2, <2>3, Zenon
<1>4. ChipOK'
  <2>1. CASE "press" \in sel
    <3>1. chip'.press = dev'.press /\ chip'.temp = dev'.temp
      BY <1>3, <2>1
    <3> QED
      BY <1>2, <2>1, <3>1 DEF ChipOK
  <2>2. CASE "press" \notin sel /\ "temp" \notin sel
    <3>1. chip'.press = chip.press /\ chip'.temp = chip.temp
      BY <1>3, <2>2
    <3> QED
      BY <3>1 DEF FifoInv, ChipOK, TempAlone
  <2>3. CASE "press" \notin sel /\ "temp" \in sel
    <3>1. TempAlone
      BY <1>0, <2>3 DEF TempAlone
    <3> QED
      BY <3>1 DEF ChipOK, TempAlone
  <2> QED
    BY <2>1, <2>2, <2>3
<1>5. /\ fifo \in Seq(Frames) /\ Size(fifo) <= Capacity /\ overran \in BOOLEAN
  BY DEF FifoInv, TypeOK
<1>6. f \in AnyFrames /\ f.sample \in 0 .. MaxSamples /\ Stored(f)
  BY BytesLaw, Bmp3FifoAssumption DEF Frame, AnyFrames, Stored, IsWhole
<1> HIDE DEF f, v
<1>7. /\ fifo' \in Seq(Frames) /\ Size(fifo') <= Capacity
      /\ overran' \in BOOLEAN /\ (overran => overran')
      /\ \A i \in DOMAIN fifo' : fifo'[i] = f \/ \E j \in DOMAIN fifo : fifo'[i] = fifo[j]
  <2>1. CASE v = chip
    BY <1>1, <1>5, <2>1
  <2>2. CASE v # chip
    BY <1>1, <1>5, <1>6, <2>2, PutStores
  <2> QED
    BY <2>1, <2>2
<1>8. FifoOK'
  <2>1. \A i \in DOMAIN fifo' : Stored(fifo'[i])
    BY <1>6, <1>7 DEF FifoInv, FifoOK
  <2> QED
    BY <2>1 DEF FifoOK, Stored, TempAlone
<1>9. pc' \in {"config_2", "idle"} /\ sel' \in {sel, {}} /\ configs' = configs
  BY <1>1 DEF AfterConfig1, Goto, Return
<1>10. LengthOK' /\ BufferOK' /\ PcOK' /\ PlaceOK'
  BY <1>1, <1>7, <1>9 DEF FifoInv, LengthOK, BufferOK, Buffered, PcOK, PlaceOK, Stands,
                          TimeMissing, TempAlone, DataFrames
<1>11. TypeOK'
  BY <1>0, <1>1, <1>2, <1>3, <1>7, <1>9 DEF FifoInv, TypeOK
<1> QED
  BY <1>4, <1>8, <1>10, <1>11 DEF FifoInv

(* A cleared buffer, in the fields that bmp3_get_fifo_data clears.         *)
LEMMA ClearedOK ==
  ASSUME FifoInv, chip' \in Settings, ChipOK', FifoOK', LengthOK',
         buffer' = << >>, given' = << >>, start_idx' = 0,
         config_err' = FALSE, frame_not_available' = FALSE, usable' = FALSE
  PROVE  BufferOK' /\ PcOK' /\ PlaceOK' /\ Size(buffer') = 0
<1>1. << >> \in Seq(AnyFrames) /\ Len(<< >>) = 0 /\ DOMAIN << >> = {} /\ 0 \in 0 .. 0
  OBVIOUS
<1>2. DataUpTo(<< >>, 0) = << >> /\ UpTo(<< >>, 0) = 0
  BY <1>1, DataUpToStart, UpToStart
<1>3. BufferOK'
  BY <1>1 DEF BufferOK
<1>4. PcOK'
  BY DEF PcOK
<1>5. PlaceOK'
  BY <1>1, <1>2 DEF PlaceOK, Stands
<1> QED
  BY <1>3, <1>4, <1>5, SizeEmpty

LEMMA GetFifoDataKeeps ==
  ASSUME FifoInv, GetFifoData
  PROVE  FifoInv'
<1>1. /\ pc' = "length" /\ buffer' = << >> /\ byte_count' = 0 /\ start_idx' = 0
      /\ config_err' = FALSE /\ frame_not_available' = FALSE
      /\ given' = << >> /\ overran' = FALSE /\ usable' = FALSE
      /\ UNCHANGED <<chip, fifo, samples, dev, configs, sel, timed>>
  BY DEF GetFifoData, chipVars
<1>2. chip' \in Settings /\ ChipOK' /\ FifoOK' /\ LengthOK'
  BY <1>1 DEF FifoInv, TypeOK, ChipOK, FifoOK, Stored, LengthOK, TempAlone
<1>3. BufferOK' /\ PcOK' /\ PlaceOK' /\ Size(buffer') = 0
  BY <1>1, <1>2, ClearedOK
<1>4. TypeOK'
  <2>1. buffer' \in Seq(Frames) /\ given' \in Seq(Frames) /\ byte_count' \in 0 .. Capacity + 4
        /\ start_idx' \in 0 .. byte_count' + 6
    BY <1>1, Bmp3FifoAssumption
  <2> QED
    BY <1>1, <1>3, <2>1 DEF FifoInv, TypeOK
<1> QED
  BY <1>2, <1>3, <1>4 DEF FifoInv

LEMMA ReadLengthKeeps ==
  ASSUME FifoInv, ReadLength
  PROVE  FifoInv'
<1> DEFINE more == IF dev.time THEN Bytes["time"] ELSE 0
<1>1. /\ pc = "length" /\ configs' = configs /\ sel' \in {sel, {}}
      /\ UNCHANGED <<chip, fifo, samples, dev, buffer, start_idx, config_err,
                     frame_not_available, given, timed, overran, usable>>
      /\ \/ byte_count' = Size(fifo) + more /\ pc' = "data"
         \/ byte_count' \in {0, Capacity + 4} /\ pc' = "idle"
  BY BytesLaw DEF ReadLength, chipVars, histVars, Goto, Return
<1>2. more = IF dev.time THEN 4 ELSE 0
  BY BytesLaw
<1>3. /\ fifo \in Seq(AnyFrames) /\ Size(fifo) \in Nat /\ Size(fifo) <= Capacity
      /\ Len(fifo) \in Nat
  BY FramesAny, SizeNat DEF FifoInv, TypeOK
<1> HIDE DEF more
<1>4. byte_count' \in 0 .. Capacity + 4
  <2>1. more \in {0, 4}
    BY <1>2
  <2> QED
    BY <1>1, <1>3, <2>1, Bmp3FifoAssumption
<1>5. /\ buffer' = << >> /\ given' = << >> /\ start_idx' = 0
      /\ config_err' = FALSE /\ frame_not_available' = FALSE /\ usable' = FALSE
  BY <1>1 DEF FifoInv, TypeOK, PcOK
<1>6. LengthOK'
  <2> SUFFICES ASSUME pc' = "data" PROVE \E i \in 0 .. Len(fifo') : Counted(i)'
    BY DEF LengthOK
  <2>1. byte_count' = UpTo(fifo, Len(fifo)) + (IF dev.time THEN 4 ELSE 0)
    BY <1>1, <1>2, <1>3, UpToStart
  <2>2. Len(fifo) \in 0 .. Len(fifo) /\ Len(fifo) + 1 .. Len(fifo) = {}
    BY <1>3
  <2> QED
    BY <1>1, <2>1, <2>2 DEF Counted
<1>7. chip' \in Settings /\ ChipOK' /\ FifoOK'
  BY <1>1 DEF FifoInv, TypeOK, ChipOK, FifoOK, Stored, TempAlone
<1>8. BufferOK' /\ PcOK' /\ PlaceOK' /\ Size(buffer') = 0
  BY <1>5, <1>6, <1>7, ClearedOK
<1>9. TypeOK'
  <2>1. byte_count' \in Nat
    BY <1>4, Bmp3FifoAssumption
  <2>2. start_idx' \in 0 .. byte_count' + 6
    <3>1. start_idx' = 0
      BY <1>5
    <3>2. \A n \in Nat : 0 \in 0 .. n + 6
      OBVIOUS
    <3> QED
      BY <2>1, <3>1, <3>2
  <2> QED
    BY <1>1, <1>4, <1>8, <2>2 DEF FifoInv, TypeOK
<1> QED
  BY <1>6, <1>7, <1>8, <1>9 DEF FifoInv

LEMMA WriteFlushKeeps ==
  ASSUME FifoInv, WriteFlush
  PROVE  FifoInv'
<1>1. /\ fifo' \in {<< >>, fifo} /\ pc' \in {"cmd_err", "idle"}
      /\ sel' \in {sel, {}} /\ configs' = configs
      /\ UNCHANGED <<chip, samples, dev, buffer, byte_count, start_idx, config_err,
                     frame_not_available, given, timed, overran, usable>>
  BY DEF WriteFlush, dataVars, histVars, Goto, Return
<1>2. fifo' \in Seq(Frames) /\ Size(fifo') <= Capacity /\ FifoOK'
  <2>1. CASE fifo' = << >>
    <3>1. << >> \in Seq(Frames) /\ DOMAIN << >> = {}
      OBVIOUS
    <3> QED
      BY <2>1, <3>1, SizeEmpty, Bmp3FifoAssumption DEF FifoOK
  <2>2. CASE fifo' = fifo
    BY <2>2 DEF FifoInv, TypeOK, FifoOK, Stored, TempAlone
  <2> QED
    BY <1>1, <2>1, <2>2
<1>3. ChipOK' /\ LengthOK' /\ BufferOK' /\ PcOK' /\ PlaceOK'
  BY <1>1 DEF FifoInv, ChipOK, LengthOK, BufferOK, Buffered, PcOK, PlaceOK, Stands,
              TimeMissing, TempAlone, DataFrames
<1>4. TypeOK'
  BY <1>1, <1>2 DEF FifoInv, TypeOK
<1> QED
  BY <1>2, <1>3, <1>4 DEF FifoInv

(* Transfers that touch neither the FIFO nor the buffer.                   *)
LEMMA TransferKeeps ==
  ASSUME FifoInv, dev' \in Settings, configs' \in 0 .. MaxConfigs, sel' \in Selections \cup {{}},
         pc' \in {"idle", "config_1", "config_1_write", "config_2", "config_2_write",
                  "cmd_rdy", "flush"},
         UNCHANGED <<chipVars, dataVars, histVars>>
  PROVE  FifoInv'
<1>1. UNCHANGED <<chip, fifo, samples, buffer, byte_count, start_idx, config_err,
                  frame_not_available, given, timed, overran, usable>>
  BY DEF chipVars, dataVars, histVars
<1>2. TypeOK'
  BY <1>1 DEF FifoInv, TypeOK
<1>3. ChipOK' /\ FifoOK' /\ LengthOK' /\ BufferOK' /\ PcOK' /\ PlaceOK'
  BY <1>1 DEF FifoInv, ChipOK, FifoOK, Stored, LengthOK, BufferOK, Buffered, PcOK, PlaceOK,
              Stands, TimeMissing, TempAlone, DataFrames
<1> QED
  BY <1>2, <1>3 DEF FifoInv

LEMMA FifoStarts ==
  ASSUME Init
  PROVE  FifoInv
<1>1. << >> \in Seq(Frames) /\ << >> \in Seq(AnyFrames) /\ DOMAIN << >> = {} /\ Len(<< >>) = 0
  OBVIOUS
<1>2. TypeOK
  <2>1. Off \in Settings
    BY DEF Off, Settings
  <2>2. Size(<< >>) = 0 /\ 0 \in 0 .. MaxSamples /\ 0 \in 0 .. MaxConfigs
        /\ 0 \in 0 .. Capacity + 4 /\ 0 \in 0 .. 0 + 6 /\ 0 <= Capacity
    BY SizeEmpty, Bmp3FifoAssumption
  <2>3. [dev |-> FALSE, chip |-> FALSE] \in [dev : BOOLEAN, chip : BOOLEAN]
    OBVIOUS
  <2> QED
    BY <1>1, <2>1, <2>2, <2>3 DEF Init, TypeOK
<1>3. ChipOK /\ FifoOK /\ LengthOK /\ BufferOK /\ PcOK
  BY <1>1 DEF Init, Off, ChipOK, FifoOK, LengthOK, BufferOK, PcOK
<1>4. PlaceOK
  <2>1. DataUpTo(<< >>, 0) = << >> /\ UpTo(<< >>, 0) = 0
    BY <1>1, DataUpToStart, UpToStart
  <2> QED
    BY <1>1, <2>1 DEF Init, PlaceOK, Stands
<1> QED
  BY <1>2, <1>3, <1>4 DEF FifoInv

(* The invariant that the theorems rest on.  It places the parser in the   *)
(* buffer, and explains every byte of the buffer that is no whole frame.   *)
THEOREM FifoInvariant == Spec => []FifoInv
<1>1. Init => FifoInv
  BY FifoStarts
<1>2. FifoInv /\ [Next]_vars => FifoInv'
  <2> SUFFICES ASSUME FifoInv, [Next]_vars PROVE FifoInv'
    OBVIOUS
  <2>0. dev \in Settings /\ configs \in 0 .. MaxConfigs /\ sel \in Selections \cup {{}}
    BY DEF FifoInv, TypeOK
  <2>1. CASE Sample
    BY <2>1, SampleKeeps
  <2>2. CASE SetFifoSettings
    <3>1. /\ UNCHANGED <<chipVars, dataVars, histVars>> /\ configs' = configs + 1
          /\ configs < MaxConfigs /\ dev' \in Profiles /\ sel' \in Selections
          /\ pc' \in {"config_1", "config_2"}
      BY <2>2 DEF SetFifoSettings
    <3>2. dev' \in Settings /\ configs' \in 0 .. MaxConfigs
      BY <2>0, <3>1, Bmp3FifoAssumption
    <3> QED
      BY <3>1, <3>2, TransferKeeps
  <2>3. CASE ReadConfig1
    <3>1. /\ UNCHANGED <<chipVars, dev, dataVars, histVars>> /\ configs' = configs
          /\ sel' \in {sel, {}} /\ pc' \in {"config_1_write", "config_2", "idle"}
      BY <2>3 DEF ReadConfig1, AfterConfig1, Goto, Return
    <3> QED
      BY <2>0, <3>1, TransferKeeps
  <2>4. CASE WriteConfig1
    BY <2>4, WriteConfig1Keeps
  <2>5. CASE ReadConfig2
    <3>1. /\ UNCHANGED <<chipVars, dev, dataVars, histVars>> /\ configs' = configs
          /\ sel' \in {sel, {}} /\ pc' \in {"config_2_write", "idle"}
      BY <2>5 DEF ReadConfig2, Goto, Return
    <3> QED
      BY <2>0, <3>1, TransferKeeps
  <2>6. CASE WriteConfig2
    <3>1. /\ UNCHANGED <<chipVars, dev, dataVars, histVars>> /\ configs' = configs
          /\ sel' \in {sel, {}} /\ pc' = "idle"
      BY <2>6 DEF WriteConfig2, Return
    <3> QED
      BY <2>0, <3>1, TransferKeeps
  <2>7. CASE GetFifoData
    BY <2>7, GetFifoDataKeeps
  <2>8. CASE ReadLength
    BY <2>8, ReadLengthKeeps
  <2>9. CASE ReadFifo
    BY <2>9, ReadFifoKeeps
  <2>10. CASE Extract
    BY <2>10, ExtractKeeps
  <2>11. CASE FifoFlush
    <3>1. UNCHANGED <<chipVars, dev, configs, sel, dataVars, histVars>> /\ pc' = "cmd_rdy"
      BY <2>11 DEF FifoFlush
    <3> QED
      BY <2>0, <3>1, TransferKeeps
  <2>12. CASE ReadCmdRdy
    <3>1. /\ UNCHANGED <<chipVars, dev, dataVars, histVars>> /\ configs' = configs
          /\ sel' \in {sel, {}} /\ pc' \in {"flush", "idle"}
      BY <2>12 DEF ReadCmdRdy, Goto, Return
    <3> QED
      BY <2>0, <3>1, TransferKeeps
  <2>13. CASE WriteFlush
    BY <2>13, WriteFlushKeeps
  <2>14. CASE ReadCmdErr
    <3>1. /\ UNCHANGED <<chipVars, dev, dataVars, histVars>> /\ configs' = configs
          /\ sel' \in {sel, {}} /\ pc' = "idle"
      BY <2>14 DEF ReadCmdErr, Return
    <3> QED
      BY <2>0, <3>1, TransferKeeps
  <2>15. CASE UNCHANGED vars
    <3>1. UNCHANGED <<chip, fifo, samples, dev, pc, configs, sel, buffer, byte_count, start_idx,
                      config_err, frame_not_available, given, timed, overran, usable>>
      BY <2>15 DEF vars, chipVars, dataVars, histVars
    <3> QED
      BY <3>1 DEF FifoInv, TypeOK, ChipOK, FifoOK, Stored, LengthOK, Counted, BufferOK, Buffered,
                  PcOK, PlaceOK, Stands, TimeMissing, TempAlone, DataFrames
  <2> QED
    BY <2>1, <2>2, <2>3, <2>4, <2>5, <2>6, <2>7, <2>8, <2>9, <2>10, <2>11, <2>12, <2>13,
       <2>14, <2>15 DEF Next
<1> QED
  BY <1>1, <1>2, PTL DEF Spec

(* Every variable has its type: the FIFO never holds more bytes than its   *)
(* capacity, the buffer no more than byte_count says, and the parser's     *)
(* index is never further beyond it than one frame.                        *)
THEOREM FifoTyped == Spec => []TypeOK
<1>1. FifoInv => TypeOK
  BY DEF FifoInv
<1> QED
  BY <1>1, FifoInvariant, PTL

(* What bmp3_extract_fifo_data gives its caller is a prefix of the data    *)
(* frames of the buffer, and all of them when it says there are no more;   *)
(* a frame that was cut and a config_err have their reasons.               *)
THEOREM FifoExtracted == Spec => []FramesExtracted
<1>1. ASSUME FifoInv PROVE FramesExtracted
  <2>1. buffer \in Seq(AnyFrames) /\ Len(buffer) \in Nat
    BY <1>1, FramesAny DEF FifoInv, TypeOK
  <2>2. PICK j \in 0 .. Len(buffer) : given = DataUpTo(buffer, j)
    BY <1>1 DEF FifoInv, PlaceOK
  <2>3. IsPrefix(given, DataFrames)
    BY <2>1, <2>2, DataPrefix DEF DataFrames
  <2>4. DataOK(buffer, j)
    BY <2>1, DataOfFrames
  <2>5. ASSUME NEW i \in 1 .. Len(given)
        PROVE  /\ given[i].kind = "press" => TempAlone
               /\ IsWhole(given[i])
                    \/ ((timed.dev \/ overran) /\ i = Len(given) /\ given[i] = Last(buffer))
    <3>1. PICK k \in 1 .. j : /\ given[i] = buffer[k] /\ buffer[k].kind \in DataKinds
                              /\ k = Len(buffer) => i = Len(given)
      BY <2>1, <2>2, <2>4 DEF DataOK
    <3>2. k \in DOMAIN buffer
      BY <2>1
    <3>3. Buffered(buffer[k], k = Len(buffer))
      BY <1>1, <3>2 DEF FifoInv, BufferOK
    <3>4. given[i].kind # "empty"
      BY <3>1, AdvanceLaw
    <3> QED
      BY <3>1, <3>3, <3>4 DEF Buffered, Last
  <2> QED
    BY <1>1, <2>3, <2>5 DEF FifoInv, PlaceOK, FramesExtracted, TimeMissing
<1> QED
  BY <1>1, FifoInvariant, PTL

=============================================================================
