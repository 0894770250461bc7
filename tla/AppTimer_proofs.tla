-------------------------- MODULE AppTimer_proofs --------------------------
(***************************************************************************)
(* Proofs about AppTimer, for any number of timers, any intervals and any  *)
(* delay of the processor that AppTimerAssumption allows.                  *)
(*                                                                         *)
(* The code keeps differences; what they mean is when each timer expires   *)
(* (Expiry), counted from the last known value. The lemmas about the list  *)
(* say what an insertion, a removal, the expiry of the first timers and    *)
(* their restart make of these times, and no later proof looks at a        *)
(* difference again. Sums over the list are recursive functions; what      *)
(* holds of them for every length is proved from the least length at which *)
(* it would not.                                                           *)
(*                                                                         *)
(* That nobody is late is a matter of the compare register. It is written  *)
(* with the expiry of the first timer, or OffsetMin after the counter if   *)
(* that is nearer (app_timer.c:690), so an update may put a timer off that *)
(* is about to expire. A timer is put off again only when the first has    *)
(* been stopped in the meantime, and one that is stopped does not come     *)
(* back so soon: its intervals are longer than MaxLate. Chain(w, x, c)     *)
(* says that c timers have gone so far, that no timer is later than c      *)
(* delays explain, and that at most N - c timers are close enough to go on *)
(* so. Hence MaxLate.                                                      *)
(*                                                                         *)
(* TimerInv has with that who is in the list and why (Members), how long   *)
(* each handler has to wait (Due), what an operation in the queue is worth *)
(* (Started), and how far the counter may be between the three interrupts  *)
(* (Armed, Called, Updating). None of the four properties is inductive     *)
(* without all of it: even that ticks are no negative numbers needs the    *)
(* counter to be near the last known value.                                *)
(***************************************************************************)
EXTENDS AppTimer, WellFoundedInduction, FiniteSetTheorems, TLAPS

LEMMA LeastNatural ==
  ASSUME NEW T, T \subseteq Nat, T # {}
  PROVE  \E n \in T : \A m \in T : n <= m
<1> DEFINE R == OpToRel(<, Nat)
<1>1. IsWellFoundedOn(R, Nat)
  BY NatLessThanWellFounded
<1>2. \A x, y \in Nat : <<y, x>> \in R <=> y < x
  BY DEF OpToRel
<1> HIDE DEF R
<1>3. PICK x \in T : \A y \in T : ~ (<<y, x>> \in R)
  BY <1>1, WFMin
<1>4. \A y \in T : ~(y < x)
  BY <1>2, <1>3
<1>5. \A y \in T : x <= y
  BY <1>4
<1> QED
  BY <1>5

(* Induction, for a set of naturals.                                       *)
LEMMA Upwards ==
  ASSUME NEW n \in Nat, NEW T, 0 \in T, \A i \in 0 .. n - 1 : i \in T => i + 1 \in T
  PROVE  \A i \in 0 .. n : i \in T
<1> SUFFICES ASSUME NEW i \in 0 .. n, i \notin T PROVE FALSE
  OBVIOUS
<1> DEFINE Bad == {j \in 0 .. n : j \notin T}
<1>1. PICK j \in Bad : \A m \in Bad : j <= m
  <2>1. Bad \subseteq Nat /\ Bad # {}
    OBVIOUS
  <2> HIDE DEF Bad
  <2> QED
    BY <2>1, LeastNatural
<1>2. j # 0 /\ j - 1 \in 0 .. n - 1
  OBVIOUS
<1>3. j - 1 \in T
  BY <1>1, <1>2
<1> QED
  BY <1>2, <1>3

----------------------------------------------------------------------------
(* The list as the times at which its timers expire.                       *)
Place(l, t) == CHOOSE i \in 1 .. Len(l) : l[i] = t
Expiry(l, ticks, t) == Offset(l, ticks, Place(l, t))

(* Arithmetic that recurs with sums over the list.                         *)
LEMMA Deducted ==
  ASSUME NEW w \in Nat, NEW z \in Nat, NEW y \in Nat, NEW n \in Nat, NEW r \in Nat,
         y = w + z, w + r = n, ~(y < n)
  PROVE  z - r \in Nat /\ z - r <= z /\ n + (z - r) = y
  OBVIOUS

LEMMA Regained ==
  ASSUME NEW w \in Nat, NEW old \in Nat, NEW own \in Nat, NEW kept \in Nat, NEW y, NEW n,
         y = w + old, n = w + own, old = kept + own
  PROVE  kept = old - own /\ n + (old - own) = y
  OBVIOUS

LEMMA RestOf ==
  ASSUME NEW w \in Nat, NEW p \in Nat, NEW n \in Nat, n <= w + p, NEW a, a = w + p - n
  PROVE  a \in Nat /\ a + n = w + p
  OBVIOUS

LEMMA PlaceLaw ==
  ASSUME NEW l \in Seq(Timers), IsInjective(l)
  PROVE  /\ \A i \in 1 .. Len(l) : Place(l, l[i]) = i
         /\ \A t \in Range(l) : Place(l, t) \in 1 .. Len(l) /\ l[Place(l, t)] = t
<1>1. DOMAIN l = 1 .. Len(l)
  OBVIOUS
<1>2. ASSUME NEW t \in Range(l) PROVE Place(l, t) \in 1 .. Len(l) /\ l[Place(l, t)] = t
  <2>1. \E i \in 1 .. Len(l) : l[i] = t
    BY <1>1 DEF Range
  <2> QED
    BY <2>1 DEF Place
<1>3. \A i \in 1 .. Len(l) : l[i] \in Range(l)
  BY <1>1 DEF Range
<1>4. ASSUME NEW i \in 1 .. Len(l) PROVE Place(l, l[i]) = i
  <2>1. Place(l, l[i]) \in 1 .. Len(l) /\ l[Place(l, l[i])] = l[i]
    BY <1>2, <1>3
  <2> QED
    BY <1>1, <2>1 DEF IsInjective
<1> QED
  BY <1>2, <1>4

LEMMA OffsetSum ==
  ASSUME NEW l \in Seq(Timers), NEW ticks \in [Timers -> Nat]
  PROVE  /\ Offset(l, ticks, 0) = 0
         /\ \A i \in 1 .. Len(l) : Offset(l, ticks, i) = Offset(l, ticks, i - 1) + ticks[l[i]]
         /\ \A i \in 0 .. Len(l) : Offset(l, ticks, i) \in Nat
<1> DEFINE Sums(f, n) == f = [j \in 0 .. n |-> IF j = 0 THEN 0 ELSE f[j - 1] + ticks[l[j]]]
           T == {n \in Nat : \E f : Sums(f, n)}
<1>0. Len(l) \in Nat
  OBVIOUS
<1>1. 0 \in T
  <2>1. Sums([j \in 0 .. 0 |-> 0], 0)
    OBVIOUS
  <2> QED
    BY <2>1
<1>2. ASSUME NEW n \in 0 .. Len(l) - 1, n \in T PROVE n + 1 \in T
  <2>1. PICK f : Sums(f, n)
    BY <1>2
  <2> DEFINE g == [j \in 0 .. n + 1 |-> IF j <= n THEN f[j] ELSE f[n] + ticks[l[j]]]
  <2>2. ASSUME NEW j \in 0 .. n + 1
        PROVE  g[j] = IF j = 0 THEN 0 ELSE g[j - 1] + ticks[l[j]]
    <3>1. CASE j = 0
      BY <2>1, <3>1
    <3>2. CASE j \in 1 .. n
      <4>1. g[j] = f[j] /\ g[j - 1] = f[j - 1] /\ f[j] = f[j - 1] + ticks[l[j]]
        <5>1. j - 1 \in 0 .. n /\ j \in 0 .. n /\ j \in 0 .. n + 1 /\ j - 1 \in 0 .. n + 1 /\ j # 0
          BY <3>2
        <5>2. g[j] = f[j] /\ g[j - 1] = f[j - 1]
          BY <5>1
        <5>3. f[j] = [i \in 0 .. n |-> IF i = 0 THEN 0 ELSE f[i - 1] + ticks[l[i]]][j]
          BY <2>1
        <5> QED
          BY <5>1, <5>2, <5>3
      <4> QED
        BY <3>2, <4>1
    <3>3. CASE j = n + 1
      <4>1. g[j] = f[n] + ticks[l[j]] /\ g[j - 1] = f[n] /\ j # 0
        BY <3>3
      <4> QED
        BY <4>1
    <3> QED
      BY <3>1, <3>2, <3>3
  <2>3. g = [j \in 0 .. n + 1 |-> g[j]]
    OBVIOUS
  <2> HIDE DEF g
  <2>4. Sums(g, n + 1)
    BY <2>2, <2>3
  <2> QED
    <3>1. n + 1 \in Nat
      BY <1>0
    <3> HIDE DEF Sums
    <3> QED
      BY <2>4, <3>1
<1>3. Len(l) \in T
  <2> HIDE DEF T
  <2>1. \A n \in 0 .. Len(l) : n \in T
    BY <1>0, <1>1, <1>2, Upwards
  <2> QED
    BY <1>0, <2>1
<1> DEFINE sum == CHOOSE f : Sums(f, Len(l))
<1>4. Sums(sum, Len(l))
  BY <1>3
<1>5. \A i : Offset(l, ticks, i) = sum[i]
  BY DEF Offset
<1> HIDE DEF sum
<1>6. sum[0] = 0 /\ \A i \in 1 .. Len(l) : sum[i] = sum[i - 1] + ticks[l[i]]
  BY <1>0, <1>4
<1> DEFINE M == {i \in Nat : sum[i] \in Nat}
<1>7. 0 \in M /\ \A i \in 0 .. Len(l) - 1 : i \in M => i + 1 \in M
  <2>1. ASSUME NEW i \in 0 .. Len(l) - 1, sum[i] \in Nat PROVE sum[i + 1] \in Nat
    <3>1. i + 1 \in 1 .. Len(l) /\ l[i + 1] \in Timers /\ i + 1 - 1 = i
      BY <1>0
    <3> QED
      BY <1>6, <2>1, <3>1
  <2> QED
    BY <1>0, <1>6, <2>1
<1>8. \A i \in 0 .. Len(l) : i \in M
  <2> HIDE DEF M
  <2> QED
    BY <1>0, <1>7, Upwards
<1> QED
  BY <1>5, <1>6, <1>8

LEMMA OffsetMonotone ==
  ASSUME NEW l \in Seq(Timers), NEW ticks \in [Timers -> Nat],
         NEW i \in 0 .. Len(l), NEW j \in 0 .. Len(l), i <= j
  PROVE  Offset(l, ticks, i) <= Offset(l, ticks, j)
<1> DEFINE M == {k \in Nat : i + k <= Len(l) => Offset(l, ticks, i) <= Offset(l, ticks, i + k)}
<1>0. Len(l) \in Nat /\ i \in Nat /\ j - i \in Nat /\ i + (j - i) = j /\ i + 0 = i
  OBVIOUS
<1>1. 0 \in M
  BY <1>0, OffsetSum
<1>2. ASSUME NEW k \in 0 .. (j - i) - 1, k \in M PROVE k + 1 \in M
  <2>1. i + (k + 1) \in 1 .. Len(l) /\ i + (k + 1) - 1 = i + k /\ i + k \in 0 .. Len(l)
        /\ k + 1 \in Nat /\ i + k <= Len(l)
    BY <1>0
  <2>2. Offset(l, ticks, i) <= Offset(l, ticks, i + k)
    BY <1>2, <2>1
  <2>3. Offset(l, ticks, i + (k + 1)) = Offset(l, ticks, i + k) + ticks[l[i + (k + 1)]]
        /\ Offset(l, ticks, i) \in Nat /\ Offset(l, ticks, i + k) \in Nat
    BY <2>1, OffsetSum
  <2>4. ticks[l[i + (k + 1)]] \in Nat
    BY <2>1
  <2>5. Offset(l, ticks, i) <= Offset(l, ticks, i + (k + 1))
    BY <2>2, <2>3, <2>4
  <2> QED
    BY <2>1, <2>5
<1>3. \A k \in 0 .. j - i : k \in M
  <2> HIDE DEF M
  <2> QED
    BY <1>0, <1>1, <1>2, Upwards
<1>4. j - i \in M
  <2> HIDE DEF M
  <2> QED
    BY <1>0, <1>3
<1> QED
  BY <1>0, <1>4

LEMMA ExpiredLaw ==
  ASSUME NEW l \in Seq(Timers), NEW ticks \in [Timers -> Nat], NEW n \in Int
  PROVE  /\ Expired(l, ticks, n) \in 0 .. Len(l)
         /\ \A i \in 1 .. Len(l) : Offset(l, ticks, i) <= n <=> i <= Expired(l, ticks, n)
<1> DEFINE Later == {i \in 1 .. Len(l) : Offset(l, ticks, i) > n}
<1>0. Len(l) \in Nat /\ \A i \in 1 .. Len(l) : Offset(l, ticks, i) \in Nat
  BY OffsetSum
<1>1. \E k \in 0 .. Len(l) : \A i \in 1 .. Len(l) : Offset(l, ticks, i) <= n <=> i <= k
  <2>1. CASE Later = {}
    <3>1. \A i \in 1 .. Len(l) : Offset(l, ticks, i) <= n <=> i <= Len(l)
      <4> SUFFICES ASSUME NEW i \in 1 .. Len(l) PROVE Offset(l, ticks, i) <= n <=> i <= Len(l)
        OBVIOUS
      <4>1. ~(Offset(l, ticks, i) > n)
        BY <2>1
      <4>2. Offset(l, ticks, i) \in Nat /\ i <= Len(l)
        BY <1>0
      <4> QED
        BY <4>1, <4>2
    <3>2. Len(l) \in 0 .. Len(l)
      BY <1>0
    <3> QED
      BY <3>1, <3>2
  <2>2. CASE Later # {}
    <3>1. PICK k \in Later : \A m \in Later : k <= m
      <4>1. Later \subseteq Nat
        OBVIOUS
      <4> HIDE DEF Later
      <4> QED
        BY <2>2, <4>1, LeastNatural
    <3>2. ASSUME NEW i \in 1 .. Len(l) PROVE Offset(l, ticks, i) <= n <=> i <= k - 1
      <4>1. CASE i < k
        <5>1. i \notin Later
          BY <3>1, <4>1
        <5> QED
          BY <1>0, <4>1, <5>1
      <4>2. CASE i >= k
        <5>1. Offset(l, ticks, k) <= Offset(l, ticks, i)
          BY <3>1, <4>2, OffsetMonotone
        <5> QED
          BY <1>0, <3>1, <4>2, <5>1
      <4> QED
        BY <4>1, <4>2
    <3>3. k - 1 \in 0 .. Len(l)
      BY <1>0
    <3> QED
      BY <3>2, <3>3
  <2> HIDE DEF Later
  <2> QED
    BY <2>1, <2>2
<1> QED
  BY <1>1 DEF Expired

LEMMA ExpiryLaw ==
  ASSUME NEW l \in Seq(Timers), IsInjective(l), NEW ticks \in [Timers -> Nat]
  PROVE  /\ \A i \in 1 .. Len(l) : l[i] \in Range(l) /\ Expiry(l, ticks, l[i]) = Offset(l, ticks, i)
         /\ \A t \in Range(l) :
              t \in Timers /\ Expiry(l, ticks, t) \in Nat /\ ticks[t] <= Expiry(l, ticks, t)
         /\ l # << >> => /\ Head(l) \in Range(l) /\ Expiry(l, ticks, Head(l)) = ticks[Head(l)]
                         /\ \A t \in Range(l) : Expiry(l, ticks, Head(l)) <= Expiry(l, ticks, t)
<1>0. Len(l) \in Nat /\ \A i \in 1 .. Len(l) : l[i] \in Timers /\ i \in 0 .. Len(l) /\ i - 1 \in 0 .. Len(l)
  OBVIOUS
<1>1. ASSUME NEW i \in 1 .. Len(l)
      PROVE  l[i] \in Range(l) /\ Expiry(l, ticks, l[i]) = Offset(l, ticks, i)
  <2>1. Place(l, l[i]) = i
    BY PlaceLaw
  <2>2. l[i] \in Range(l)
    BY DEF Range
  <2> QED
    BY <2>1, <2>2 DEF Expiry
<1>2. ASSUME NEW t \in Range(l)
      PROVE  t \in Timers /\ Expiry(l, ticks, t) \in Nat /\ ticks[t] <= Expiry(l, ticks, t)
  <2>1. Place(l, t) \in 1 .. Len(l) /\ l[Place(l, t)] = t
    BY PlaceLaw
  <2>2. PICK i \in 1 .. Len(l) : l[i] = t
    BY <2>1
  <2>3. Expiry(l, ticks, t) = Offset(l, ticks, i)
    BY <1>1, <2>2
  <2>4. Offset(l, ticks, i) = Offset(l, ticks, i - 1) + ticks[t]
        /\ Offset(l, ticks, i - 1) \in Nat /\ Offset(l, ticks, i) \in Nat
    BY <1>0, <2>2, OffsetSum
  <2>5. t \in Timers /\ ticks[t] \in Nat
    BY <2>2
  <2> QED
    BY <2>3, <2>4, <2>5
<1>3. ASSUME l # << >>
      PROVE  /\ Head(l) \in Range(l) /\ Expiry(l, ticks, Head(l)) = ticks[Head(l)]
             /\ \A t \in Range(l) : Expiry(l, ticks, Head(l)) <= Expiry(l, ticks, t)
  <2>1. 1 \in 1 .. Len(l) /\ Head(l) = l[1]
    BY <1>0, <1>3
  <2>2. Expiry(l, ticks, l[1]) = Offset(l, ticks, 1) /\ l[1] \in Range(l)
    BY <1>1, <2>1
  <2>3. Offset(l, ticks, 1) = ticks[l[1]]
    <3>1. Offset(l, ticks, 1) = Offset(l, ticks, 1 - 1) + ticks[l[1]] /\ Offset(l, ticks, 0) = 0
      BY <2>1, OffsetSum
    <3>2. ticks[l[1]] \in Nat /\ 1 - 1 = 0
      BY <1>0, <2>1
    <3> QED
      BY <3>1, <3>2
  <2>4. ASSUME NEW t \in Range(l) PROVE Expiry(l, ticks, l[1]) <= Expiry(l, ticks, t)
    <3>1. PICK i \in 1 .. Len(l) : l[i] = t
      BY PlaceLaw
    <3>2. Offset(l, ticks, 1) <= Offset(l, ticks, i)
      <4>1. 1 \in 0 .. Len(l) /\ i \in 0 .. Len(l) /\ 1 <= i
        BY <2>1
      <4> QED
        BY <4>1, OffsetMonotone
    <3> QED
      BY <1>1, <2>2, <3>1, <3>2
  <2> QED
    BY <2>1, <2>2, <2>3, <2>4
<1> QED
  BY <1>1, <1>2, <1>3

Lists == [list : Seq(Timers), ticks : [Timers -> Nat]]

(* Timer t is the p-th of m, and all others keep their order.              *)
Spliced(l, p, t, m) ==
  /\ Len(m) = Len(l) + 1 /\ m[p] = t
  /\ \A i \in 1 .. Len(l) : i < p => m[i] = l[i]
  /\ \A i \in 1 .. Len(l) : i >= p => m[i + 1] = l[i]

LEMMA InsertAtLaw ==
  ASSUME NEW l \in Seq(Timers), NEW p \in 1 .. Len(l) + 1, NEW t \in Timers,
         NEW m, m = InsertAt(l, p, t)
  PROVE  m \in Seq(Timers) /\ Spliced(l, p, t, m)
<1> DEFINE before == SubSeq(l, 1, p - 1)  after == SubSeq(l, p, Len(l))
           w == before \o <<t>>
<1>0. Len(l) \in Nat /\ p \in Nat /\ p <= Len(l) + 1 /\ 1 <= p
  OBVIOUS
<1>1. before \in Seq(Timers) /\ Len(before) = p - 1 /\ \A i \in 1 .. p - 1 : before[i] = l[i]
  BY <1>0
<1>2. /\ after \in Seq(Timers) /\ Len(after) = Len(l) - (p - 1)
      /\ \A i \in 1 .. Len(l) - (p - 1) : after[i] = l[i + (p - 1)]
  BY <1>0
<1>3. m = w \o after
  BY DEF InsertAt
<1> HIDE DEF before, after
<1>4. w \in Seq(Timers) /\ Len(w) = p /\ (\A i \in 1 .. p - 1 : w[i] = before[i]) /\ w[p] = t
  BY <1>0, <1>1
<1> HIDE DEF w
<1>5. m \in Seq(Timers) /\ Len(m) = Len(w) + Len(after)
      /\ (\A i \in 1 .. Len(w) : m[i] = w[i]) /\ \A i \in 1 .. Len(after) : m[Len(w) + i] = after[i]
  <2>1. w \in Seq(Timers) /\ after \in Seq(Timers)
    BY <1>2, <1>4
  <2>2. m \in Seq(Timers) /\ Len(m) = Len(w) + Len(after)
    BY <1>3, <2>1
  <2>3. \A i \in 1 .. Len(w) : m[i] = w[i]
    BY <1>3, <2>1
  <2>4. \A i \in 1 .. Len(after) : m[Len(w) + i] = after[i]
    BY <1>3, <2>1
  <2> QED
    BY <2>2, <2>3, <2>4
<1>6. ASSUME NEW i \in 1 .. Len(l), i >= p PROVE m[i + 1] = l[i]
  <2>1. i - (p - 1) \in 1 .. Len(after) /\ Len(w) + (i - (p - 1)) = i + 1 /\ i - (p - 1) + (p - 1) = i
        /\ i - (p - 1) \in 1 .. Len(l) - (p - 1)
    BY <1>0, <1>2, <1>4, <1>6
  <2>2. m[Len(w) + (i - (p - 1))] = after[i - (p - 1)] /\ after[i - (p - 1)] = l[i - (p - 1) + (p - 1)]
    BY <1>2, <1>5, <2>1
  <2> QED
    BY <2>1, <2>2
<1>7. ASSUME NEW i \in 1 .. Len(l), i < p PROVE m[i] = l[i]
  <2>1. i \in 1 .. Len(w) /\ i \in 1 .. p - 1
    BY <1>0, <1>4, <1>7
  <2> QED
    BY <1>1, <1>4, <1>5, <2>1
<1>8. m[p] = t /\ Len(m) = Len(l) + 1
  BY <1>0, <1>2, <1>4, <1>5
<1> QED
  BY <1>5, <1>6, <1>7, <1>8 DEF Spliced

(* It expires after n ticks, and takes its own from those of the next.     *)
Shared(l, ticks, p, t, n, rest, x) ==
  /\ Offset(l, ticks, p - 1) + rest = n
  /\ p <= Len(l) => n + (ticks[l[p]] - rest) = Offset(l, ticks, p)
  /\ x[t] = rest
  /\ \A i \in 1 .. Len(l) : i # p => x[l[i]] = ticks[l[i]]
  /\ p <= Len(l) => x[l[p]] = ticks[l[p]] - rest

New(t, l) == t \notin Range(l)

(* What an insertion comes to: t expires after n ticks, all others when    *)
(* they did.                                                               *)
PutIn(l, ticks, t, n, m, x) ==
  /\ IsInjective(m) /\ Range(m) = Range(l) \cup {t} /\ m # << >>
  /\ Expiry(m, x, t) = n
  /\ \A u \in Range(l) : Expiry(m, x, u) = Expiry(l, ticks, u)
  /\ l # << >> /\ Head(m) # t => Head(m) = Head(l)

LEMMA InjectiveLaw ==
  ASSUME NEW l \in Seq(Timers), IsInjective(l)
  PROVE  /\ \A i \in 1 .. Len(l) : l[i] \in Range(l) /\ l[i] \in Timers
         /\ \A i, j \in 1 .. Len(l) : l[i] = l[j] => i = j
<1>1. DOMAIN l = 1 .. Len(l)
  OBVIOUS
<1> QED
  BY <1>1 DEF Range, IsInjective

LEMMA Inserted ==
  ASSUME NEW l \in Seq(Timers), IsInjective(l), NEW ticks \in [Timers -> Nat],
         NEW t \in Timers, New(t, l), NEW n \in Nat,
         NEW p \in 1 .. Len(l) + 1, NEW rest \in Nat,
         NEW m \in Seq(Timers), Spliced(l, p, t, m),
         NEW x \in [Timers -> Nat], Shared(l, ticks, p, t, n, rest, x)
  PROVE  PutIn(l, ticks, t, n, m, x)
<1>0. Len(l) \in Nat /\ p \in Nat /\ 1 <= p /\ p <= Len(l) + 1 /\ p - 1 \in Nat /\ p - 1 \in 0 .. Len(l)
  OBVIOUS
<1>1. /\ Offset(l, ticks, 0) = 0 /\ \A i \in 0 .. Len(l) : Offset(l, ticks, i) \in Nat
      /\ \A i \in 1 .. Len(l) : Offset(l, ticks, i) = Offset(l, ticks, i - 1) + ticks[l[i]]
  BY OffsetSum
<1>2. /\ m \in Seq(Timers) /\ Len(m) = Len(l) + 1 /\ m[p] = t
      /\ \A i \in 1 .. Len(l) : i < p => m[i] = l[i]
      /\ \A i \in 1 .. Len(l) : i >= p => m[i + 1] = l[i]
  BY DEF Spliced
<1>3. DOMAIN l = 1 .. Len(l) /\ DOMAIN m = 1 .. Len(l) + 1
  BY <1>0, <1>2
<1>4. /\ \A i \in 1 .. Len(l) : l[i] \in Range(l) /\ l[i] # t /\ l[i] \in Timers
      /\ \A i, j \in 1 .. Len(l) : l[i] = l[j] => i = j
  <2>1. /\ \A i \in 1 .. Len(l) : l[i] \in Range(l) /\ l[i] \in Timers
        /\ \A i, j \in 1 .. Len(l) : l[i] = l[j] => i = j
    BY InjectiveLaw, Zenon
  <2>2. t \notin Range(l)
    BY DEF New
  <2> QED
    BY <2>1, <2>2, Zenon
<1>5. rest \in Nat /\ Offset(l, ticks, p - 1) + rest = n
  BY DEF Shared
<1>6. p <= Len(l) => n + (ticks[l[p]] - rest) = Offset(l, ticks, p)
  BY DEF Shared
<1>7. /\ x \in [Timers -> Nat] /\ x[t] = rest
      /\ \A i \in 1 .. Len(l) : i # p => x[l[i]] = ticks[l[i]]
      /\ p <= Len(l) => x[l[p]] = ticks[l[p]] - rest
  BY DEF Shared
<1>8. /\ Offset(m, x, 0) = 0 /\ \A i \in 0 .. Len(l) + 1 : Offset(m, x, i) \in Nat
      /\ \A i \in 1 .. Len(l) + 1 : Offset(m, x, i) = Offset(m, x, i - 1) + x[m[i]]
  <2>1. /\ Offset(m, x, 0) = 0 /\ \A i \in 0 .. Len(m) : Offset(m, x, i) \in Nat
        /\ \A i \in 1 .. Len(m) : Offset(m, x, i) = Offset(m, x, i - 1) + x[m[i]]
    BY OffsetSum
  <2>2. Len(m) = Len(l) + 1
    BY <1>2
  <2> QED
    BY <2>1, <2>2
<1>8a. ASSUME NEW i, i + 1 \in 1 .. Len(l) + 1, i \in Nat
       PROVE  Offset(m, x, i + 1) = Offset(m, x, i) + x[m[i + 1]]
  <2> DEFINE j == i + 1
  <2>1. j \in 1 .. Len(l) + 1 /\ j - 1 = i
    BY <1>8a
  <2> HIDE DEF j
  <2>2. Offset(m, x, j) = Offset(m, x, i) + x[m[j]]
    BY <1>8, <2>1
  <2> QED
    BY <2>2 DEF j
<1>9. ASSUME NEW i \in 1 .. Len(l) + 1
      PROVE  \/ i \in 1 .. Len(l) /\ i < p /\ m[i] = l[i]
             \/ i = p /\ m[i] = t
             \/ i - 1 \in 1 .. Len(l) /\ i - 1 >= p /\ m[i] = l[i - 1]
  <2>1. CASE i < p
    <3>1. i \in 1 .. Len(l)
      BY <1>0, <2>1
    <3> QED
      BY <1>2, <2>1, <3>1
  <2>2. CASE i = p
    BY <1>2, <2>2
  <2>3. CASE i > p
    <3>1. i - 1 \in 1 .. Len(l) /\ i - 1 >= p /\ i - 1 + 1 = i
      BY <1>0, <2>3
    <3>2. m[i - 1 + 1] = l[i - 1]
      BY <1>2, <3>1
    <3> QED
      BY <3>1, <3>2
  <2> QED
    BY <1>0, <2>1, <2>2, <2>3
<1>10. IsInjective(m)
  <2> SUFFICES ASSUME NEW i \in 1 .. Len(l) + 1, NEW j \in 1 .. Len(l) + 1, m[i] = m[j] PROVE i = j
    BY <1>3 DEF IsInjective
  <2>1. CASE i \in 1 .. Len(l) /\ i < p /\ m[i] = l[i]
    <3>1. CASE j \in 1 .. Len(l) /\ j < p /\ m[j] = l[j]
      BY <1>4, <2>1, <3>1
    <3>2. CASE j = p /\ m[j] = t
      BY <1>4, <2>1, <3>2
    <3>3. CASE j - 1 \in 1 .. Len(l) /\ j - 1 >= p /\ m[j] = l[j - 1]
      <4>1. i = j - 1
        BY <1>4, <2>1, <3>3
      <4> QED
        BY <1>0, <2>1, <3>3, <4>1
    <3> QED
      BY <1>9, <3>1, <3>2, <3>3
  <2>2. CASE i = p /\ m[i] = t
    <3>1. CASE j \in 1 .. Len(l) /\ j < p /\ m[j] = l[j]
      BY <1>4, <2>2, <3>1
    <3>2. CASE j = p /\ m[j] = t
      BY <2>2, <3>2
    <3>3. CASE j - 1 \in 1 .. Len(l) /\ j - 1 >= p /\ m[j] = l[j - 1]
      BY <1>4, <2>2, <3>3
    <3> QED
      BY <1>9, <3>1, <3>2, <3>3
  <2>3. CASE i - 1 \in 1 .. Len(l) /\ i - 1 >= p /\ m[i] = l[i - 1]
    <3>1. CASE j \in 1 .. Len(l) /\ j < p /\ m[j] = l[j]
      <4>1. i - 1 = j
        BY <1>4, <2>3, <3>1
      <4> QED
        BY <1>0, <2>3, <3>1, <4>1
    <3>2. CASE j = p /\ m[j] = t
      BY <1>4, <2>3, <3>2
    <3>3. CASE j - 1 \in 1 .. Len(l) /\ j - 1 >= p /\ m[j] = l[j - 1]
      <4>1. i - 1 = j - 1
        BY <1>4, <2>3, <3>3
      <4> QED
        BY <4>1
    <3> QED
      BY <1>9, <3>1, <3>2, <3>3
  <2> QED
    BY <1>9, <2>1, <2>2, <2>3
<1>11. \A i \in 1 .. Len(l) :
         \/ i < p /\ i \in 1 .. Len(l) + 1 /\ m[i] = l[i]
         \/ i >= p /\ i + 1 \in 1 .. Len(l) + 1 /\ m[i + 1] = l[i]
  <2> SUFFICES ASSUME NEW i \in 1 .. Len(l)
               PROVE  \/ i < p /\ i \in 1 .. Len(l) + 1 /\ m[i] = l[i]
                      \/ i >= p /\ i + 1 \in 1 .. Len(l) + 1 /\ m[i + 1] = l[i]
    OBVIOUS
  <2>1. i \in 1 .. Len(l) + 1 /\ i + 1 \in 1 .. Len(l) + 1 /\ (i < p \/ i >= p)
    BY <1>0
  <2>2. CASE i < p
    BY <1>2, <2>1, <2>2
  <2>3. CASE i >= p
    BY <1>2, <2>1, <2>3
  <2> QED
    BY <2>1, <2>2, <2>3
<1>12. Range(m) = Range(l) \cup {t} /\ m # << >>
  <2>1. ASSUME NEW u \in Range(m) PROVE u \in Range(l) \cup {t}
    <3>1. PICK i \in 1 .. Len(l) + 1 : m[i] = u
      BY <1>3 DEF Range
    <3> QED
      BY <1>4, <1>9, <3>1
  <2>2. ASSUME NEW u \in Range(l) PROVE u \in Range(m)
    <3>1. PICK i \in 1 .. Len(l) : l[i] = u
      BY <1>3 DEF Range
    <3> QED
      BY <1>3, <1>11, <3>1 DEF Range
  <2>3. p \in 1 .. Len(l) + 1 /\ m[p] = t
    BY <1>2
  <2>4. t \in Range(m)
    BY <1>3, <2>3 DEF Range
  <2>5. m # << >>
    BY <1>0, <1>2
  <2> QED
    BY <2>1, <2>2, <2>4, <2>5
<1>13. \A i \in 0 .. p - 1 : Offset(m, x, i) = Offset(l, ticks, i)
  <2> DEFINE T == {i \in Nat : Offset(m, x, i) = Offset(l, ticks, i)}
  <2>1. 0 \in T
    BY <1>1, <1>8
  <2>2. ASSUME NEW i \in 0 .. (p - 1) - 1, i \in T PROVE i + 1 \in T
    <3> DEFINE j == i + 1
    <3>1. j \in 1 .. Len(l) /\ j \in 1 .. Len(l) + 1 /\ j - 1 = i /\ j < p /\ j # p /\ j \in Nat
      BY <1>0
    <3> HIDE DEF j
    <3>2. m[j] = l[j]
      BY <1>2, <3>1
    <3>3. x[l[j]] = ticks[l[j]]
      BY <1>7, <3>1
    <3>4. Offset(m, x, j) = Offset(m, x, i) + x[m[j]]
      BY <1>8, <3>1
    <3>5. Offset(l, ticks, j) = Offset(l, ticks, i) + ticks[l[j]]
      BY <1>1, <3>1
    <3>6. Offset(m, x, j) = Offset(l, ticks, j)
      BY <2>2, <3>2, <3>3, <3>4, <3>5
    <3> QED
      BY <3>1, <3>6 DEF j
  <2> HIDE DEF T
  <2>3. \A i \in 0 .. p - 1 : i \in T
    BY <1>0, <2>1, <2>2, Upwards
  <2> QED
    BY <2>3 DEF T
<1>14. Offset(m, x, p) = n
  <2>1. p - 1 \in 0 .. p - 1 /\ p \in 1 .. Len(l) + 1
    BY <1>0
  <2>2. Offset(m, x, p) = Offset(l, ticks, p - 1) + rest
    BY <1>2, <1>7, <1>8, <1>13, <2>1
  <2> QED
    BY <1>5, <2>2
<1>15. \A i \in p .. Len(l) : Offset(m, x, i + 1) = Offset(l, ticks, i)
  <2> SUFFICES ASSUME p <= Len(l)
               PROVE  \A i \in p .. Len(l) : Offset(m, x, i + 1) = Offset(l, ticks, i)
    <3>1. Len(l) \in Nat /\ p \in Nat
      BY <1>0
    <3>2. \A i \in p .. Len(l) : p <= Len(l)
      BY <3>1
    <3> QED
      BY <3>2
  <2> DEFINE T == {k \in Nat : Offset(m, x, p + k + 1) = Offset(l, ticks, p + k)}
  <2>1. 0 \in T
    <3>1. p \in 1 .. Len(l) /\ p + 1 \in 1 .. Len(l) + 1 /\ p + 1 - 1 = p /\ p >= p
          /\ p + 0 + 1 = p + 1 /\ p + 0 = p
      BY <1>0
    <3>2. m[p + 1] = l[p] /\ x[l[p]] = ticks[l[p]] - rest
      BY <1>2, <1>7, <3>1
    <3>3. Offset(m, x, p + 1) = Offset(m, x, p) + x[m[p + 1]]
      BY <1>0, <1>8a, <3>1
    <3>4. Offset(m, x, p + 1) = n + (ticks[l[p]] - rest)
      BY <1>14, <3>1, <3>2, <3>3
    <3>5. n + (ticks[l[p]] - rest) = Offset(l, ticks, p)
      BY <1>0, <1>6, <3>1
    <3> QED
      BY <3>1, <3>4, <3>5
  <2>2. ASSUME NEW k \in 0 .. (Len(l) - p) - 1, k \in T PROVE k + 1 \in T
    <3> DEFINE i == p + k + 1
    <3>1. /\ i \in Nat /\ i \in 1 .. Len(l) /\ i + 1 \in 1 .. Len(l) + 1 /\ i + 1 - 1 = i /\ i - 1 = p + k /\ i > p
          /\ i >= p /\ i # p /\ p + (k + 1) = i /\ p + (k + 1) + 1 = i + 1 /\ k + 1 \in Nat
      BY <1>0
    <3>2. Offset(m, x, i) = Offset(l, ticks, i - 1)
      BY <2>2, <3>1
    <3> HIDE DEF i
    <3>3. m[i + 1] = l[i] /\ x[l[i]] = ticks[l[i]]
      BY <1>2, <1>7, <3>1
    <3>6. Offset(m, x, i + 1) = Offset(m, x, i) + x[m[i + 1]]
      BY <1>8a, <3>1
    <3>4. Offset(m, x, i + 1) = Offset(m, x, i) + ticks[l[i]]
      BY <3>1, <3>3, <3>6
    <3>5. Offset(l, ticks, i) = Offset(l, ticks, i - 1) + ticks[l[i]]
      BY <1>1, <3>1
    <3> QED
      BY <3>1, <3>2, <3>4, <3>5
  <2> HIDE DEF T
  <2>3. Len(l) - p \in Nat
    BY <1>0
  <2>4. \A k \in 0 .. Len(l) - p : k \in T
    BY <2>1, <2>2, <2>3, Upwards
  <2>5. ASSUME NEW i \in p .. Len(l) PROVE Offset(m, x, i + 1) = Offset(l, ticks, i)
    <3>1. i - p \in 0 .. Len(l) - p /\ p + (i - p) + 1 = i + 1 /\ p + (i - p) = i
      BY <1>0
    <3>2. i - p \in T
      BY <2>4, <3>1
    <3> QED
      BY <3>1, <3>2 DEF T
  <2> QED
    BY <2>5
<1>16. /\ \A i \in 1 .. Len(l) + 1 : Expiry(m, x, m[i]) = Offset(m, x, i)
       /\ \A i \in 1 .. Len(l) : Expiry(l, ticks, l[i]) = Offset(l, ticks, i)
  <2>1. \A i \in 1 .. Len(m) : Expiry(m, x, m[i]) = Offset(m, x, i)
    BY <1>7, <1>10, ExpiryLaw
  <2>2. \A i \in 1 .. Len(l) : Expiry(l, ticks, l[i]) = Offset(l, ticks, i)
    BY ExpiryLaw
  <2> QED
    BY <1>2, <2>1, <2>2
<1>17. Expiry(m, x, t) = n
  BY <1>2, <1>14, <1>16
<1>18. ASSUME NEW u \in Range(l) PROVE Expiry(m, x, u) = Expiry(l, ticks, u)
  <2>1. PICK i \in 1 .. Len(l) : l[i] = u
    BY <1>3 DEF Range
  <2>2. CASE i < p /\ i \in 1 .. Len(l) + 1 /\ m[i] = l[i]
    <3>1. i \in 0 .. p - 1
      <4>1. i \in Nat /\ i < p
        BY <1>0, <2>2
      <4> QED
        BY <1>0, <4>1
    <3> QED
      BY <1>13, <1>16, <2>1, <2>2, <3>1
  <2>3. CASE i >= p /\ i + 1 \in 1 .. Len(l) + 1 /\ m[i + 1] = l[i]
    <3>1. i \in p .. Len(l)
      BY <1>0, <2>3
    <3> QED
      BY <1>15, <1>16, <2>1, <2>3, <3>1
  <2> QED
    BY <1>11, <2>2, <2>3
<1>20. l # << >> /\ Head(m) # t => Head(m) = Head(l)
  <2> SUFFICES ASSUME l # << >>, Head(m) # t PROVE Head(m) = Head(l)
    OBVIOUS
  <2>1. Head(m) = m[1] /\ Head(l) = l[1] /\ 1 \in 1 .. Len(l) /\ 1 \in 1 .. Len(l) + 1
    <3>1. Len(l) >= 1
      BY <1>0
    <3>2. 1 \in 1 .. Len(l) /\ 1 \in 1 .. Len(l) + 1
      BY <1>0, <3>1
    <3>3. Head(m) = m[1] /\ Head(l) = l[1]
      BY <1>12
    <3> QED
      BY <3>2, <3>3
  <2>2. 1 < p
    BY <1>0, <1>2, <2>1
  <2> QED
    BY <1>2, <2>1, <2>2
<1> QED
  BY <1>10, <1>12, <1>17, <1>18, <1>20 DEF PutIn

(* The timers up to the p-th expire before n ticks.                        *)
Before(l, ticks, n, p) == \A i \in 1 .. Len(l) : Offset(l, ticks, i) < n <=> i < p

TicksSet(l, ticks, p, t, rest, x) ==
  x = [u \in Timers |-> IF u = t THEN rest
                        ELSE IF p <= Len(l) /\ u = l[p] THEN ticks[u] - rest ELSE ticks[u]]

LEMMA TicksShared ==
  ASSUME NEW l \in Seq(Timers), IsInjective(l), NEW ticks \in [Timers -> Nat],
         NEW t \in Timers, New(t, l), NEW n \in Nat,
         NEW p \in 1 .. Len(l) + 1, Before(l, ticks, n, p),
         NEW rest, rest = n - Offset(l, ticks, p - 1),
         NEW x, TicksSet(l, ticks, p, t, rest, x)
  PROVE  /\ rest \in Nat /\ x \in [Timers -> Nat] /\ Shared(l, ticks, p, t, n, rest, x)
         /\ \A u \in Timers \ {t} : x[u] <= ticks[u]
<1>0. /\ Len(l) \in Nat /\ p \in Nat /\ 1 <= p /\ p <= Len(l) + 1 /\ p - 1 \in Nat
      /\ p - 1 \in 0 .. Len(l) /\ p - 1 < p
  OBVIOUS
<1>1. /\ Offset(l, ticks, 0) = 0 /\ \A i \in 0 .. Len(l) : Offset(l, ticks, i) \in Nat
      /\ \A i \in 1 .. Len(l) : Offset(l, ticks, i) = Offset(l, ticks, i - 1) + ticks[l[i]]
  BY OffsetSum
<1>2. /\ \A i \in 1 .. Len(l) : l[i] \in Range(l) /\ l[i] # t /\ l[i] \in Timers
      /\ \A i, j \in 1 .. Len(l) : l[i] = l[j] => i = j
  BY InjectiveLaw DEF New
<1>3. \A i \in 1 .. Len(l) : Offset(l, ticks, i) < n <=> i < p
  BY DEF Before
<1>4. rest \in Nat /\ Offset(l, ticks, p - 1) + rest = n
  <2>1. Offset(l, ticks, p - 1) \in Nat
    BY <1>0, <1>1
  <2>2. Offset(l, ticks, p - 1) <= n
    <3>1. CASE p - 1 = 0
      BY <1>1, <3>1
    <3>2. CASE p - 1 \in 1 .. Len(l)
      <4>1. Offset(l, ticks, p - 1) < n
        BY <1>0, <1>3, <3>2
      <4> QED
        BY <2>1, <4>1
    <3> QED
      BY <1>0, <3>1, <3>2
  <2> QED
    BY <2>1, <2>2
<1>5. p <= Len(l) =>
        /\ p \in 1 .. Len(l) /\ ticks[l[p]] - rest \in Nat /\ ticks[l[p]] - rest <= ticks[l[p]]
        /\ n + (ticks[l[p]] - rest) = Offset(l, ticks, p)
  <2> SUFFICES ASSUME p <= Len(l)
               PROVE  /\ p \in 1 .. Len(l) /\ ticks[l[p]] - rest \in Nat
                      /\ ticks[l[p]] - rest <= ticks[l[p]]
                      /\ n + (ticks[l[p]] - rest) = Offset(l, ticks, p)
    OBVIOUS
  <2>1. p \in 1 .. Len(l) /\ p \in 0 .. Len(l) /\ ~(p < p)
    BY <1>0
  <2>2. Offset(l, ticks, p) = Offset(l, ticks, p - 1) + ticks[l[p]]
    BY <1>1, <2>1
  <2>3. Offset(l, ticks, p) \in Nat /\ ~(Offset(l, ticks, p) < n)
    BY <1>1, <1>3, <2>1
  <2>4. ticks[l[p]] \in Nat /\ Offset(l, ticks, p - 1) \in Nat
    BY <1>0, <1>1, <1>2, <2>1
  <2> DEFINE w == Offset(l, ticks, p - 1)  y == Offset(l, ticks, p)  z == ticks[l[p]]
  <2>5. y = w + z /\ y \in Nat /\ ~(y < n) /\ z \in Nat /\ w \in Nat /\ w + rest = n
    BY <1>4, <2>2, <2>3, <2>4
  <2> HIDE DEF w, y, z
  <2>6. z - rest \in Nat /\ z - rest <= z /\ n + (z - rest) = y
    BY <1>4, <2>5, Deducted, SMTT(30)
  <2> QED
    BY <2>1, <2>6 DEF y, z
<1>6. \A u \in Timers : x[u] = IF u = t THEN rest
                               ELSE IF p <= Len(l) /\ u = l[p] THEN ticks[u] - rest ELSE ticks[u]
  BY DEF TicksSet
<1>7. \A u \in Timers : x[u] \in Nat /\ ticks[u] \in Nat /\ (u # t => x[u] <= ticks[u])
  <2> SUFFICES ASSUME NEW u \in Timers
               PROVE  x[u] \in Nat /\ ticks[u] \in Nat /\ (u # t => x[u] <= ticks[u])
    OBVIOUS
  <2>0. ticks[u] \in Nat
    OBVIOUS
  <2>1. CASE u = t
    BY <1>4, <1>6, <2>0, <2>1
  <2>2. CASE u # t /\ p <= Len(l) /\ u = l[p]
    <3>1. x[u] = ticks[l[p]] - rest
      BY <1>6, <2>2
    <3> QED
      BY <1>5, <2>0, <2>2, <3>1
  <2>3. CASE u # t /\ ~(p <= Len(l) /\ u = l[p])
    <3>1. x[u] = ticks[u]
      BY <1>6, <2>3
    <3> QED
      BY <2>0, <3>1
  <2> QED
    BY <2>1, <2>2, <2>3
<1>8. x \in [Timers -> Nat]
  <2>1. x = [u \in Timers |-> x[u]]
    BY DEF TicksSet
  <2> QED
    BY <1>7, <2>1
<1>9. Shared(l, ticks, p, t, n, rest, x)
  <2>1. x[t] = rest
    BY <1>6
  <2>2. ASSUME NEW i \in 1 .. Len(l), i # p PROVE x[l[i]] = ticks[l[i]]
    <3>1. l[i] \in Timers /\ l[i] # t /\ ~(p <= Len(l) /\ l[i] = l[p])
      BY <1>2, <1>5, <2>2
    <3> QED
      BY <1>6, <3>1
  <2>3. ASSUME p <= Len(l) PROVE x[l[p]] = ticks[l[p]] - rest
    <3>1. l[p] \in Timers /\ l[p] # t
      BY <1>2, <1>5, <2>3
    <3> QED
      BY <1>6, <2>3, <3>1
  <2> QED
    BY <1>4, <1>5, <2>1, <2>2, <2>3 DEF Shared
<1> QED
  BY <1>4, <1>7, <1>8, <1>9

LEMMA InsertedAt ==
  ASSUME NEW l \in Seq(Timers), IsInjective(l), NEW ticks \in [Timers -> Nat],
         NEW t \in Timers, New(t, l), NEW n \in Nat,
         NEW p \in 1 .. Len(l) + 1, Before(l, ticks, n, p),
         NEW m, m = InsertAt(l, p, t),
         NEW x, TicksSet(l, ticks, p, t, n - Offset(l, ticks, p - 1), x)
  PROVE  /\ m \in Seq(Timers) /\ x \in [Timers -> Nat] /\ PutIn(l, ticks, t, n, m, x)
         /\ \A u \in Timers \ {t} : x[u] <= ticks[u]
<1>1. PICK rest : rest = n - Offset(l, ticks, p - 1)
  OBVIOUS
<1>2. TicksSet(l, ticks, p, t, rest, x)
  BY <1>1
<1>3. /\ rest \in Nat /\ x \in [Timers -> Nat] /\ Shared(l, ticks, p, t, n, rest, x)
      /\ \A u \in Timers \ {t} : x[u] <= ticks[u]
  BY <1>1, <1>2, TicksShared
<1>4. m \in Seq(Timers) /\ Spliced(l, p, t, m)
  BY InsertAtLaw
<1> QED
  BY <1>3, <1>4, Inserted

LEMMA InsertLaw ==
  ASSUME NEW s \in Lists, IsInjective(s.list), NEW t \in Timers, New(t, s.list), NEW n \in Nat,
         NEW r, r = timer_list_insert(s, t, n)
  PROVE  /\ r \in Lists /\ PutIn(s.list, s.ticks, t, n, r.list, r.ticks)
         /\ \A u \in Timers \ {t} : r.ticks[u] <= s.ticks[u]
<1>1. PICK l, ticks : l = s.list /\ ticks = s.ticks
  OBVIOUS
<1>2. PICK p : p = Expired(l, ticks, n - 1) + 1
  OBVIOUS
<1>3. l \in Seq(Timers) /\ ticks \in [Timers -> Nat] /\ Len(l) \in Nat
      /\ IsInjective(l) /\ New(t, l)
  BY <1>1 DEF Lists, New
<1>4. /\ Expired(l, ticks, n - 1) \in 0 .. Len(l)
      /\ \A i \in 1 .. Len(l) : Offset(l, ticks, i) <= n - 1 <=> i <= Expired(l, ticks, n - 1)
  <2>1. n - 1 \in Int
    OBVIOUS
  <2> QED
    BY <1>3, <2>1, ExpiredLaw
<1>5. /\ p \in 1 .. Len(l) + 1 /\ Expired(l, ticks, n - 1) = p - 1
      /\ (Expired(l, ticks, n - 1) < Len(l) <=> p <= Len(l))
  BY <1>2, <1>3, <1>4
<1>6. Before(l, ticks, n, p)
  <2>1. \A i \in 0 .. Len(l) : Offset(l, ticks, i) \in Nat
    BY <1>3, OffsetSum
  <2>2. \A i \in 1 .. Len(l) : Offset(l, ticks, i) \in Nat
    BY <2>1
  <2>3. \A i \in 1 .. Len(l) : Offset(l, ticks, i) < n <=> i < p
    BY <1>2, <1>3, <1>4, <2>2
  <2> QED
    BY <2>3 DEF Before
<1>7. PICK m, x : m = r.list /\ x = r.ticks
  OBVIOUS
<1>8. m = InsertAt(l, p, t) /\ TicksSet(l, ticks, p, t, n - Offset(l, ticks, p - 1), x)
      /\ r = [list |-> m, ticks |-> x]
  BY <1>1, <1>2, <1>5, <1>7 DEF timer_list_insert, TicksSet
<1>9. /\ m \in Seq(Timers) /\ x \in [Timers -> Nat] /\ PutIn(l, ticks, t, n, m, x)
      /\ \A u \in Timers \ {t} : x[u] <= ticks[u]
  <2>1. p \in 1 .. Len(l) + 1
    BY <1>5
  <2> QED
    BY <1>3, <2>1, <1>6, <1>8, InsertedAt
<1>10. r \in Lists
  BY <1>8, <1>9 DEF Lists
<1> QED
  BY <1>1, <1>7, <1>9, <1>10

LEMMA RemoveAtLaw ==
  ASSUME NEW l \in Seq(Timers), NEW p \in 1 .. Len(l)
  PROVE  /\ RemoveAt(l, p) \in Seq(Timers) /\ Len(RemoveAt(l, p)) = Len(l) - 1
         /\ \A i \in 1 .. Len(l) - 1 : i < p => l[i] = RemoveAt(l, p)[i]
         /\ \A i \in 1 .. Len(l) - 1 : i >= p => l[i + 1] = RemoveAt(l, p)[i]
<1> DEFINE before == SubSeq(l, 1, p - 1)  after == SubSeq(l, p + 1, Len(l))  m == RemoveAt(l, p)
<1>0. Len(l) \in Nat /\ p \in Nat /\ p <= Len(l) /\ 1 <= p
  OBVIOUS
<1>1. before \in Seq(Timers) /\ Len(before) = p - 1 /\ \A i \in 1 .. p - 1 : before[i] = l[i]
  BY <1>0
<1>2. /\ after \in Seq(Timers) /\ Len(after) = Len(l) - p
      /\ \A i \in 1 .. Len(l) - p : after[i] = l[i + p]
  BY <1>0
<1>3. m = before \o after
  BY DEF RemoveAt
<1> HIDE DEF before, after, m
<1>4. /\ m \in Seq(Timers) /\ Len(m) = Len(before) + Len(after)
      /\ \A i \in 1 .. Len(before) : m[i] = before[i]
      /\ \A i \in 1 .. Len(after) : m[Len(before) + i] = after[i]
  <2>1. before \in Seq(Timers) /\ after \in Seq(Timers)
    BY <1>1, <1>2
  <2> QED
    BY <1>3, <2>1
<1>5. ASSUME NEW i \in 1 .. Len(l) - 1, i < p PROVE m[i] = l[i]
  <2>1. i \in 1 .. Len(before) /\ i \in 1 .. p - 1
    BY <1>0, <1>1, <1>5
  <2> QED
    BY <1>1, <1>4, <2>1
<1>6. ASSUME NEW i \in 1 .. Len(l) - 1, i >= p PROVE m[i] = l[i + 1]
  <2> DEFINE j == i - (p - 1)
  <2>1. /\ j \in 1 .. Len(after) /\ j \in 1 .. Len(l) - p /\ Len(before) + j = i /\ j + p = i + 1
    BY <1>0, <1>1, <1>2, <1>6
  <2> HIDE DEF j
  <2>2. m[Len(before) + j] = after[j] /\ after[j] = l[j + p]
    BY <1>2, <1>4, <2>1
  <2> QED
    BY <2>1, <2>2
<1>7. Len(m) = Len(l) - 1
  BY <1>0, <1>1, <1>2, <1>4
<1> QED
  BY <1>4, <1>5, <1>6, <1>7 DEF m

CanPutIn(m, x, t, l, ticks) == \E n \in Nat : PutIn(m, x, t, n, l, ticks)

TicksJoined(l, ticks, p, t, x) ==
  x = [u \in Timers |-> IF u = t THEN 0
                        ELSE IF p < Len(l) /\ u = l[p + 1] THEN ticks[u] + ticks[t] ELSE ticks[u]]

(* A list without t, and x, is one that t can be put into.                 *)
LEMMA TakenOut ==
  ASSUME NEW l \in Seq(Timers), IsInjective(l), NEW ticks \in [Timers -> Nat],
         NEW p \in 1 .. Len(l), NEW t, t = l[p],
         NEW m, m = RemoveAt(l, p),
         NEW x, TicksJoined(l, ticks, p, t, x)
  PROVE  /\ m \in Seq(Timers) /\ x \in [Timers -> Nat]
         /\ \A u \in Timers : u # t /\ u \notin Range(l) => x[u] <= ticks[u]
         /\ x[t] = 0
         /\ IsInjective(m) /\ New(t, m) /\ CanPutIn(m, x, t, l, ticks)
<1>0. Len(l) \in Nat /\ p \in Nat /\ p <= Len(l) /\ 1 <= p
  OBVIOUS
<1>1. /\ m \in Seq(Timers) /\ Len(m) = Len(l) - 1
      /\ \A i \in 1 .. Len(l) - 1 : i < p => l[i] = m[i]
      /\ \A i \in 1 .. Len(l) - 1 : i >= p => l[i + 1] = m[i]
  BY RemoveAtLaw
<1>2. /\ \A i \in 1 .. Len(l) : l[i] \in Range(l) /\ l[i] \in Timers
      /\ \A i, j \in 1 .. Len(l) : l[i] = l[j] => i = j
  BY InjectiveLaw
<1>3. \A i \in 1 .. Len(m) : \/ i < p /\ i \in 1 .. Len(l) /\ m[i] = l[i]
                             \/ i >= p /\ i + 1 \in 1 .. Len(l) /\ m[i] = l[i + 1]
  <2> SUFFICES ASSUME NEW i \in 1 .. Len(m)
               PROVE  \/ i < p /\ i \in 1 .. Len(l) /\ m[i] = l[i]
                      \/ i >= p /\ i + 1 \in 1 .. Len(l) /\ m[i] = l[i + 1]
    OBVIOUS
  <2>1. i \in 1 .. Len(l) - 1 /\ i \in 1 .. Len(l) /\ i + 1 \in 1 .. Len(l) /\ (i < p \/ i >= p)
    BY <1>0, <1>1
  <2> QED
    BY <1>1, <2>1
<1>4. t \in Timers /\ t \in Range(l)
  BY <1>2
<1>5. \A u \in Timers : /\ ticks[u] \in Nat /\ ticks[t] \in Nat
                        /\ x[u] = IF u = t THEN 0
                                  ELSE IF p < Len(l) /\ u = l[p + 1] THEN ticks[u] + ticks[t]
                                  ELSE ticks[u]
  BY <1>4 DEF TicksJoined
<1>6. x = [u \in Timers |-> x[u]]
  BY DEF TicksJoined
<1>7. x \in [Timers -> Nat]
  <2>1. \A u \in Timers : x[u] \in Nat
    BY <1>5
  <2> QED
    BY <1>6, <2>1
<1>8. DOMAIN m = 1 .. Len(m) /\ Len(m) \in Nat
  BY <1>1
<1>9. IsInjective(m)
  <2> SUFFICES ASSUME NEW i \in 1 .. Len(m), NEW j \in 1 .. Len(m), m[i] = m[j] PROVE i = j
    BY <1>8 DEF IsInjective
  <2>1. CASE i < p /\ i \in 1 .. Len(l) /\ m[i] = l[i]
    <3>1. CASE j < p /\ j \in 1 .. Len(l) /\ m[j] = l[j]
      BY <1>2, <2>1, <3>1
    <3>2. CASE j >= p /\ j + 1 \in 1 .. Len(l) /\ m[j] = l[j + 1]
      <4>1. i = j + 1
        BY <1>2, <2>1, <3>2
      <4> QED
        BY <1>0, <2>1, <3>2, <4>1
    <3> QED
      BY <1>3, <3>1, <3>2
  <2>2. CASE i >= p /\ i + 1 \in 1 .. Len(l) /\ m[i] = l[i + 1]
    <3>1. CASE j < p /\ j \in 1 .. Len(l) /\ m[j] = l[j]
      <4>1. i + 1 = j
        BY <1>2, <2>2, <3>1
      <4> QED
        BY <1>0, <2>2, <3>1, <4>1
    <3>2. CASE j >= p /\ j + 1 \in 1 .. Len(l) /\ m[j] = l[j + 1]
      <4>1. i + 1 = j + 1
        BY <1>2, <2>2, <3>2
      <4> QED
        BY <4>1
    <3> QED
      BY <1>3, <3>1, <3>2
  <2> QED
    BY <1>3, <2>1, <2>2
<1>10. New(t, m)
  <2> SUFFICES ASSUME NEW i \in 1 .. Len(m), m[i] = t PROVE FALSE
    BY <1>8 DEF New, Range
  <2>1. CASE i < p /\ i \in 1 .. Len(l) /\ m[i] = l[i]
    <3>1. i = p
      BY <1>2, <2>1
    <3> QED
      BY <1>0, <2>1, <3>1
  <2>2. CASE i >= p /\ i + 1 \in 1 .. Len(l) /\ m[i] = l[i + 1]
    <3>1. i + 1 = p
      BY <1>2, <2>2
    <3> QED
      BY <1>0, <2>2, <3>1
  <2> QED
    BY <1>3, <2>1, <2>2
<1>11. Spliced(m, p, t, l)
  <2>1. \A i \in 1 .. Len(m) : (i < p => l[i] = m[i]) /\ (i >= p => l[i + 1] = m[i])
    BY <1>1
  <2> QED
    BY <1>0, <1>1, <2>1 DEF Spliced
<1>12. Offset(m, x, p - 1) \in Nat
  <2>1. p - 1 \in 0 .. Len(m)
    BY <1>0, <1>1
  <2> QED
    BY <1>1, <1>7, <2>1, OffsetSum
<1>13. ticks[t] \in Nat
  BY <1>4
<1> DEFINE n == Offset(m, x, p - 1) + ticks[t]
<1>14. n \in Nat /\ n = Offset(m, x, p - 1) + ticks[t]
  BY <1>12, <1>13
<1> HIDE DEF n
<1>15. p <= Len(m) => /\ p < Len(l) /\ p \in 1 .. Len(m) /\ m[p] = l[p + 1] /\ m[p] # t /\ m[p] \in Timers
                      /\ p + 1 \in 1 .. Len(l)
                      /\ x[m[p]] = ticks[m[p]] + ticks[t]
  <2> SUFFICES ASSUME p <= Len(m)
               PROVE  /\ p < Len(l) /\ p \in 1 .. Len(m) /\ m[p] = l[p + 1] /\ m[p] # t /\ m[p] \in Timers
                      /\ p + 1 \in 1 .. Len(l)
                      /\ x[m[p]] = ticks[m[p]] + ticks[t]
    OBVIOUS
  <2>1. p < Len(l) /\ p \in 1 .. Len(m) /\ p + 1 \in 1 .. Len(l) /\ p + 1 # p
    <3>1. Len(m) = Len(l) - 1
      BY <1>1
    <3> QED
      BY <1>0, <3>1
  <2>2. m[p] = l[p + 1]
    BY <1>0, <1>3, <2>1
  <2>3. m[p] # t /\ m[p] \in Timers
    BY <1>0, <1>2, <2>1, <2>2
  <2> QED
    BY <1>5, <2>1, <2>2, <2>3
<1>16. Shared(m, x, p, t, n, ticks[t], ticks)
  <2>1. ASSUME NEW i \in 1 .. Len(m), i # p PROVE ticks[m[i]] = x[m[i]]
    <3>1. m[i] \in Timers /\ m[i] # t /\ ~(p < Len(l) /\ m[i] = l[p + 1])
      <4>1. CASE i < p /\ i \in 1 .. Len(l) /\ m[i] = l[i]
        <5>1. p < Len(l) => p + 1 \in 1 .. Len(l) /\ i # p + 1
          BY <1>0, <4>1
        <5> QED
          BY <1>0, <1>2, <4>1, <5>1
      <4>2. CASE i > p /\ i + 1 \in 1 .. Len(l) /\ m[i] = l[i + 1]
        <5>1. (p < Len(l) => p + 1 \in 1 .. Len(l)) /\ i + 1 # p + 1 /\ i + 1 # p
          BY <1>0, <4>2
        <5> QED
          BY <1>0, <1>2, <4>2, <5>1
      <4> QED
        BY <1>0, <1>3, <2>1, <4>1, <4>2
    <3> QED
      BY <1>5, <3>1
  <2>2. ASSUME p <= Len(m)
        PROVE  ticks[m[p]] = x[m[p]] - ticks[t] /\ n + (x[m[p]] - ticks[t]) = Offset(m, x, p)
    <3>1. Offset(m, x, p) = Offset(m, x, p - 1) + x[m[p]]
      <4>1. m \in Seq(Timers) /\ p \in 1 .. Len(m)
        BY <1>1, <1>15, <2>2
      <4> QED
        BY <1>7, <4>1, OffsetSum
    <3>2. x[m[p]] \in Nat /\ ticks[m[p]] \in Nat
      BY <1>7, <1>15, <2>2
    <3>3. x[m[p]] = ticks[m[p]] + ticks[t]
      BY <1>15, <2>2
    <3> QED
      <4> DEFINE w == Offset(m, x, p - 1)  y == Offset(m, x, p)  old == x[m[p]]
                 own == ticks[t]  kept == ticks[m[p]]
      <4>1. w \in Nat /\ old \in Nat /\ own \in Nat /\ kept \in Nat /\ y = w + old /\ n = w + own /\ old = kept + own
        BY <1>12, <1>13, <1>14, <3>1, <3>2, <3>3
      <4> HIDE DEF w, y, old, own, kept
      <4>2. kept = old - own /\ n + (old - own) = y
        BY <4>1, Regained, SMTT(30)
      <4> QED
        BY <4>2 DEF y, old, own, kept
  <2> QED
    BY <1>14, <2>1, <2>2 DEF Shared
<1>17. PutIn(m, x, t, n, l, ticks)
  <2>1. p \in 1 .. Len(m) + 1
    BY <1>0, <1>1
  <2> QED
    BY <1>1, <1>4, <1>7, <1>9, <1>10, <1>11, <1>13, <1>14, <1>16, <2>1, Inserted
<1>18. \A u \in Timers : u # t /\ u \notin Range(l) => x[u] <= ticks[u]
  <2>1. p < Len(l) => l[p + 1] \in Range(l)
    BY <1>0, <1>2
  <2> QED
    BY <1>5, <2>1
<1>19. x[t] = 0
  BY <1>4, <1>5
<1> QED
  BY <1>1, <1>7, <1>9, <1>10, <1>14, <1>17, <1>18, <1>19 DEF CanPutIn

LEMMA RemoveLaw ==
  ASSUME NEW s \in Lists, IsInjective(s.list), NEW t \in Range(s.list),
         NEW r, r = timer_list_remove(s, t)
  PROVE  /\ r \in Lists /\ IsInjective(r.list) /\ Range(r.list) = Range(s.list) \ {t}
         /\ \A u \in Range(r.list) : Expiry(r.list, r.ticks, u) = Expiry(s.list, s.ticks, u)
         /\ \A u \in Timers \ Range(r.list) : r.ticks[u] <= s.ticks[u]
         /\ r.list # << >> /\ Head(s.list) # t => Head(r.list) = Head(s.list)
<1>1. PICK l, ticks : l = s.list /\ ticks = s.ticks
  OBVIOUS
<1>2. l \in Seq(Timers) /\ ticks \in [Timers -> Nat] /\ IsInjective(l) /\ t \in Range(l)
  BY <1>1 DEF Lists
<1>3. PICK p : p = Place(l, t)
  OBVIOUS
<1>4. p \in 1 .. Len(l) /\ t = l[p] /\ t \in Timers
  BY <1>2, <1>3, PlaceLaw, InjectiveLaw
<1>5. PICK m, x : m = r.list /\ x = r.ticks
  OBVIOUS
<1>6. /\ r = [list |-> m, ticks |-> x] /\ m = RemoveAt(l, p)
      /\ TicksJoined(l, ticks, p, t, x)
  BY <1>1, <1>3, <1>5 DEF timer_list_remove, Place, TicksJoined
<1>7. /\ m \in Seq(Timers) /\ x \in [Timers -> Nat]
      /\ \A u \in Timers : u # t /\ u \notin Range(l) => x[u] <= ticks[u]
      /\ x[t] = 0
      /\ IsInjective(m) /\ New(t, m) /\ CanPutIn(m, x, t, l, ticks)
  BY <1>2, <1>4, <1>6, TakenOut
<1>8. PICK n \in Nat : PutIn(m, x, t, n, l, ticks)
  BY <1>7 DEF CanPutIn
<1>9. Range(m) = Range(l) \ {t} /\ \A u \in Range(m) : Expiry(m, x, u) = Expiry(l, ticks, u)
  BY <1>7, <1>8 DEF PutIn, New
<1>10. m # << >> /\ Head(l) # t => Head(m) = Head(l)
  BY <1>8 DEF PutIn
<1>11. \A u \in Timers \ Range(m) : x[u] <= ticks[u]
  <2>1. ticks[t] \in Nat
    BY <1>2, <1>4
  <2> QED
    BY <1>7, <1>9, <2>1
<1>12. r \in Lists
  BY <1>6, <1>7 DEF Lists
<1> QED
  BY <1>1, <1>5, <1>7, <1>9, <1>10, <1>11, <1>12

(* The first k timers are gone, and with them all of the n ticks.          *)
TicksLeft(l, ticks, k, rest, x) ==
  x = [t \in Timers |-> IF \E i \in 1 .. k : l[i] = t THEN 0
                        ELSE IF k < Len(l) /\ t = l[k + 1] THEN ticks[t] - rest ELSE ticks[t]]

(* The timers left expire n ticks sooner.                                  *)
CutOff(l, ticks, k, m, x) ==
  /\ IsInjective(m) /\ Range(m) = {l[i] : i \in k + 1 .. Len(l)}
  /\ \A u \in Range(m) : Expiry(m, x, u) = Expiry(l, ticks, u) - Offset(l, ticks, k)

LEMMA SubSeqLaw ==
  ASSUME NEW l \in Seq(Timers), NEW k \in 0 .. Len(l)
  PROVE  /\ SubSeq(l, k + 1, Len(l)) \in Seq(Timers) /\ Len(SubSeq(l, k + 1, Len(l))) = Len(l) - k
         /\ \A i \in 1 .. Len(l) - k : SubSeq(l, k + 1, Len(l))[i] = l[i + k]
<1>1. Len(l) \in Nat /\ k \in Nat /\ k <= Len(l)
  OBVIOUS
<1> QED
  BY <1>1

LEMMA Left ==
  ASSUME NEW l \in Seq(Timers), IsInjective(l), NEW ticks \in [Timers -> Nat],
         NEW k \in 0 .. Len(l), NEW m, m = SubSeq(l, k + 1, Len(l)),
         NEW x, TicksLeft(l, ticks, k, 0, x)
  PROVE  /\ m \in Seq(Timers) /\ x \in [Timers -> Nat] /\ CutOff(l, ticks, k, m, x)
         /\ \A u \in Timers : x[u] <= ticks[u]
<1>0. Len(l) \in Nat /\ k \in Nat /\ k <= Len(l) /\ Len(l) - k \in Nat
  OBVIOUS
<1>1. /\ m \in Seq(Timers) /\ Len(m) = Len(l) - k
      /\ \A i \in 1 .. Len(l) - k : m[i] = l[i + k]
  BY SubSeqLaw
<1>2. /\ \A i \in 1 .. Len(l) : l[i] \in Range(l) /\ l[i] \in Timers
      /\ \A i, j \in 1 .. Len(l) : l[i] = l[j] => i = j
  BY InjectiveLaw
<1>3. \A i \in 1 .. Len(m) : i + k \in k + 1 .. Len(l) /\ i + k \in 1 .. Len(l) /\ m[i] = l[i + k]
  <2> SUFFICES ASSUME NEW i \in 1 .. Len(m)
               PROVE  i + k \in k + 1 .. Len(l) /\ i + k \in 1 .. Len(l) /\ m[i] = l[i + k]
    OBVIOUS
  <2>1. i \in 1 .. Len(l) - k
    BY <1>1
  <2>2. i + k \in k + 1 .. Len(l) /\ i + k \in 1 .. Len(l)
    BY <1>0, <2>1
  <2> QED
    BY <1>1, <2>1, <2>2
<1>4. \A t \in Timers : /\ ticks[t] \in Nat
                        /\ x[t] = IF \E i \in 1 .. k : l[i] = t THEN 0 ELSE ticks[t]
  <2> SUFFICES ASSUME NEW t \in Timers
               PROVE  ticks[t] \in Nat /\ x[t] = IF \E i \in 1 .. k : l[i] = t THEN 0 ELSE ticks[t]
    OBVIOUS
  <2>1. ticks[t] \in Nat /\ ticks[t] - 0 = ticks[t]
    OBVIOUS
  <2>2. x[t] = IF \E i \in 1 .. k : l[i] = t THEN 0
               ELSE IF k < Len(l) /\ t = l[k + 1] THEN ticks[t] - 0 ELSE ticks[t]
    BY DEF TicksLeft
  <2> QED
    BY <2>1, <2>2
<1>5. x \in [Timers -> Nat]
  <2>1. x = [t \in Timers |-> x[t]]
    BY DEF TicksLeft
  <2>2. ASSUME NEW t \in Timers PROVE x[t] \in Nat
    <3>1. x[t] = 0 \/ x[t] = ticks[t]
      BY <1>4
    <3> QED
      BY <3>1
  <2> QED
    BY <2>1, <2>2
<1>6. \A u \in Timers : x[u] <= ticks[u]
  <2> SUFFICES ASSUME NEW u \in Timers PROVE x[u] <= ticks[u]
    OBVIOUS
  <2>1. ticks[u] \in Nat /\ (x[u] = 0 \/ x[u] = ticks[u])
    BY <1>4
  <2> QED
    BY <2>1
<1>7. DOMAIN m = 1 .. Len(m) /\ Len(m) \in Nat
  BY <1>1
<1>8. IsInjective(m)
  <2> SUFFICES ASSUME NEW i \in 1 .. Len(m), NEW j \in 1 .. Len(m), m[i] = m[j] PROVE i = j
    BY <1>7 DEF IsInjective
  <2>1. i + k = j + k
    BY <1>2, <1>3
  <2> QED
    BY <1>0, <1>7, <2>1
<1>9. Range(m) = {l[i] : i \in k + 1 .. Len(l)}
  <2>1. ASSUME NEW u \in Range(m) PROVE u \in {l[i] : i \in k + 1 .. Len(l)}
    <3>1. PICK i \in 1 .. Len(m) : m[i] = u
      BY <1>7 DEF Range
    <3> QED
      BY <1>3, <3>1
  <2>2. ASSUME NEW j \in k + 1 .. Len(l) PROVE l[j] \in Range(m)
    <3> DEFINE i == j - k
    <3>1. i \in 1 .. Len(l) - k /\ i + k = j
      BY <1>0
    <3> HIDE DEF i
    <3>2. m[i] = l[j] /\ i \in 1 .. Len(m)
      BY <1>1, <3>1
    <3> QED
      BY <1>7, <3>2 DEF Range
  <2> QED
    BY <2>1, <2>2
<1> DEFINE off == Offset(l, ticks, k)
           T == {i \in Nat : Offset(m, x, i) = Offset(l, ticks, i + k) - off}
<1>10. /\ Offset(l, ticks, 0) = 0 /\ \A i \in 0 .. Len(l) : Offset(l, ticks, i) \in Nat
       /\ \A i \in 1 .. Len(l) : Offset(l, ticks, i) = Offset(l, ticks, i - 1) + ticks[l[i]]
  BY OffsetSum
<1>11. /\ Offset(m, x, 0) = 0
       /\ \A i \in 1 .. Len(m) : Offset(m, x, i) = Offset(m, x, i - 1) + x[m[i]]
  BY <1>1, <1>5, OffsetSum
<1>12. off \in Nat
  BY <1>0, <1>10
<1>13. 0 \in T
  <2>1. 0 + k = k
    BY <1>0
  <2> QED
    BY <1>11, <1>12, <2>1
<1>14. ASSUME NEW i \in 0 .. Len(m) - 1, i \in T PROVE i + 1 \in T
  <2> DEFINE j == i + 1  jk == j + k
  <2>1. /\ j \in 1 .. Len(m) /\ j - 1 = i /\ j \in Nat
        /\ jk \in 1 .. Len(l) /\ jk - 1 = i + k /\ i + k \in 0 .. Len(l) /\ jk = j + k /\ jk > k
    BY <1>0, <1>1, <1>7
  <2>2. Offset(m, x, i) = Offset(l, ticks, i + k) - off
    BY <1>14
  <2> HIDE DEF j, jk
  <2>3. m[j] = l[jk]
    BY <1>3, <2>1
  <2>4. x[l[jk]] = ticks[l[jk]]
    <3>1. \A q \in 1 .. k : q \in 1 .. Len(l) /\ q # jk
      BY <1>0, <2>1
    <3>2. ~\E q \in 1 .. k : l[q] = l[jk]
      BY <1>2, <2>1, <3>1
    <3>3. l[jk] \in Timers
      BY <1>2, <2>1
    <3> QED
      BY <1>4, <3>2, <3>3
  <2>5. Offset(m, x, j) = Offset(m, x, i) + x[m[j]]
    BY <1>11, <2>1
  <2>6. Offset(l, ticks, jk) = Offset(l, ticks, i + k) + ticks[l[jk]]
    BY <1>10, <2>1
  <2>7. Offset(l, ticks, i + k) \in Nat /\ ticks[l[jk]] \in Nat
    BY <1>2, <1>4, <1>10, <2>1
  <2>8. Offset(m, x, j) = Offset(l, ticks, jk) - off
    <3> DEFINE a == Offset(l, ticks, i + k)  b == ticks[l[jk]]  d == off
    <3>1. Offset(m, x, j) = (a - d) + b
      BY <2>2, <2>3, <2>4, <2>5
    <3>2. Offset(l, ticks, jk) = a + b
      BY <2>6
    <3>3. a \in Nat /\ b \in Nat /\ d \in Nat
      BY <1>12, <2>7
    <3> HIDE DEF a, b, d
    <3>4. (a - d) + b = (a + b) - d
      BY <3>3
    <3> QED
      BY <3>1, <3>2, <3>4 DEF d
  <2> QED
    BY <2>1, <2>8 DEF j
<1>15. \A i \in 0 .. Len(m) : i \in T
  <2> HIDE DEF T
  <2> QED
    BY <1>7, <1>13, <1>14, Upwards
<1>16. ASSUME NEW u \in Range(m) PROVE Expiry(m, x, u) = Expiry(l, ticks, u) - off
  <2>1. PICK i \in 1 .. Len(m) : m[i] = u
    BY <1>7 DEF Range
  <2>2. Expiry(m, x, m[i]) = Offset(m, x, i)
    BY <1>1, <1>5, <1>8, ExpiryLaw
  <2>3. i + k \in 1 .. Len(l) /\ m[i] = l[i + k]
    BY <1>3
  <2> DEFINE q == i + k
  <2> HIDE DEF q
  <2>4. Expiry(l, ticks, l[q]) = Offset(l, ticks, q)
    BY <2>3, ExpiryLaw DEF q
  <2>5. Offset(m, x, i) = Offset(l, ticks, i + k) - off
    BY <1>7, <1>15
  <2> QED
    BY <2>1, <2>2, <2>3, <2>4, <2>5 DEF q
<1> QED
  BY <1>1, <1>5, <1>6, <1>8, <1>9, <1>16 DEF CutOff

(* A list of timers, each once, with ticks that are no negative numbers.   *)
Listing == list \in Seq(Timers) /\ IsInjective(list) /\ ticks_to_expire \in [Timers -> Nat]

LEMMA RemainingLaw ==
  ASSUME Listing, NEW k \in 0 .. Len(list), NEW n, n = Offset(list, ticks_to_expire, k),
         NEW r, r = Remaining(k, n)
  PROVE  /\ r \in Lists /\ CutOff(list, ticks_to_expire, k, r.list, r.ticks)
         /\ \A u \in Timers : r.ticks[u] <= ticks_to_expire[u]
<1>1. list \in Seq(Timers) /\ IsInjective(list) /\ ticks_to_expire \in [Timers -> Nat]
  BY DEF Listing
<1>2. PICK m, x : m = r.list /\ x = r.ticks
  OBVIOUS
<1>3. n \in Nat
  BY <1>1, OffsetSum
<1>4. n - Offset(list, ticks_to_expire, k) = 0
  BY <1>3
<1>5. /\ r = [list |-> m, ticks |-> x] /\ m = SubSeq(list, k + 1, Len(list))
      /\ TicksLeft(list, ticks_to_expire, k, n - Offset(list, ticks_to_expire, k), x)
  BY <1>2 DEF Remaining, TicksLeft
<1>6. TicksLeft(list, ticks_to_expire, k, 0, x)
  BY <1>4, <1>5
<1>7. /\ m \in Seq(Timers) /\ x \in [Timers -> Nat] /\ CutOff(list, ticks_to_expire, k, m, x)
      /\ \A u \in Timers : x[u] <= ticks_to_expire[u]
  BY <1>1, <1>5, <1>6, Left
<1> QED
  BY <1>2, <1>5, <1>7 DEF Lists

(* A restarted timer expires so many ticks after the last known value.     *)
Again(i, n) == TicksFrom(ticks_diff_get(Offset(list, ticks_to_expire, i), n), periodic[list[i]])

(* One step of the restarts, ...                                           *)
NextAfter(y, i, k, n) ==
  IF list[k + 1 - i] \in Restarted(k) THEN timer_list_insert(y, list[k + 1 - i], Again(k + 1 - i, n))
  ELSE y

(* ... and what i of them come to.                                         *)
Back(k, i) == {t \in Restarted(k) : Place(list, t) > k - i}

Redone(s, k, n, i, y) ==
  /\ y \in Lists /\ IsInjective(y.list) /\ Range(y.list) = Range(s.list) \cup Back(k, i)
  /\ \A u \in Range(s.list) : Expiry(y.list, y.ticks, u) = Expiry(s.list, s.ticks, u)
  /\ \A u \in Back(k, i) : Expiry(y.list, y.ticks, u) = Again(Place(list, u), n)
  /\ \A u \in Timers \ Range(y.list) : y.ticks[u] <= s.ticks[u]

LEMMA RestartSteps ==
  ASSUME NEW k \in Nat, NEW s, NEW n
  PROVE  \E f : /\ f[0] = s /\ Restart(s, k, n) = f[k]
                /\ \A i \in 1 .. k : f[i] = NextAfter(f[i - 1], i, k, n)
<1> DEFINE Links(f, j) == f = [i \in 0 .. j |-> IF i = 0 THEN s ELSE NextAfter(f[i - 1], i, k, n)]
           T == {j \in Nat : \E f : Links(f, j)}
<1>1. 0 \in T
  <2>1. Links([i \in 0 .. 0 |-> s], 0)
    OBVIOUS
  <2> QED
    BY <2>1
<1>2. ASSUME NEW j \in 0 .. k - 1, j \in T PROVE j + 1 \in T
  <2>1. PICK f : Links(f, j)
    BY <1>2
  <2> DEFINE g == [i \in 0 .. j + 1 |-> IF i <= j THEN f[i] ELSE NextAfter(f[j], j + 1, k, n)]
  <2>2. ASSUME NEW i \in 0 .. j + 1
        PROVE  g[i] = IF i = 0 THEN s ELSE NextAfter(g[i - 1], i, k, n)
    <3>1. CASE i = 0
      BY <2>1, <3>1
    <3>2. CASE i \in 1 .. j
      <4>1. i - 1 \in 0 .. j /\ i \in 0 .. j /\ i \in 0 .. j + 1 /\ i - 1 \in 0 .. j + 1 /\ i # 0
        BY <3>2
      <4>2. g[i] = f[i] /\ g[i - 1] = f[i - 1]
        BY <4>1
      <4>3. f[i] = [q \in 0 .. j |-> IF q = 0 THEN s ELSE NextAfter(f[q - 1], q, k, n)][i]
        BY <2>1
      <4> QED
        BY <4>1, <4>2, <4>3
    <3>3. CASE i = j + 1
      <4>1. g[i] = NextAfter(f[j], i, k, n) /\ g[i - 1] = f[j] /\ i # 0
        BY <3>3
      <4> QED
        BY <4>1
    <3> QED
      BY <3>1, <3>2, <3>3
  <2>3. g = [i \in 0 .. j + 1 |-> g[i]]
    OBVIOUS
  <2> HIDE DEF g
  <2>4. Links(g, j + 1)
    BY <2>2, <2>3
  <2> QED
    BY <2>4
<1>3. k \in T
  <2> HIDE DEF T
  <2>1. \A j \in 0 .. k : j \in T
    BY <1>1, <1>2, Upwards
  <2> QED
    BY <2>1
<1> DEFINE after == CHOOSE f : Links(f, k)
<1>4. Links(after, k)
  BY <1>3
<1>5. Restart(s, k, n) = after[k]
  BY DEF Restart, NextAfter, Again
<1> HIDE DEF after
<1>6. after[0] = s /\ \A i \in 1 .. k : after[i] = NextAfter(after[i - 1], i, k, n)
  BY <1>4
<1> QED
  BY <1>5, <1>6

LEMMA RestartLaw ==
  ASSUME Listing, NEW k \in 0 .. Len(list), NEW n \in Nat, NEW s \in Lists, IsInjective(s.list),
         \A t \in Restarted(k) : New(t, s.list) /\ Again(Place(list, t), n) \in Nat,
         NEW r, r = Restart(s, k, n)
  PROVE  Redone(s, k, n, k, r)
<1>0. k \in Nat /\ Len(list) \in Nat /\ k <= Len(list)
  BY DEF Listing
<1>1. PICK f : /\ f[0] = s /\ Restart(s, k, n) = f[k]
               /\ \A i \in 1 .. k : f[i] = NextAfter(f[i - 1], i, k, n)
  BY <1>0, RestartSteps
<1>2. /\ \A i \in 1 .. k : list[i] \in Timers /\ Place(list, list[i]) = i
      /\ \A t \in Restarted(k) : t \in Timers /\ Place(list, t) \in 1 .. k /\ list[Place(list, t)] = t
  <2>1. /\ \A i \in 1 .. Len(list) : Place(list, list[i]) = i
        /\ \A i \in 1 .. Len(list) : list[i] \in Timers
    BY PlaceLaw, InjectiveLaw DEF Listing
  <2>2. \A i \in 1 .. k : i \in 1 .. Len(list)
    BY <1>0
  <2> QED
    BY <2>1, <2>2 DEF Restarted
<1> DEFINE T == {i \in Nat : Redone(s, k, n, i, f[i])}
<1>3. 0 \in T
  <2>1. Back(k, 0) = {}
    BY <1>0, <1>2 DEF Back
  <2>2. \A u \in Timers : s.ticks[u] \in Nat
    BY DEF Lists
  <2>3. Redone(s, k, n, 0, s)
    BY <2>1, <2>2 DEF Redone
  <2> QED
    BY <1>1, <2>3
<1>4. ASSUME NEW i \in 0 .. k - 1, i \in T PROVE i + 1 \in T
  <2>1. Redone(s, k, n, i, f[i])
    BY <1>4
  <2> DEFINE j == k + 1 - (i + 1)
  <2>2. PICK t, y, z : t = list[k + 1 - (i + 1)] /\ y = f[i] /\ z = f[i + 1]
    OBVIOUS
  <2>3. j \in 1 .. k /\ i + 1 \in 1 .. k /\ i + 1 - 1 = i /\ j = k - i /\ k - (i + 1) = j - 1 /\ i + 1 \in Nat
    BY <1>0
  <2>4. z = NextAfter(y, i + 1, k, n)
    BY <1>1, <2>2, <2>3
  <2>5. t = list[j]
    BY <2>2
  <2>6. z = IF t \in Restarted(k) THEN timer_list_insert(y, t, Again(j, n)) ELSE y
    BY <2>2, <2>4 DEF NextAfter
  <2> HIDE DEF j
  <2>7. t \in Timers /\ Place(list, t) = j
    BY <1>2, <2>3, <2>5
  <2>8. ASSUME NEW u \in Restarted(k)
        PROVE  u \in Back(k, i + 1) <=> u \in Back(k, i) \/ u = t
    <3>1. Place(list, u) \in 1 .. k /\ list[Place(list, u)] = u
      BY <1>2
    <3>2. u \in Back(k, i) <=> Place(list, u) > j
      BY <2>3 DEF Back
    <3>3. u \in Back(k, i + 1) <=> Place(list, u) > j - 1
      BY <2>3 DEF Back
    <3>4. u = t <=> Place(list, u) = j
      BY <2>5, <2>7, <3>1
    <3> QED
      BY <2>3, <3>1, <3>2, <3>3, <3>4
  <2>9. \A u : u \in Back(k, i) \/ u \in Back(k, i + 1) => u \in Restarted(k)
    BY DEF Back
  <2>10. t \notin Back(k, i)
    BY <1>0, <2>3, <2>7 DEF Back
  <2>11. /\ y \in Lists /\ IsInjective(y.list) /\ Range(y.list) = Range(s.list) \cup Back(k, i)
         /\ \A u \in Range(s.list) : Expiry(y.list, y.ticks, u) = Expiry(s.list, s.ticks, u)
         /\ \A u \in Back(k, i) : Expiry(y.list, y.ticks, u) = Again(Place(list, u), n)
         /\ \A u \in Timers \ Range(y.list) : y.ticks[u] <= s.ticks[u]
    BY <2>1, <2>2 DEF Redone
  <2>12. CASE t \in Restarted(k)
    <3>1. New(t, s.list) /\ Again(j, n) \in Nat
      BY <2>7, <2>12
    <3>2. New(t, y.list)
      BY <2>10, <2>11, <3>1 DEF New
    <3>3. z = timer_list_insert(y, t, Again(j, n))
      BY <2>6, <2>12
    <3>4. PICK a \in Nat : a = Again(j, n)
      BY <3>1
    <3>5. z = timer_list_insert(y, t, a)
      BY <3>3, <3>4
    <3>6. /\ z \in Lists /\ PutIn(y.list, y.ticks, t, a, z.list, z.ticks)
          /\ \A u \in Timers \ {t} : z.ticks[u] <= y.ticks[u]
      BY <2>7, <2>11, <3>2, <3>5, InsertLaw
    <3>7. Back(k, i + 1) = Back(k, i) \cup {t}
      BY <2>8, <2>9, <2>12
    <3>8. /\ IsInjective(z.list) /\ Range(z.list) = Range(y.list) \cup {t}
          /\ Expiry(z.list, z.ticks, t) = a
          /\ \A u \in Range(y.list) : Expiry(z.list, z.ticks, u) = Expiry(y.list, y.ticks, u)
      BY <3>6 DEF PutIn
    <3>9. Range(z.list) = Range(s.list) \cup Back(k, i + 1)
      BY <2>11, <3>7, <3>8
    <3>10. \A u \in Range(s.list) : Expiry(z.list, z.ticks, u) = Expiry(s.list, s.ticks, u)
      BY <2>11, <3>8
    <3>11. \A u \in Back(k, i + 1) : Expiry(z.list, z.ticks, u) = Again(Place(list, u), n)
      BY <2>7, <2>11, <3>4, <3>7, <3>8
    <3>12. \A u \in Timers \ Range(z.list) : z.ticks[u] <= s.ticks[u]
      <4> SUFFICES ASSUME NEW u \in Timers, u \notin Range(z.list) PROVE z.ticks[u] <= s.ticks[u]
        OBVIOUS
      <4>1. z.ticks[u] <= y.ticks[u] /\ y.ticks[u] <= s.ticks[u]
        BY <2>11, <3>6, <3>8
      <4>2. z.ticks[u] \in Nat /\ y.ticks[u] \in Nat /\ s.ticks[u] \in Nat
        BY <2>11, <3>6 DEF Lists
      <4> QED
        BY <4>1, <4>2
    <3>13. Redone(s, k, n, i + 1, z)
      BY <3>6, <3>8, <3>9, <3>10, <3>11, <3>12 DEF Redone
    <3> QED
      BY <2>2, <2>3, <3>13
  <2>13. CASE t \notin Restarted(k)
    <3>1. Back(k, i + 1) = Back(k, i)
      BY <2>8, <2>9, <2>13
    <3>2. z = y
      BY <2>6, <2>13
    <3>3. Redone(s, k, n, i + 1, z)
      BY <2>11, <3>1, <3>2 DEF Redone
    <3> QED
      BY <2>2, <2>3, <3>3
  <2> QED
    BY <2>12, <2>13
<1>5. \A i \in 0 .. k : i \in T
  <2> HIDE DEF T
  <2> QED
    BY <1>0, <1>3, <1>4, Upwards
<1>6. k \in T
  <2> HIDE DEF T
  <2> QED
    BY <1>0, <1>5
<1> QED
  BY <1>1, <1>6
----------------------------------------------------------------------------
(* The invariant.                                                          *)

Listed == Range(list)
When   == [t \in Listed |-> Expiry(list, ticks_to_expire, t)]

(* The timers whose handlers RTC1 has called, and SWI has yet to remove.   *)
Taken == {t \in Listed : elapsed # NoTicks /\ When[t] <= elapsed}

N == Cardinality(Timers)

(* What one update of the list adds to the compare value, what the first   *)
(* may be late by, what the first after c updates may, and what all may.   *)
Delay     == OffsetMin - 1 + MaxLag
FirstLate == 2 * MaxLag + 2
Late(c)   == FirstLate + c * Delay
AllLate   == MaxLate - MaxLag

(* Of timers that expire at w none does long before x; after c of them     *)
(* have been stopped that were due at about this time, there are c less to *)
(* go on so.                                                               *)
Horizon(x, c) == x + (N - 1 - c) * Delay
Close(w, x, c) == {t \in DOMAIN w : w[t] <= Horizon(x, c)}
Chain(w, x, c) ==
  /\ \A t \in DOMAIN w : x <= w[t] + Late(c)
  /\ c > 0 => Cardinality(Close(w, x, c)) + c <= N

Starting(t) == op.type = "start" /\ op.timer = t
Stopped(t)  == call = <<"stopping", t>> \/ (op.type = "stop" /\ op.timer = t)

(* Who is in the list, and why.                                            *)
Members ==
  /\ \A t \in Timers : is_running[t] => t \in Listed \ Taken
  /\ \A t \in Listed : periodic[t] # 0 <=> t \in Repeated
  /\ \A t \in Listed \ Taken : is_running[t] \/ Stopped(t)
  /\ \A t \in want : (t \in Listed /\ (is_running[t] \/ (t \in Taken /\ t \in Repeated))) \/ Starting(t)
  /\ \A t \in Listed \ want : Stopped(t) \/ op.type = "stop_all" \/ (t \in Taken /\ t \notin Repeated)
  /\ \A t \in want : ~Stopped(t) /\ op.type # "stop_all"
  /\ op.type = "start" => op.timer \in want

(* How long the handlers have still to wait.                               *)
Due ==
  \A t \in want :
    left[t] = IF is_running[t] THEN When[t] - counter
              ELSE IF t \in Taken /\ t \in Repeated THEN When[t] + periodic[t] - counter
              ELSE op.ticks - op.waited

(* What comes with what.                                                   *)
Phases ==
  /\ deaf => level = "post" /\ cc = (counter + 1) % Modulus
  /\ swi_pending => level = "thread"
  /\ elapsed # NoTicks => swi_pending /\ list # << >>
  /\ op # NoOp => (call = <<"queued">> \/ swi_pending) /\ level = "thread"
  /\ \A t \in Timers : call = <<"stopping", t>> => op = NoOp
  /\ level \in {"set", "post"} => list # << >> /\ rtc1_running
  /\ level = "thread" => (rtc1_running <=> list # << >>)
  /\ ~rtc1_running => counter = 0
  /\ level = "thread" /\ list = << >> => ~rtc1_pending

Started ==
  op.type = "start" =>
    /\ op.at < HalfRange /\ op.at + op.waited = counter
    /\ elapsed = NoTicks =>
         /\ op.waited <= (IF call = <<"queued">> THEN 0 ELSE MaxLag) + lag
         /\ rtc1_pending => counter >= cc
    /\ elapsed # NoTicks =>
         /\ counter >= cc
         /\ IF rtc1_pending THEN op.waited <= 2 * MaxLag + lag /\ counter = cc + lag
            ELSE op.waited <= 3 * MaxLag + lag

(* No timer is far enough off to meet the wrap of the counter.             *)
Near == \A t \in Listed : When[t] + MaxLate + MaxLag <= Modulus - 2

(* The compare event is to come or has come, and comes in time.            *)
Armed ==
  level = "thread" /\ list # << >> /\ elapsed = NoTicks =>
    /\ IF rtc1_pending THEN counter <= cc + lag ELSE counter < cc
    /\ \E c \in 0 .. N - 1 : Chain(When, cc, c) /\ (c > 0 => cc <= counter + OffsetMin)

(* Handlers have been called.                                              *)
Called ==
  elapsed # NoTicks =>
    /\ elapsed \in 0 .. counter
    /\ counter <= cc + lag + (IF rtc1_pending THEN 0 ELSE MaxLag)
    /\ \A t \in Listed : cc <= When[t] + AllLate /\ elapsed <= When[t] + MaxLate
    /\ \A t \in Listed \ Taken : When[t] > counter - lag
    /\ IF Taken = {} THEN elapsed = 0 ELSE \E t \in Taken : When[t] = elapsed

(* SWI sets the compare register.                                          *)
Updating ==
  level # "thread" /\ list # << >> =>
    /\ \E c \in 0 .. N - 1 : Chain(When, counter - lag + MaxLag + OffsetMin, c)
    /\ level \in {"set", "post"} => pre <= counter /\ counter - lag <= pre
    /\ level = "post" => \/ cc = pre + OffsetMin
                         \/ cc >= pre + OffsetMin /\ \A t \in Listed : cc <= When[t]

TimerInv ==
  /\ TypeOK /\ Members /\ Due /\ Phases /\ Started /\ Near /\ Armed /\ Called /\ Updating

----------------------------------------------------------------------------
(* Arithmetic about the constants.                                         *)

LEMMA Numbers ==
  /\ MaxLag \in Nat /\ MaxLag >= 1 /\ Modulus \in Nat /\ Modulus >= 1 /\ N \in Nat
  /\ OffsetMin = 3 /\ NoTicks = -1 /\ MinTimeout = 5
  /\ Delay = 2 + MaxLag /\ FirstLate = 2 * MaxLag + 2
  /\ MaxLate \in Nat /\ AllLate \in Int /\ AllLate = MaxLate - MaxLag
  /\ MaxLate >= 2 * MaxLag
<1>1. MaxLag \in Nat /\ MaxLag >= 1 /\ Modulus \in Nat /\ Modulus >= 1 /\ IsFiniteSet(Timers)
  BY AppTimerAssumption
<1>2. N \in Nat
  BY <1>1, FS_CardinalityType DEF N
<1>3. Delay = 2 + MaxLag /\ FirstLate = 2 * MaxLag + 2 /\ MaxLate = N * Delay + 2 * MaxLag
  BY <1>1 DEF Delay, FirstLate, MaxLate, OffsetMin, N
<1>4. Delay \in Nat
  BY <1>1, <1>3
<1>5. N * Delay \in Nat
  BY <1>2, <1>4
<1> QED
  BY <1>1, <1>2, <1>3, <1>5 DEF OffsetMin, NoTicks, MinTimeout, AllLate

LEMMA LateLaw ==
  ASSUME NEW c \in 0 .. N - 1
  PROVE  /\ c \in Nat /\ N >= 1 /\ 0 \in 0 .. N - 1 /\ N - 1 - c \in Nat
         /\ Late(c) \in Nat /\ FirstLate <= Late(c) /\ Late(c) <= AllLate
         /\ Late(0) = FirstLate /\ Late(c + 1) = Late(c) + Delay
         /\ MaxLate >= 3 * MaxLag + 2
<1>1. N \in Nat /\ MaxLag \in Nat /\ Delay = 2 + MaxLag /\ FirstLate = 2 * MaxLag + 2 /\ N >= 1 /\ c \in Nat
  BY Numbers
<1>2. MaxLate = N * Delay + 2 * MaxLag
  BY <1>1 DEF MaxLate, Delay, N
<1>3. Delay \in Nat
  BY <1>1
<1>4. c * Delay \in Nat /\ (N - 1 - c) * Delay \in Nat /\ N - 1 - c \in Nat
  BY <1>1, <1>3
<1>5. N * Delay = c * Delay + (N - 1 - c) * Delay + Delay
  BY <1>1, <1>3
<1>6. (c + 1) * Delay = c * Delay + Delay /\ 0 * Delay = 0
  BY <1>1, <1>3
<1>7. Late(c) = FirstLate + c * Delay /\ Late(0) = FirstLate + 0 * Delay
      /\ Late(c + 1) = FirstLate + (c + 1) * Delay
  BY DEF Late
<1>8. AllLate = MaxLate - MaxLag
  BY DEF AllLate
<1> DEFINE a == c * Delay  b == (N - 1 - c) * Delay  d == N * Delay  e == (c + 1) * Delay  z == 0 * Delay
<1>9. /\ a \in Nat /\ b \in Nat /\ d = a + b + Delay /\ e = a + Delay /\ z = 0
      /\ Late(c) = FirstLate + a /\ Late(0) = FirstLate + z /\ Late(c + 1) = FirstLate + e
      /\ MaxLate = d + 2 * MaxLag
  BY <1>2, <1>4, <1>5, <1>6, <1>7
<1> HIDE DEF a, b, d, e, z
<1> QED
  BY <1>1, <1>3, <1>4, <1>8, <1>9

LEMMA HorizonLaw ==
  ASSUME NEW c \in 0 .. N - 1, NEW x \in Int
  PROVE  /\ Horizon(x, c) \in Int /\ Horizon(x, c) >= x
         /\ Horizon(x, c) <= x + MaxLate - 3 * MaxLag - 2
         /\ c > 0 => Horizon(x, c) <= x + MaxLate - 4 * MaxLag - 4
         /\ Horizon(x, c + 1) \in Int /\ Horizon(x, c + 1) + Delay = Horizon(x, c)
         /\ \A y \in Int : y <= x => Horizon(y, c) <= Horizon(x, c) /\ Horizon(y, c) \in Int
<1>1. N \in Nat /\ MaxLag \in Nat /\ Delay = 2 + MaxLag /\ FirstLate = 2 * MaxLag + 2 /\ N >= 1 /\ c \in Nat
  BY Numbers
<1>2. MaxLate = N * Delay + 2 * MaxLag
  BY <1>1 DEF MaxLate, Delay, N
<1>3. Delay \in Nat
  BY <1>1
<1>4. (N - 1 - c) * Delay \in Nat /\ c * Delay \in Nat
  <2>1. N - 1 - c \in Nat
    BY <1>1
  <2> QED
    BY <1>1, <1>3, <2>1
<1>5. N * Delay = c * Delay + (N - 1 - c) * Delay + Delay
  BY <1>1, <1>3
<1>6. (N - 1 - (c + 1)) * Delay = (N - 1 - c) * Delay - Delay
  BY <1>1, <1>3
<1>7. c > 0 => c * Delay >= Delay
  <2>1. c > 0 => (c - 1) * Delay \in Nat /\ c * Delay = (c - 1) * Delay + Delay
    <3> SUFFICES ASSUME c > 0 PROVE (c - 1) * Delay \in Nat /\ c * Delay = (c - 1) * Delay + Delay
      OBVIOUS
    <3>1. c - 1 \in Nat
      BY <1>1
    <3> QED
      BY <1>1, <1>3, <3>1
  <2> QED
    BY <1>3, <1>4, <2>1
<1>8. \A y \in Int : Horizon(y, c) = y + (N - 1 - c) * Delay
  BY DEF Horizon
<1>9. Horizon(x, c + 1) = x + (N - 1 - (c + 1)) * Delay
  BY DEF Horizon
<1> DEFINE a == c * Delay  b == (N - 1 - c) * Delay  d == N * Delay  e == (N - 1 - (c + 1)) * Delay
<1>10. /\ a \in Nat /\ b \in Nat /\ d = a + b + Delay /\ e = b - Delay /\ (c > 0 => a >= Delay)
       /\ (\A y \in Int : Horizon(y, c) = y + b) /\ Horizon(x, c + 1) = x + e
       /\ MaxLate = d + 2 * MaxLag
  BY <1>2, <1>4, <1>5, <1>6, <1>7, <1>8, <1>9
<1> HIDE DEF a, b, d, e
<1> QED
  BY <1>1, <1>3, <1>10

LEMMA HalfLaw ==
  /\ HalfRange \in Nat /\ 2 * HalfRange <= Modulus - 1 /\ Modulus - 1 <= 2 * HalfRange + 1
<1>1. Modulus - 1 \in Nat
  BY Numbers
<1> QED
  BY <1>1 DEF HalfRange

LEMMA IntervalLaw ==
  ASSUME NEW n \in Intervals
  PROVE  /\ n \in Nat /\ n > 0 /\ n > MaxLate /\ n >= 4 * MaxLag
         /\ 2 * (n + MaxLate + MaxLag) <= Modulus - 1 /\ n + MaxLate + MaxLag <= HalfRange
<1>1. n \in Nat /\ n >= MinTimeout /\ n > MaxLate /\ n >= 4 * MaxLag /\ 2 * (n + MaxLate + MaxLag) < Modulus
  BY AppTimerAssumption
<1>2. MaxLag \in Nat /\ MaxLate \in Nat /\ Modulus \in Nat /\ MinTimeout = 5
  BY Numbers
<1> QED
  BY <1>1, <1>2, HalfLaw

LEMMA ModLaw ==
  ASSUME NEW x \in Int
  PROVE  /\ x % Modulus \in 0 .. Modulus - 1
         /\ x \in 0 .. Modulus - 1 => x % Modulus = x
         /\ x < 0 /\ x + Modulus >= 0 => x % Modulus = x + Modulus
<1>1. Modulus \in Nat /\ Modulus >= 1
  BY Numbers
<1> QED
  BY <1>1

(* Within its range a difference is one.                                   *)
LEMMA DiffLaw ==
  ASSUME NEW now \in Nat, NEW old \in Nat, now <= Modulus - 1
  PROVE  /\ ticks_diff_get(now, old) \in 0 .. Modulus - 1
         /\ old <= now => ticks_diff_get(now, old) = now - old
         /\ old > now /\ old <= Modulus => ticks_diff_get(now, old) = now - old + Modulus
<1>1. PICK d : d = now - old
  OBVIOUS
<1>2. d \in Int /\ Modulus \in Nat
  BY <1>1, Numbers
<1>3. ticks_diff_get(now, old) = d % Modulus
  BY <1>1 DEF ticks_diff_get
<1>4. /\ d % Modulus \in 0 .. Modulus - 1
      /\ d \in 0 .. Modulus - 1 => d % Modulus = d
      /\ d < 0 /\ d + Modulus >= 0 => d % Modulus = d + Modulus
  BY <1>2, ModLaw
<1>5. /\ old <= now => d \in 0 .. Modulus - 1
      /\ old > now /\ old <= Modulus => d < 0 /\ d + Modulus >= 0
  BY <1>1, <1>2
<1> QED
  BY <1>1, <1>3, <1>4, <1>5

(* A chain at x is one at any earlier y.                                   *)
LEMMA ChainEarlier ==
  ASSUME NEW L \in SUBSET Timers, NEW w \in [L -> Int], NEW x \in Int, NEW y \in Int, y <= x,
         NEW c \in 0 .. N - 1, Chain(w, x, c)
  PROVE  Chain(w, y, c)
<1>1. \A t \in L : y <= w[t] + Late(c)
  <2> SUFFICES ASSUME NEW t \in L PROVE y <= w[t] + Late(c)
    OBVIOUS
  <2>1. x <= w[t] + Late(c) /\ w[t] \in Int /\ Late(c) \in Int
    BY LateLaw DEF Chain
  <2> QED
    BY <2>1
<1>2. Close(w, y, c) \subseteq Close(w, x, c)
  <2>1. Horizon(y, c) \in Int /\ Horizon(x, c) \in Int /\ Horizon(y, c) <= Horizon(x, c)
    BY HorizonLaw
  <2>2. \A t \in L : w[t] \in Int
    OBVIOUS
  <2> QED
    BY <2>1, <2>2 DEF Close
<1>3. IsFiniteSet(Close(w, x, c))
  <2>1. Close(w, x, c) \subseteq Timers
    BY DEF Close
  <2> QED
    BY <2>1, AppTimerAssumption, FS_Subset
<1>4. /\ Cardinality(Close(w, y, c)) <= Cardinality(Close(w, x, c))
      /\ Cardinality(Close(w, y, c)) \in Nat /\ Cardinality(Close(w, x, c)) \in Nat
  BY <1>2, <1>3, FS_Subset, FS_CardinalityType
<1>5. c > 0 => Cardinality(Close(w, y, c)) + c <= N
  <2>1. c > 0 => Cardinality(Close(w, x, c)) + c <= N
    BY DEF Chain
  <2>2. c \in Nat /\ N \in Nat
    BY Numbers
  <2> QED
    BY <1>4, <2>1, <2>2
<1>6. DOMAIN w = L
  OBVIOUS
<1> QED
  BY <1>1, <1>5, <1>6 DEF Chain

(* One that nobody is close to is a first one.                             *)
LEMMA ChainFirst ==
  ASSUME NEW L, NEW w \in [L -> Int], NEW x \in Int, \A t \in L : x <= w[t] + FirstLate, N >= 1
  PROVE  Chain(w, x, 0) /\ 0 \in 0 .. N - 1
<1>1. 0 \in 0 .. N - 1
  BY Numbers
<1>2. Late(0) = FirstLate
  BY <1>1, LateLaw
<1> QED
  BY <1>1, <1>2 DEF Chain

LEMMA ChainLate ==
  ASSUME NEW L, NEW w \in [L -> Int], NEW x \in Int, NEW c \in 0 .. N - 1, Chain(w, x, c)
  PROVE  \A t \in L : x <= w[t] + AllLate /\ w[t] + AllLate \in Int
<1> SUFFICES ASSUME NEW t \in L PROVE x <= w[t] + AllLate /\ w[t] + AllLate \in Int
  OBVIOUS
<1>1. x <= w[t] + Late(c)
  BY DEF Chain
<1>2. w[t] \in Int /\ Late(c) \in Nat /\ Late(c) <= AllLate /\ AllLate \in Int
  BY LateLaw, Numbers
<1> QED
  BY <1>1, <1>2
----------------------------------------------------------------------------
(* What the list is to the steps below: a set of timers and when they      *)
(* expire.                                                                 *)

LEMMA WhenLaw ==
  ASSUME TypeOK
  PROVE  /\ Listing /\ Listed \subseteq Timers /\ When \in [Listed -> Nat] /\ When \in [Listed -> Int]
         /\ \A t \in Listed : When[t] \in Nat /\ ticks_to_expire[t] <= When[t]
         /\ list = << >> <=> Listed = {}
         /\ list # << >> => /\ Head(list) \in Listed /\ When[Head(list)] = ticks_to_expire[Head(list)]
                            /\ \A t \in Listed : When[Head(list)] <= When[t]
         /\ list # << >> => N >= 1
<1>1. Listing
  <2>1. list \in Seq(Timers) /\ IsInjective(list) /\ ticks_to_expire \in [Timers -> 0 .. Modulus - 1]
    BY DEF TypeOK
  <2>2. 0 .. Modulus - 1 \subseteq Nat
    BY Numbers
  <2>3. ticks_to_expire \in [Timers -> Nat]
    BY <2>1, <2>2
  <2> QED
    BY <2>1, <2>3 DEF Listing
<1>2. /\ \A t \in Range(list) :
           /\ t \in Timers /\ Expiry(list, ticks_to_expire, t) \in Nat
           /\ ticks_to_expire[t] <= Expiry(list, ticks_to_expire, t)
      /\ list # << >> => /\ Head(list) \in Range(list)
                         /\ Expiry(list, ticks_to_expire, Head(list)) = ticks_to_expire[Head(list)]
                         /\ \A t \in Range(list) : Expiry(list, ticks_to_expire, Head(list))
                                                     <= Expiry(list, ticks_to_expire, t)
  BY <1>1, ExpiryLaw DEF Listing
<1>3. Listed \subseteq Timers /\ When \in [Listed -> Nat]
  BY <1>2 DEF Listed, When
<1>4. \A t \in Listed : When[t] = Expiry(list, ticks_to_expire, t)
  BY DEF When
<1>5. list = << >> <=> Listed = {}
  <2>1. ASSUME list = << >> PROVE Listed = {}
    BY <2>1 DEF Listed, Range
  <2> QED
    BY <1>2, <2>1 DEF Listed
<1>6. list # << >> => N >= 1
  <2> SUFFICES ASSUME list # << >> PROVE N >= 1
    OBVIOUS
  <2>1. Timers # {}
    BY <1>3, <1>5
  <2>2. IsFiniteSet(Timers)
    BY AppTimerAssumption
  <2>3. N \in Nat /\ N # 0
    BY <2>1, <2>2, FS_EmptySet, FS_CardinalityType DEF N
  <2> QED
    BY <2>3
<1>7. When \in [Listed -> Int]
  BY <1>3
<1>8. \A t \in Listed : When[t] \in Nat /\ ticks_to_expire[t] <= When[t]
  BY <1>2, <1>3, <1>4 DEF Listed
<1>9. list # << >> => /\ Head(list) \in Listed /\ When[Head(list)] = ticks_to_expire[Head(list)]
                      /\ \A t \in Listed : When[Head(list)] <= When[t]
  <2> SUFFICES ASSUME list # << >>
               PROVE  /\ Head(list) \in Listed /\ When[Head(list)] = ticks_to_expire[Head(list)]
                      /\ \A t \in Listed : When[Head(list)] <= When[t]
    OBVIOUS
  <2>1. Head(list) \in Listed
    BY <1>2 DEF Listed
  <2> QED
    BY <1>2, <1>4, <2>1 DEF Listed
<1> QED
  BY <1>1, <1>3, <1>5, <1>6, <1>7, <1>8, <1>9

LEMMA SameList ==
  ASSUME UNCHANGED <<list, ticks_to_expire>>
  PROVE  Listed' = Listed /\ When' = When
BY DEF Listed, When

LEMMA Typed ==
  ASSUME TypeOK
  PROVE  /\ counter \in Nat /\ counter <= Modulus - 1 /\ cc \in Nat /\ cc <= Modulus - 1
         /\ pre \in Nat /\ pre <= Modulus - 1 /\ lag \in Nat /\ lag <= MaxLag
         /\ elapsed \in Int /\ elapsed >= -1 /\ elapsed <= Modulus - 1
         /\ deaf \in BOOLEAN /\ rtc1_running \in BOOLEAN /\ rtc1_pending \in BOOLEAN
         /\ swi_pending \in BOOLEAN /\ level \in {"thread", "compare", "set", "post"}
         /\ is_running \in [Timers -> BOOLEAN] /\ periodic \in [Timers -> Intervals \cup {0}]
         /\ want \subseteq Timers /\ left \in [Timers -> Int]
         /\ \A t \in Timers : left[t] \in Int /\ periodic[t] \in Nat /\ is_running[t] \in BOOLEAN
<1>1. Modulus \in Nat /\ MaxLag \in Nat
  BY Numbers
<1>2. \A n \in Intervals : n \in Nat
  BY IntervalLaw
<1> QED
  BY <1>1, <1>2 DEF TypeOK

LEMMA OpTyped ==
  ASSUME TypeOK, op.type = "start"
  PROVE  /\ op.timer \in Timers /\ op.at \in Nat /\ op.at <= Modulus - 1 /\ op.ticks \in Intervals
         /\ op.waited \in Nat /\ op.ticks \in Nat /\ op # NoOp
<1>1. op \in Operations /\ Modulus \in Nat
  BY Numbers DEF TypeOK
<1>2. op \in [type : {"start"}, timer : Timers, at : 0 .. Modulus - 1, ticks : Intervals, waited : Nat]
  BY <1>1 DEF Operations, NoOp
<1>3. op.ticks \in Nat
  BY <1>2, IntervalLaw
<1>4. op # NoOp
  BY DEF NoOp
<1> QED
  BY <1>1, <1>2, <1>3, <1>4

(* How late the timers are.                                                *)
LEMMA Lateness ==
  ASSUME TimerInv, NEW t \in Listed
  PROVE  /\ counter <= When[t] + MaxLate + lag
         /\ elapsed = NoTicks => counter <= When[t] + MaxLate
         /\ elapsed = NoTicks /\ level = "thread" => cc <= When[t] + AllLate
<1>1. TypeOK /\ Armed /\ Called /\ Updating /\ Phases
  BY DEF TimerInv
<1>2. /\ counter \in Nat /\ cc \in Nat /\ lag \in Nat /\ lag <= MaxLag /\ rtc1_pending \in BOOLEAN
  BY <1>1, Typed
<1>3. /\ MaxLag \in Nat /\ MaxLate \in Nat /\ AllLate = MaxLate - MaxLag /\ OffsetMin = 3
  BY Numbers
<1>4. list # << >> /\ When \in [Listed -> Int] /\ When[t] \in Nat
  BY <1>1, WhenLaw
<1>5. CASE level # "thread"
  <2>1. PICK c \in 0 .. N - 1 : Chain(When, counter - lag + MaxLag + OffsetMin, c)
    BY <1>1, <1>4, <1>5 DEF Updating
  <2>2. counter - lag + MaxLag + OffsetMin \in Int
    BY <1>2, <1>3
  <2>3. counter - lag + MaxLag + OffsetMin <= When[t] + AllLate
    BY <1>4, <2>1, <2>2, ChainLate
  <2> QED
    BY <1>2, <1>3, <1>4, <1>5, <2>3
<1>6. CASE level = "thread" /\ elapsed = NoTicks
  <2>1. IF rtc1_pending THEN counter <= cc + lag ELSE counter < cc
    BY <1>1, <1>4, <1>6 DEF Armed
  <2>2. PICK c \in 0 .. N - 1 : Chain(When, cc, c)
    BY <1>1, <1>4, <1>6 DEF Armed
  <2>3. cc <= When[t] + AllLate
    BY <1>2, <1>4, <2>2, ChainLate
  <2>4. counter <= cc + lag
    BY <1>2, <2>1
  <2> QED
    BY <1>2, <1>3, <1>4, <1>6, <2>3, <2>4
<1>7. CASE elapsed # NoTicks
  <2>1. /\ counter <= cc + lag + (IF rtc1_pending THEN 0 ELSE MaxLag)
        /\ cc <= When[t] + AllLate
    BY <1>1, <1>7 DEF Called
  <2>2. counter <= cc + lag + MaxLag
    BY <1>2, <1>3, <2>1
  <2> QED
    BY <1>2, <1>3, <1>4, <1>7, <2>1, <2>2
<1> QED
  BY <1>5, <1>6, <1>7

----------------------------------------------------------------------------
(* The counter.                                                            *)

LEMMA TickCounts ==
  ASSUME TimerInv, Tick, list # << >>
  PROVE  counter' = counter + 1
<1>1. TypeOK /\ Armed /\ Near /\ Phases
  BY DEF TimerInv
<1>2. counter \in Nat /\ cc \in Nat /\ lag \in Nat /\ lag <= MaxLag /\ cc <= Modulus - 1
      /\ rtc1_pending \in BOOLEAN
  BY <1>1, Typed
<1>3. MaxLag \in Nat /\ MaxLate \in Nat /\ Modulus \in Nat
  BY Numbers
<1>4. counter + 1 \in 0 .. Modulus - 1
  <2>1. CASE Busy
    <3>1. lag < MaxLag
      BY <2>1 DEF Tick
    <3>2. PICK t \in Listed : TRUE
      BY <1>1, WhenLaw
    <3>3. counter <= When[t] + MaxLate + lag
      BY Lateness
    <3>4. When[t] \in Nat /\ When[t] + MaxLate + MaxLag <= Modulus - 2
      BY <1>1, WhenLaw DEF Near
    <3> QED
      BY <1>2, <1>3, <3>1, <3>3, <3>4
  <2>2. CASE ~Busy
    <3>1. level = "thread" /\ elapsed = NoTicks /\ ~rtc1_pending
      BY <1>1, <2>2 DEF Busy, Rtc1Due, Phases, Tick
    <3>2. counter < cc
      BY <1>1, <3>1 DEF Armed
    <3> QED
      BY <1>2, <1>3, <3>2
  <2> QED
    BY <2>1, <2>2
<1>5. counter + 1 \in Int /\ counter' = (counter + 1) % Modulus
  BY <1>2 DEF Tick
<1> QED
  BY <1>4, <1>5, ModLaw

LEMMA TickType ==
  ASSUME TimerInv, Tick
  PROVE  TypeOK'
<1>1. TypeOK
  BY DEF TimerInv
<1>2. /\ counter \in Nat /\ lag \in Nat /\ lag <= MaxLag /\ MaxLag \in Nat
      /\ rtc1_pending \in BOOLEAN
  BY <1>1, Typed, Numbers
<1>3. counter' \in 0 .. Modulus - 1
  <2>1. counter + 1 \in Int /\ counter' = (counter + 1) % Modulus
    BY <1>2 DEF Tick
  <2> QED
    BY <2>1, ModLaw
<1>4. lag' \in 0 .. MaxLag
  BY <1>2 DEF Tick
<1>5. deaf' \in BOOLEAN /\ rtc1_pending' \in BOOLEAN
  BY <1>2 DEF Tick
<1>6. op' \in Operations
  <2>0. op \in Operations
    BY <1>1 DEF TypeOK
  <2>1. CASE op.type = "start"
    <3>1. op \in [type : {"start"}, timer : Timers, at : 0 .. Modulus - 1, ticks : Intervals, waited : Nat]
      BY <2>0, <2>1 DEF Operations, NoOp
    <3>2. op' = [op EXCEPT !.waited = @ + 1]
      BY <2>1 DEF Tick
    <3>3. op' \in [type : {"start"}, timer : Timers, at : 0 .. Modulus - 1, ticks : Intervals, waited : Nat]
      BY <3>1, <3>2
    <3> QED
      BY <3>3 DEF Operations
  <2>2. CASE op.type # "start"
    BY <2>0, <2>2 DEF Tick
  <2> QED
    BY <2>1, <2>2
<1>7. left' \in [Timers -> Int]
  <2>1. left \in [Timers -> Int]
    BY <1>1 DEF TypeOK
  <2>2. left' = [t \in Timers |-> IF t \in want THEN left[t] - 1 ELSE left[t]]
    BY DEF Tick
  <2> QED
    BY <2>1, <2>2
<1>8. UNCHANGED <<cc, pre, rtc1_running, swi_pending, level, list, ticks_to_expire, is_running, periodic,
                  elapsed, call, want>>
  BY DEF Tick, listVars
<1> QED
  BY <1>1, <1>3, <1>4, <1>5, <1>6, <1>7, <1>8 DEF TypeOK

LEMMA TickSame ==
  ASSUME TimerInv, Tick
  PROVE  /\ Listed' = Listed /\ When' = When /\ Taken' = Taken
         /\ op'.type = op.type /\ (\A t : Starting(t)' <=> Starting(t)) /\ (\A t : Stopped(t)' <=> Stopped(t))
         /\ op.type = "start" => /\ op'.timer = op.timer /\ op'.ticks = op.ticks /\ op'.at = op.at
                                 /\ op'.waited = op.waited + 1
         /\ op = NoOp <=> op' = NoOp
<1>1. TypeOK
  BY DEF TimerInv
<1>2. Listed' = Listed /\ When' = When
  BY SameList DEF Tick, listVars
<1>3. Taken' = Taken
  BY <1>2 DEF Taken, Tick
<1>4. CASE op.type = "start"
  <2>1. op \in [type : {"start"}, timer : Timers, at : 0 .. Modulus - 1, ticks : Intervals, waited : Nat]
    BY <1>1, <1>4 DEF TypeOK, Operations, NoOp
  <2>2. op' = [op EXCEPT !.waited = @ + 1]
    BY <1>4 DEF Tick
  <2>3. op'.type = "start" /\ op'.timer = op.timer /\ op'.ticks = op.ticks /\ op'.at = op.at
        /\ op'.waited = op.waited + 1
    BY <2>1, <2>2
  <2>4. op # NoOp /\ op' # NoOp
    BY <1>4, <2>3 DEF NoOp
  <2> QED
    BY <1>2, <1>3, <1>4, <2>3, <2>4 DEF Starting, Stopped, Tick
<1>5. CASE op.type # "start"
  <2>1. op' = op /\ call' = call
    BY <1>5 DEF Tick
  <2> QED
    BY <1>2, <1>3, <1>5, <2>1 DEF Starting, Stopped
<1> QED
  BY <1>4, <1>5

LEMMA TickKeeps ==
  ASSUME TimerInv, Tick
  PROVE  TimerInv'
<1>1. /\ TypeOK /\ Members /\ Due /\ Phases /\ Started /\ Near /\ Armed /\ Called /\ Updating
  BY DEF TimerInv
<1>2. TypeOK'
  BY TickType
<1>3. /\ Listed' = Listed /\ When' = When /\ Taken' = Taken
      /\ op'.type = op.type /\ (\A t : Starting(t)' <=> Starting(t)) /\ (\A t : Stopped(t)' <=> Stopped(t))
      /\ op.type = "start" => /\ op'.timer = op.timer /\ op'.ticks = op.ticks /\ op'.at = op.at
                              /\ op'.waited = op.waited + 1
      /\ op = NoOp <=> op' = NoOp
  BY TickSame
<1>4. /\ UNCHANGED <<cc, pre, rtc1_running, swi_pending, level, list, ticks_to_expire, is_running, periodic,
                     elapsed, call, want>>
      /\ rtc1_running /\ deaf' = FALSE /\ (Busy => lag < MaxLag) /\ lag' = (IF Busy THEN lag + 1 ELSE 0)
      /\ rtc1_pending' = (rtc1_pending \/ (counter' = cc /\ ~deaf))
  BY DEF Tick, listVars
<1>5. /\ counter \in Nat /\ counter <= Modulus - 1 /\ cc \in Nat /\ cc <= Modulus - 1 /\ pre \in Nat
      /\ lag \in Nat /\ lag <= MaxLag /\ rtc1_pending \in BOOLEAN /\ rtc1_running \in BOOLEAN
      /\ level \in {"thread", "compare", "set", "post"} /\ swi_pending \in BOOLEAN
  BY <1>1, Typed
<1>6. list # << >> => counter' = counter + 1
  BY TickCounts
<1>7. MaxLag \in Nat /\ MaxLag >= 1 /\ MaxLate \in Nat /\ Modulus \in Nat /\ OffsetMin = 3 /\ NoTicks = -1
  BY Numbers
<1>8. level = "thread" => list # << >> /\ ~deaf
  BY <1>1, <1>4 DEF Phases
<1>9. op # NoOp => level = "thread" /\ Busy
  BY <1>1 DEF Phases, Busy
<1>10. elapsed # NoTicks => level = "thread" /\ Busy /\ swi_pending
  BY <1>1 DEF Phases, Busy
<1>11. level # "thread" => Busy
  BY DEF Busy
<1>12. Members'
  BY <1>1, <1>3, <1>4 DEF Members
<1>13. Due'
  <2> SUFFICES ASSUME NEW t \in want
               PROVE  left'[t] = IF is_running[t] THEN When[t] - counter'
                                 ELSE IF t \in Taken /\ t \in Repeated THEN When[t] + periodic[t] - counter'
                                 ELSE op'.ticks - op'.waited
    BY <1>3, <1>4 DEF Due
  <2>1. t \in Timers /\ left'[t] = left[t] - 1
    <3>1. t \in Timers
      BY <1>1 DEF TypeOK
    <3> QED
      BY <3>1 DEF Tick
  <2>2. left[t] = IF is_running[t] THEN When[t] - counter
                  ELSE IF t \in Taken /\ t \in Repeated THEN When[t] + periodic[t] - counter
                  ELSE op.ticks - op.waited
    BY <1>1 DEF Due
  <2>3. (t \in Listed /\ (is_running[t] \/ (t \in Taken /\ t \in Repeated))) \/ Starting(t)
    BY <1>1 DEF Members
  <2>4. periodic[t] \in Nat
    BY <1>1, <2>1, Typed
  <2>5. t \in Listed => When[t] \in Nat
    BY <1>1, WhenLaw
  <2>6. is_running[t] => t \in Listed
    BY <1>1, <2>1 DEF Members
  <2>7. CASE is_running[t]
    <3>1. counter' = counter + 1 /\ When[t] \in Nat
      BY <1>1, <1>6, <2>5, <2>6, <2>7, WhenLaw
    <3>2. left[t] = When[t] - counter
      BY <2>2, <2>7
    <3> QED
      BY <1>5, <2>1, <2>7, <3>1, <3>2
  <2>8. CASE ~is_running[t] /\ t \in Taken /\ t \in Repeated
    <3>1. counter' = counter + 1 /\ When[t] \in Nat
      BY <1>1, <1>6, <2>5, <2>8, WhenLaw DEF Taken
    <3>2. left[t] = When[t] + periodic[t] - counter
      BY <2>2, <2>8
    <3> QED
      BY <1>5, <2>1, <2>4, <2>8, <3>1, <3>2
  <2>9. CASE ~is_running[t] /\ ~(t \in Taken /\ t \in Repeated)
    <3>1. op.type = "start"
      BY <2>3, <2>9 DEF Starting
    <3>2. op.ticks \in Nat /\ op.waited \in Nat
      BY <1>1, <3>1, OpTyped
    <3>3. left[t] = op.ticks - op.waited
      BY <2>2, <2>9
    <3> QED
      BY <1>3, <2>1, <2>9, <3>1, <3>2, <3>3
  <2> QED
    BY <2>7, <2>8, <2>9
<1>14. Phases'
  BY <1>1, <1>3, <1>4, <1>8 DEF Phases
<1>15. Started'
  <2> SUFFICES ASSUME op.type = "start"
               PROVE  /\ op'.at < HalfRange /\ op'.at + op'.waited = counter'
                      /\ elapsed = NoTicks =>
                           /\ op'.waited <= (IF call = <<"queued">> THEN 0 ELSE MaxLag) + lag'
                           /\ rtc1_pending' => counter' >= cc
                      /\ elapsed # NoTicks =>
                           /\ counter' >= cc
                           /\ IF rtc1_pending' THEN op'.waited <= 2 * MaxLag + lag' /\ counter' = cc + lag'
                              ELSE op'.waited <= 3 * MaxLag + lag'
    BY <1>3, <1>4 DEF Started
  <2>1. op.at \in Nat /\ op.waited \in Nat /\ op # NoOp
    BY <1>1, OpTyped
  <2>2. counter' = counter + 1 /\ lag' = lag + 1 /\ ~deaf
    BY <1>4, <1>6, <1>8, <1>9, <2>1
  <2>3. op'.at = op.at /\ op'.waited = op.waited + 1
    BY <1>3
  <2>4. /\ op.at < HalfRange /\ op.at + op.waited = counter
        /\ elapsed = NoTicks => /\ op.waited <= (IF call = <<"queued">> THEN 0 ELSE MaxLag) + lag
                                /\ rtc1_pending => counter >= cc
        /\ elapsed # NoTicks =>
             /\ counter >= cc
             /\ IF rtc1_pending THEN op.waited <= 2 * MaxLag + lag /\ counter = cc + lag
                ELSE op.waited <= 3 * MaxLag + lag
    BY <1>1 DEF Started
  <2>5. elapsed # NoTicks => (rtc1_pending' <=> rtc1_pending)
    BY <1>4, <1>5, <2>2, <2>4
  <2>6. rtc1_pending' => rtc1_pending \/ counter' = cc
    BY <1>4
  <2>7. op'.at < HalfRange /\ op'.at + op'.waited = counter'
    BY <1>5, <2>1, <2>2, <2>3, <2>4
  <2>8. ASSUME elapsed = NoTicks
        PROVE  /\ op'.waited <= (IF call = <<"queued">> THEN 0 ELSE MaxLag) + lag'
               /\ rtc1_pending' => counter' >= cc
    BY <1>5, <1>7, <2>1, <2>2, <2>3, <2>4, <2>6, <2>8
  <2>9. ASSUME elapsed # NoTicks
        PROVE  /\ counter' >= cc
               /\ IF rtc1_pending' THEN op'.waited <= 2 * MaxLag + lag' /\ counter' = cc + lag'
                  ELSE op'.waited <= 3 * MaxLag + lag'
    BY <1>5, <1>7, <2>1, <2>2, <2>3, <2>4, <2>5, <2>9
  <2> QED
    BY <2>7, <2>8, <2>9
<1>16. Near'
  BY <1>1, <1>3 DEF Near
<1>17. Armed'
  <2> SUFFICES ASSUME level = "thread", list # << >>, elapsed = NoTicks
               PROVE  /\ IF rtc1_pending' THEN counter' <= cc + lag' ELSE counter' < cc
                      /\ \E c \in 0 .. N - 1 : Chain(When, cc, c) /\ (c > 0 => cc <= counter' + OffsetMin)
    BY <1>3, <1>4 DEF Armed
  <2>1. IF rtc1_pending THEN counter <= cc + lag ELSE counter < cc
    BY <1>1 DEF Armed
  <2>2. counter' = counter + 1 /\ ~deaf
    BY <1>6, <1>8
  <2>3. rtc1_pending => lag' = lag + 1
    BY <1>4 DEF Busy, Rtc1Due
  <2>4. IF rtc1_pending' THEN counter' <= cc + lag' ELSE counter' < cc
    <3>1. rtc1_pending' <=> rtc1_pending \/ counter' = cc
      BY <1>4, <2>2
    <3>2. lag' \in Nat
      <4>1. lag' \in 0 .. MaxLag
        BY <1>2 DEF TypeOK
      <4> QED
        BY <1>7, <4>1
    <3>3. CASE rtc1_pending
      <4>1. counter <= cc + lag /\ lag' = lag + 1 /\ rtc1_pending'
        BY <2>1, <2>3, <3>1, <3>3
      <4>2. counter' <= cc + lag'
        BY <1>5, <2>2, <4>1
      <4> QED
        BY <4>1, <4>2
    <3>4. CASE ~rtc1_pending
      <4>1. counter < cc /\ (rtc1_pending' <=> counter' = cc)
        BY <2>1, <3>1, <3>4
      <4>2. counter' = cc => counter' <= cc + lag'
        <5>1. PICK x \in Nat : x = lag'
          BY <3>2
        <5>2. cc <= cc + x
          BY <1>5
        <5> QED
          BY <5>1, <5>2
      <4>3. counter' # cc => counter' < cc
        BY <1>5, <2>2, <4>1
      <4> QED
        BY <4>1, <4>2, <4>3
    <3> QED
      BY <3>3, <3>4
  <2>5. PICK c \in 0 .. N - 1 : Chain(When, cc, c) /\ (c > 0 => cc <= counter + OffsetMin)
    BY <1>1 DEF Armed
  <2>6. c > 0 => cc <= counter' + OffsetMin
    BY <1>5, <1>7, <2>2, <2>5
  <2> QED
    BY <2>4, <2>5, <2>6
<1>18. Called'
  <2> SUFFICES ASSUME elapsed # NoTicks
               PROVE  /\ elapsed \in 0 .. counter'
                      /\ counter' <= cc + lag' + (IF rtc1_pending' THEN 0 ELSE MaxLag)
                      /\ \A t \in Listed : cc <= When[t] + AllLate /\ elapsed <= When[t] + MaxLate
                      /\ \A t \in Listed \ Taken : When[t] > counter' - lag'
                      /\ IF Taken = {} THEN elapsed = 0 ELSE \E t \in Taken : When[t] = elapsed
    BY <1>3, <1>4 DEF Called
  <2>1. counter' = counter + 1 /\ lag' = lag + 1 /\ ~deaf
    BY <1>4, <1>6, <1>8, <1>10
  <2>2. /\ elapsed \in 0 .. counter
        /\ counter <= cc + lag + (IF rtc1_pending THEN 0 ELSE MaxLag)
        /\ \A t \in Listed : cc <= When[t] + AllLate /\ elapsed <= When[t] + MaxLate
        /\ \A t \in Listed \ Taken : When[t] > counter - lag
        /\ IF Taken = {} THEN elapsed = 0 ELSE \E t \in Taken : When[t] = elapsed
    BY <1>1 DEF Called
  <2>3. elapsed \in 0 .. counter'
    BY <1>5, <2>1, <2>2
  <2>4. counter' <= cc + lag' + (IF rtc1_pending' THEN 0 ELSE MaxLag)
    <3>1. rtc1_pending' <=> rtc1_pending \/ counter' = cc
      BY <1>4, <2>1
    <3>2. CASE counter' = cc
      BY <1>5, <1>7, <2>1, <3>2
    <3>3. CASE counter' # cc
      BY <1>5, <1>7, <2>1, <2>2, <3>1, <3>3
    <3> QED
      BY <3>2, <3>3
  <2>5. counter' - lag' = counter - lag
    BY <1>5, <2>1
  <2> QED
    BY <2>2, <2>3, <2>4, <2>5
<1>19. Updating'
  <2> SUFFICES ASSUME level # "thread", list # << >>
               PROVE  /\ \E c \in 0 .. N - 1 : Chain(When, counter' - lag' + MaxLag + OffsetMin, c)
                      /\ level \in {"set", "post"} => pre <= counter' /\ counter' - lag' <= pre
                      /\ level = "post" => \/ cc = pre + OffsetMin
                                           \/ cc >= pre + OffsetMin /\ \A t \in Listed : cc <= When[t]
    BY <1>3, <1>4 DEF Updating
  <2>1. counter' = counter + 1 /\ lag' = lag + 1
    BY <1>4, <1>6, <1>11
  <2>2. /\ \E c \in 0 .. N - 1 : Chain(When, counter - lag + MaxLag + OffsetMin, c)
        /\ level \in {"set", "post"} => pre <= counter /\ counter - lag <= pre
        /\ level = "post" => \/ cc = pre + OffsetMin
                             \/ cc >= pre + OffsetMin /\ \A t \in Listed : cc <= When[t]
    BY <1>1 DEF Updating
  <2>3. counter' - lag' = counter - lag
    BY <1>5, <2>1
  <2>4. level \in {"set", "post"} => pre <= counter'
    BY <1>5, <2>1, <2>2
  <2> QED
    BY <2>2, <2>3, <2>4
<1> QED
  BY <1>2, <1>12, <1>13, <1>14, <1>15, <1>16, <1>17, <1>18, <1>19 DEF TimerInv

----------------------------------------------------------------------------
(* The thread.                                                             *)

LEMMA ThreadKeepsTime ==
  ASSUME TimerInv, ThreadRuns, lag' = 0,
         UNCHANGED <<rtcVars, level, pre, list, ticks_to_expire, elapsed>>
  PROVE  /\ level = "thread" /\ ~swi_pending /\ elapsed = NoTicks /\ Taken = {} /\ ~rtc1_pending
         /\ Listed' = Listed /\ When' = When /\ Taken' = {}
         /\ Near' /\ Armed' /\ Called' /\ Updating'
<1>1. TypeOK /\ Phases /\ Near /\ Armed /\ lag' = 0
  BY DEF TimerInv
<1>2. UNCHANGED <<counter, cc, deaf, rtc1_running, rtc1_pending, level, pre, list, ticks_to_expire, elapsed>>
  BY DEF rtcVars
<1>3. level = "thread" /\ ~swi_pending /\ elapsed = NoTicks /\ ~rtc1_pending
  BY <1>1 DEF ThreadRuns, Rtc1Due, Phases
<1>4. Taken = {} /\ Listed' = Listed /\ When' = When /\ Taken' = {}
  <2>1. Listed' = Listed /\ When' = When
    BY <1>2, SameList
  <2> QED
    BY <1>2, <1>3, <2>1 DEF Taken
<1>5. Near'
  BY <1>1, <1>4 DEF Near
<1>6. Armed'
  <2> SUFFICES ASSUME list # << >>
               PROVE  /\ counter < cc
                      /\ \E c \in 0 .. N - 1 : Chain(When, cc, c) /\ (c > 0 => cc <= counter + OffsetMin)
    BY <1>2, <1>3, <1>4 DEF Armed
  <2> QED
    BY <1>1, <1>3 DEF Armed
<1>7. Called'
  BY <1>2, <1>3 DEF Called
<1>8. Updating'
  BY <1>2, <1>3 DEF Updating
<1> QED
  BY <1>3, <1>4, <1>5, <1>6, <1>7, <1>8

LEMMA StartKeeps ==
  ASSUME TimerInv, NEW t \in Timers, NEW n \in Intervals, app_timer_start(t, n)
  PROVE  TimerInv'
<1>1. /\ TypeOK /\ Members /\ Due /\ Phases
  BY DEF TimerInv
<1>2. /\ ThreadRuns /\ call = <<"none">> /\ counter < HalfRange
      /\ op' = [type |-> "start", timer |-> t, at |-> counter, ticks |-> n, waited |-> 0]
      /\ call' = <<"queued">> /\ want' = want \cup {t} /\ lag' = 0
      /\ left' = (IF t \in want THEN left ELSE [left EXCEPT ![t] = n])
      /\ UNCHANGED <<rtcVars, swi_pending, level, pre, list, ticks_to_expire, is_running, periodic, elapsed>>
  BY DEF app_timer_start, listVars
<1>3. UNCHANGED <<counter, cc, deaf, rtc1_running, rtc1_pending>>
  BY <1>2 DEF rtcVars
<1>4. /\ level = "thread" /\ ~swi_pending /\ elapsed = NoTicks /\ Taken = {} /\ ~rtc1_pending
      /\ Listed' = Listed /\ When' = When /\ Taken' = {}
      /\ Near' /\ Armed' /\ Called' /\ Updating'
  BY <1>2, ThreadKeepsTime
<1>5. op = NoOp /\ op.type # "start" /\ op.type # "stop" /\ op.type # "stop_all"
  <2>1. op = NoOp
    BY <1>1, <1>2, <1>4 DEF Phases
  <2> QED
    BY <2>1 DEF NoOp
<1>6. /\ op'.type = "start" /\ op'.timer = t /\ op'.at = counter /\ op'.ticks = n /\ op'.waited = 0
      /\ op' # NoOp
  BY <1>2 DEF NoOp
<1>7. (\A u : Stopped(u)' <=> FALSE) /\ (\A u : Stopped(u) <=> FALSE)
  BY <1>2, <1>5, <1>6 DEF Stopped
<1>8. n \in Nat /\ counter \in Nat /\ counter <= Modulus - 1 /\ Modulus \in Nat /\ MaxLag \in Nat
  BY <1>1, Typed, IntervalLaw, Numbers
<1>9. TypeOK'
  <2>1. op' \in Operations
    <3>1. counter \in 0 .. Modulus - 1
      BY <1>8
    <3>2. op' \in [type : {"start"}, timer : Timers, at : 0 .. Modulus - 1, ticks : Intervals, waited : Nat]
      BY <1>2, <3>1
    <3> QED
      BY <3>2 DEF Operations
  <2>2. call' \in Calls /\ lag' \in 0 .. MaxLag
    BY <1>2, <1>8 DEF Calls
  <2>3. left' \in [Timers -> Int]
    <3>1. left \in [Timers -> Int]
      BY <1>1 DEF TypeOK
    <3> QED
      BY <1>2, <1>8, <3>1
  <2>4. want' \subseteq Timers
    BY <1>1, <1>2 DEF TypeOK
  <2> QED
    BY <1>1, <1>2, <1>3, <2>1, <2>2, <2>3, <2>4 DEF TypeOK
<1>10. \A u \in Listed : u \in want
  BY <1>1, <1>4, <1>5, <1>7 DEF Members
<1>11. \A u \in want : u \in Listed /\ is_running[u]
  BY <1>1, <1>4, <1>5 DEF Members, Starting
<1>12. Starting(t)'
  BY <1>6 DEF Starting
<1>13. Members'
  <2>1. \A u \in Timers : is_running'[u] => u \in Listed' \ Taken'
    BY <1>1, <1>2, <1>4 DEF Members
  <2>2. \A u \in Listed' : periodic'[u] # 0 <=> u \in Repeated
    BY <1>1, <1>2, <1>4 DEF Members
  <2>3. \A u \in Listed' \ Taken' : is_running'[u] \/ Stopped(u)'
    BY <1>1, <1>2, <1>4, <1>10, <1>11 DEF Members
  <2>4. \A u \in want' : (u \in Listed' /\ (is_running'[u] \/ (u \in Taken' /\ u \in Repeated))) \/ Starting(u)'
    BY <1>2, <1>4, <1>11, <1>12
  <2>5. \A u \in Listed' : u \in want'
    BY <1>2, <1>4, <1>10
  <2>6. \A u \in want' : ~Stopped(u)' /\ op'.type # "stop_all"
    BY <1>6, <1>7
  <2>7. op'.timer \in want'
    BY <1>2, <1>6
  <2> QED
    BY <2>1, <2>2, <2>3, <2>4, <2>5, <2>6, <2>7 DEF Members
<1>14. Due'
  <2> SUFFICES ASSUME NEW u \in want \cup {t}
               PROVE  left'[u] = IF is_running[u] THEN When[u] - counter
                                 ELSE IF u \in {} /\ u \in Repeated THEN When[u] + periodic[u] - counter
                                 ELSE op'.ticks - op'.waited
    BY <1>2, <1>3, <1>4 DEF Due
  <2>1. CASE u \in want
    <3>1. is_running[u] /\ left[u] = When[u] - counter
      BY <1>1, <1>11, <2>1 DEF Due
    <3>2. left'[u] = left[u]
      <4>1. left \in [Timers -> Int] /\ u \in Timers
        BY <1>1 DEF TypeOK
      <4> QED
        BY <1>2, <2>1, <4>1
    <3> QED
      BY <3>1, <3>2
  <2>2. CASE u \notin want
    <3>1. u = t /\ ~is_running[t]
      BY <1>1, <1>10, <2>2 DEF Members
    <3>2. left'[t] = n
      <4>1. left \in [Timers -> Int]
        BY <1>1 DEF TypeOK
      <4> QED
        BY <1>2, <2>2, <3>1, <4>1
    <3>3. op'.ticks - op'.waited = n
      BY <1>6, <1>8
    <3> QED
      BY <3>1, <3>2, <3>3
  <2> QED
    BY <2>1, <2>2
<1>15. Phases'
  BY <1>1, <1>2, <1>3, <1>4 DEF Phases
<1>16. Started'
  <2>1. op'.at < HalfRange /\ op'.at + op'.waited = counter'
    BY <1>2, <1>3, <1>6, <1>8
  <2>2. op'.waited <= (IF call' = <<"queued">> THEN 0 ELSE MaxLag) + lag'
    BY <1>2, <1>6
  <2>3. elapsed' = NoTicks /\ ~rtc1_pending'
    BY <1>2, <1>3, <1>4
  <2> QED
    BY <2>1, <2>2, <2>3 DEF Started
<1> QED
  BY <1>4, <1>9, <1>13, <1>14, <1>15, <1>16 DEF TimerInv

LEMMA StopKeeps ==
  ASSUME TimerInv, NEW t \in Timers, app_timer_stop(t)
  PROVE  TimerInv'
<1>1. /\ TypeOK /\ Members /\ Due /\ Phases
  BY DEF TimerInv
<1>2. /\ ThreadRuns /\ call = <<"none">>
      /\ is_running' = [is_running EXCEPT ![t] = FALSE]
      /\ call' = <<"stopping", t>> /\ want' = want \ {t} /\ left' = [left EXCEPT ![t] = 0] /\ lag' = 0
      /\ UNCHANGED <<rtcVars, swi_pending, level, pre, list, ticks_to_expire, periodic, elapsed, op>>
  BY DEF app_timer_stop
<1>3. UNCHANGED <<counter, cc, deaf, rtc1_running, rtc1_pending>>
  BY <1>2 DEF rtcVars
<1>4. /\ level = "thread" /\ ~swi_pending /\ elapsed = NoTicks /\ Taken = {} /\ ~rtc1_pending
      /\ Listed' = Listed /\ When' = When /\ Taken' = {}
      /\ Near' /\ Armed' /\ Called' /\ Updating'
  BY <1>2, ThreadKeepsTime
<1>5. op = NoOp /\ op.type # "start" /\ op.type # "stop" /\ op.type # "stop_all"
  <2>1. op = NoOp
    BY <1>1, <1>2, <1>4 DEF Phases
  <2> QED
    BY <2>1 DEF NoOp
<1>6. (\A u : Stopped(u)' <=> u = t) /\ (\A u : Stopped(u) <=> FALSE)
  BY <1>2, <1>5 DEF Stopped
<1>7. is_running \in [Timers -> BOOLEAN] /\ left \in [Timers -> Int] /\ want \subseteq Timers
  BY <1>1 DEF TypeOK
<1>8. /\ is_running'[t] = FALSE /\ \A u \in Timers : u # t => is_running'[u] = is_running[u] /\ left'[u] = left[u]
  BY <1>2, <1>7
<1>9. TypeOK'
  <2>1. call' \in Calls /\ lag' \in 0 .. MaxLag
    BY <1>2, Numbers DEF Calls
  <2>2. is_running' \in [Timers -> BOOLEAN] /\ left' \in [Timers -> Int] /\ want' \subseteq Timers
    BY <1>2, <1>7
  <2> QED
    BY <1>1, <1>2, <1>3, <2>1, <2>2 DEF TypeOK
<1>10. \A u \in Listed : u \in want /\ u \in Timers
  BY <1>1, <1>4, <1>5, <1>6, <1>7 DEF Members
<1>11. \A u \in want : u \in Listed /\ is_running[u] /\ u \in Timers
  BY <1>1, <1>4, <1>5, <1>7 DEF Members, Starting
<1>12. Members'
  <2>1. \A u \in Timers : is_running'[u] => u \in Listed' \ Taken'
    BY <1>1, <1>4, <1>8 DEF Members
  <2>2. \A u \in Listed' : periodic'[u] # 0 <=> u \in Repeated
    BY <1>1, <1>2, <1>4 DEF Members
  <2>3. \A u \in Listed' \ Taken' : is_running'[u] \/ Stopped(u)'
    BY <1>4, <1>6, <1>8, <1>10, <1>11
  <2>4. \A u \in want' : (u \in Listed' /\ (is_running'[u] \/ (u \in Taken' /\ u \in Repeated))) \/ Starting(u)'
    BY <1>2, <1>4, <1>8, <1>11
  <2>5. \A u \in Listed' \ want' : Stopped(u)'
    BY <1>2, <1>4, <1>6, <1>10
  <2>6. \A u \in want' : ~Stopped(u)' /\ op'.type # "stop_all"
    BY <1>2, <1>5, <1>6
  <2>7. op'.type # "start"
    BY <1>2, <1>5
  <2> QED
    BY <2>1, <2>2, <2>3, <2>4, <2>5, <2>6, <2>7 DEF Members
<1>13. Due'
  <2> SUFFICES ASSUME NEW u \in want \ {t}
               PROVE  left'[u] = IF is_running'[u] THEN When[u] - counter
                                 ELSE IF u \in {} /\ u \in Repeated THEN When[u] + periodic[u] - counter
                                 ELSE op.ticks - op.waited
    BY <1>2, <1>3, <1>4 DEF Due
  <2>1. is_running[u] /\ left[u] = When[u] - counter
    BY <1>1, <1>11 DEF Due
  <2> QED
    BY <1>8, <1>11, <2>1
<1>14. Phases'
  BY <1>1, <1>2, <1>3, <1>4, <1>5 DEF Phases
<1>15. Started'
  BY <1>2, <1>5 DEF Started
<1> QED
  BY <1>4, <1>9, <1>12, <1>13, <1>14, <1>15 DEF TimerInv

LEMMA StopQueuedKeeps ==
  ASSUME TimerInv, timer_stop_op_schedule
  PROVE  TimerInv'
<1>1. /\ TypeOK /\ Members /\ Due /\ Phases
  BY DEF TimerInv
<1>2. PICK t \in Timers : call = <<"stopping", t>> /\ op' = [type |-> "stop", timer |-> t]
  BY DEF timer_stop_op_schedule
<1>3. /\ ThreadRuns /\ call' = <<"queued">> /\ lag' = 0
      /\ UNCHANGED <<rtcVars, swi_pending, level, pre, list, ticks_to_expire, is_running, periodic, elapsed,
                     want, left>>
  BY DEF timer_stop_op_schedule, listVars, histVars
<1>4. UNCHANGED <<counter, cc, deaf, rtc1_running, rtc1_pending>>
  BY <1>3 DEF rtcVars
<1>5. /\ level = "thread" /\ ~swi_pending /\ elapsed = NoTicks /\ Taken = {} /\ ~rtc1_pending
      /\ Listed' = Listed /\ When' = When /\ Taken' = {}
      /\ Near' /\ Armed' /\ Called' /\ Updating'
  BY <1>3, ThreadKeepsTime
<1>6. op = NoOp /\ op.type # "start" /\ op.type # "stop" /\ op.type # "stop_all"
  <2>1. op = NoOp
    BY <1>1, <1>2 DEF Phases
  <2> QED
    BY <2>1 DEF NoOp
<1>7. op'.type = "stop" /\ op'.timer = t /\ op'.type # "start" /\ op'.type # "stop_all"
  BY <1>2
<1>8. (\A u : Stopped(u)' <=> Stopped(u))
  BY <1>2, <1>3, <1>6, <1>7 DEF Stopped
<1>9. TypeOK'
  <2>1. call' \in Calls /\ lag' \in 0 .. MaxLag
    BY <1>3, Numbers DEF Calls
  <2>2. op' \in Operations
    BY <1>2 DEF Operations
  <2> QED
    BY <1>1, <1>3, <1>4, <2>1, <2>2 DEF TypeOK
<1>10. \A u \in want : u \in Listed /\ is_running[u] /\ u \in Timers
  BY <1>1, <1>5, <1>6 DEF Members, Starting, TypeOK
<1>11. Members'
  BY <1>1, <1>3, <1>5, <1>6, <1>7, <1>8, <1>10 DEF Members
<1>12. Due'
  <2> SUFFICES ASSUME NEW u \in want
               PROVE  left[u] = IF is_running[u] THEN When[u] - counter
                                ELSE IF u \in {} /\ u \in Repeated THEN When[u] + periodic[u] - counter
                                ELSE op'.ticks - op'.waited
    BY <1>3, <1>4, <1>5 DEF Due
  <2> QED
    BY <1>1, <1>10 DEF Due
<1>13. Phases'
  BY <1>1, <1>3, <1>4, <1>5 DEF Phases
<1>14. Started'
  BY <1>7 DEF Started
<1> QED
  BY <1>5, <1>9, <1>11, <1>12, <1>13, <1>14 DEF TimerInv

LEMMA StopAllKeeps ==
  ASSUME TimerInv, app_timer_stop_all
  PROVE  TimerInv'
<1>1. /\ TypeOK /\ Members /\ Due /\ Phases
  BY DEF TimerInv
<1>2. /\ ThreadRuns /\ call = <<"none">> /\ call' = <<"queued">> /\ lag' = 0 /\ op' = [type |-> "stop_all"]
      /\ want' = {} /\ left' = [t \in Timers |-> 0]
      /\ UNCHANGED <<rtcVars, swi_pending, level, pre, list, ticks_to_expire, is_running, periodic, elapsed>>
  BY DEF app_timer_stop_all, listVars
<1>3. UNCHANGED <<counter, cc, deaf, rtc1_running, rtc1_pending>>
  BY <1>2 DEF rtcVars
<1>4. /\ level = "thread" /\ ~swi_pending /\ elapsed = NoTicks /\ Taken = {} /\ ~rtc1_pending
      /\ Listed' = Listed /\ When' = When /\ Taken' = {}
      /\ Near' /\ Armed' /\ Called' /\ Updating'
  BY <1>2, ThreadKeepsTime
<1>5. op = NoOp /\ op.type # "stop"
  <2>1. op = NoOp
    BY <1>1, <1>2, <1>4 DEF Phases
  <2> QED
    BY <2>1 DEF NoOp
<1>6. op'.type = "stop_all"
  BY <1>2
<1>7. \A u : ~Stopped(u)
  BY <1>2, <1>5 DEF Stopped
<1>8. TypeOK'
  <2>1. call' \in Calls /\ lag' \in 0 .. MaxLag
    BY <1>2, Numbers DEF Calls
  <2>2. op' \in Operations
    BY <1>2 DEF Operations
  <2>3. left' \in [Timers -> Int] /\ want' \subseteq Timers
    BY <1>2
  <2> QED
    BY <1>1, <1>2, <1>3, <2>1, <2>2, <2>3 DEF TypeOK
<1>9. Members'
  BY <1>1, <1>2, <1>4, <1>6, <1>7 DEF Members
<1>10. Due'
  BY <1>2 DEF Due
<1>11. Phases'
  BY <1>1, <1>2, <1>3, <1>4 DEF Phases
<1>12. Started'
  BY <1>6 DEF Started
<1> QED
  BY <1>4, <1>8, <1>9, <1>10, <1>11, <1>12 DEF TimerInv

LEMMA SignalKeeps ==
  ASSUME TimerInv, timer_list_handler_sched
  PROVE  TimerInv'
<1>1. /\ TypeOK /\ Members /\ Due /\ Phases /\ Started
  BY DEF TimerInv
<1>2. /\ ThreadRuns /\ call = <<"queued">> /\ call' = <<"none">> /\ swi_pending' = TRUE /\ lag' = 0
      /\ UNCHANGED <<rtcVars, level, pre, list, ticks_to_expire, is_running, periodic, elapsed, op, want, left>>
  BY DEF timer_list_handler_sched, listVars, histVars
<1>3. UNCHANGED <<counter, cc, deaf, rtc1_running, rtc1_pending>>
  BY <1>2 DEF rtcVars
<1>4. /\ level = "thread" /\ ~swi_pending /\ elapsed = NoTicks /\ Taken = {} /\ ~rtc1_pending
      /\ Listed' = Listed /\ When' = When /\ Taken' = {}
      /\ Near' /\ Armed' /\ Called' /\ Updating'
  BY <1>2, ThreadKeepsTime
<1>5. \A u : (Stopped(u)' <=> Stopped(u)) /\ (Starting(u)' <=> Starting(u))
  BY <1>2 DEF Stopped, Starting
<1>6. TypeOK'
  <2>1. call' \in Calls /\ lag' \in 0 .. MaxLag
    BY <1>2, Numbers DEF Calls
  <2> QED
    BY <1>1, <1>2, <1>3, <2>1 DEF TypeOK
<1>7. Members'
  BY <1>1, <1>2, <1>4, <1>5 DEF Members
<1>8. Due'
  BY <1>1, <1>2, <1>3, <1>4 DEF Due
<1>9. Phases'
  BY <1>1, <1>2, <1>3, <1>4 DEF Phases
<1>10. Started'
  <2> SUFFICES ASSUME op.type = "start"
               PROVE  /\ op.at < HalfRange /\ op.at + op.waited = counter
                      /\ op.waited <= MaxLag + 0
    BY <1>2, <1>3, <1>4 DEF Started
  <2>1. op.waited <= 0 + lag /\ op.at < HalfRange /\ op.at + op.waited = counter
    BY <1>1, <1>2, <1>4 DEF Started
  <2>2. op.waited \in Nat /\ lag \in Nat /\ lag <= MaxLag /\ MaxLag \in Nat
    BY <1>1, OpTyped, Typed, Numbers
  <2> QED
    BY <2>1, <2>2
<1> QED
  BY <1>4, <1>6, <1>7, <1>8, <1>9, <1>10 DEF TimerInv

----------------------------------------------------------------------------
(* compare_reg_update.                                                     *)

LEMMA CompareQuiet ==
  ASSUME TimerInv, level # "thread"
  PROVE  /\ op = NoOp /\ op.type # "start" /\ elapsed = NoTicks /\ ~swi_pending
         /\ Taken = {}
<1>1. Phases
  BY DEF TimerInv
<1>2. op = NoOp /\ ~swi_pending /\ elapsed = NoTicks
  BY <1>1 DEF Phases
<1> QED
  BY <1>2 DEF NoOp, Taken

LEMMA ReadCounterKeeps ==
  ASSUME TimerInv, ReadCounter
  PROVE  TimerInv'
<1>1. /\ TypeOK /\ Members /\ Due /\ Phases /\ Near /\ Updating
  BY DEF TimerInv
<1>2. /\ level = "compare"
      /\ UNCHANGED <<swi_pending, list, ticks_to_expire, is_running, periodic, elapsed, op, call, want, left, lag>>
  BY DEF ReadCounter, listVars, histVars
<1>3. /\ op = NoOp /\ op.type # "start" /\ elapsed = NoTicks /\ ~swi_pending /\ Taken = {}
  BY <1>2, CompareQuiet
<1>4. Listed' = Listed /\ When' = When /\ Taken' = {} /\ elapsed' = NoTicks /\ op' = op
  <2>1. Listed' = Listed /\ When' = When
    BY <1>2, SameList
  <2> QED
    BY <1>2, <1>3, <2>1 DEF Taken
<1>5. \A u : (Stopped(u)' <=> Stopped(u)) /\ (Starting(u)' <=> FALSE) /\ (Starting(u) <=> FALSE)
  BY <1>2, <1>3 DEF Stopped, Starting
<1>6. Near' /\ Called' /\ Started' /\ Members'
  BY <1>1, <1>2, <1>3, <1>4, <1>5 DEF Near, Called, Started, Members
<1>7. Modulus \in Nat /\ Modulus >= 1 /\ 0 \in 0 .. Modulus - 1
  BY Numbers
<1>8. CASE list = << >>
  <2>1. /\ rtc1_running' = FALSE /\ counter' = 0 /\ cc' = 0 /\ pre' = 0 /\ deaf' = FALSE
        /\ rtc1_pending' = FALSE /\ level' = "thread"
    BY <1>8 DEF ReadCounter
  <2>2. TypeOK'
    BY <1>1, <1>2, <1>7, <2>1 DEF TypeOK
  <2>3. want = {}
    <3>1. Listed = {}
      BY <1>1, <1>8, WhenLaw
    <3> QED
      BY <1>1, <1>5, <3>1 DEF Members
  <2>4. Due'
    BY <1>2, <2>3 DEF Due
  <2>5. Phases'
    BY <1>1, <1>2, <1>3, <1>4, <1>8, <2>1 DEF Phases
  <2>6. Armed' /\ Updating'
    BY <1>2, <1>8, <2>1 DEF Armed, Updating
  <2> QED
    BY <1>6, <2>2, <2>4, <2>5, <2>6 DEF TimerInv
<1>9. CASE list # << >>
  <2>1. /\ pre' = counter /\ rtc1_running' = TRUE /\ level' = "set" /\ counter' = counter /\ cc' = cc
        /\ deaf' = deaf /\ rtc1_pending' \in (IF rtc1_running THEN {rtc1_pending} ELSE BOOLEAN)
    BY <1>9 DEF ReadCounter
  <2>2. TypeOK'
    <3>1. rtc1_pending' \in BOOLEAN
      BY <1>1, <2>1, Typed
    <3> QED
      BY <1>1, <1>2, <2>1, <3>1 DEF TypeOK
  <2>3. Due'
    BY <1>1, <1>2, <1>3, <1>4, <2>1 DEF Due
  <2>4. Phases'
    BY <1>1, <1>2, <1>3, <1>4, <1>9, <2>1 DEF Phases
  <2>5. Armed'
    BY <2>1 DEF Armed
  <2>6. Updating'
    <3>1. \E c \in 0 .. N - 1 : Chain(When, counter - lag + MaxLag + OffsetMin, c)
      BY <1>1, <1>2, <1>9 DEF Updating
    <3>2. counter \in Nat /\ lag \in Nat
      BY <1>1, Typed
    <3>3. counter <= counter /\ counter - lag <= counter
      BY <3>2
    <3> QED
      BY <1>2, <1>4, <2>1, <3>1, <3>3 DEF Updating
  <2> QED
    BY <1>6, <2>2, <2>3, <2>4, <2>5, <2>6 DEF TimerInv
<1> QED
  BY <1>8, <1>9

LEMMA SetCompareKeeps ==
  ASSUME TimerInv, SetCompare
  PROVE  TimerInv'
<1>1. /\ TypeOK /\ Members /\ Due /\ Phases /\ Near /\ Updating
  BY DEF TimerInv
<1> DEFINE value == Max({ticks_to_expire[Head(list)], pre + OffsetMin})
<1>2. /\ level = "set" /\ level' = "post" /\ rtc1_compare0_set(value % Modulus)
      /\ UNCHANGED <<counter, rtc1_running, rtc1_pending, swi_pending, pre, list, ticks_to_expire, is_running,
                     periodic, elapsed, op, call, want, left, lag>>
  BY DEF SetCompare, listVars, histVars
<1>3. /\ op = NoOp /\ op.type # "start" /\ elapsed = NoTicks /\ ~swi_pending /\ Taken = {}
  BY <1>2, CompareQuiet
<1>4. Listed' = Listed /\ When' = When /\ Taken' = {} /\ elapsed' = NoTicks /\ op' = op
  <2>1. Listed' = Listed /\ When' = When
    BY <1>2, SameList
  <2> QED
    BY <1>2, <1>3, <2>1 DEF Taken
<1>5. \A u : (Stopped(u)' <=> Stopped(u)) /\ (Starting(u)' <=> FALSE) /\ (Starting(u) <=> FALSE)
  BY <1>2, <1>3 DEF Stopped, Starting
<1>6. Near' /\ Called' /\ Started' /\ Members' /\ Due' /\ Armed'
  BY <1>1, <1>2, <1>3, <1>4, <1>5 DEF Near, Called, Started, Members, Due, Armed
<1>7. list # << >> /\ rtc1_running
  BY <1>1, <1>2 DEF Phases
<1>8. PICK h \in Listed : h = Head(list) /\ When[h] = ticks_to_expire[h] /\ \A t \in Listed : When[h] <= When[t]
  BY <1>1, <1>7, WhenLaw
<1>9. PICK c \in 0 .. N - 1 : Chain(When, counter - lag + MaxLag + OffsetMin, c)
  BY <1>1, <1>2, <1>7 DEF Updating
<1>10. /\ counter \in Nat /\ lag \in Nat /\ pre \in Nat /\ lag <= MaxLag /\ MaxLag \in Nat /\ MaxLate \in Nat
       /\ Modulus \in Nat /\ OffsetMin = 3 /\ AllLate = MaxLate - MaxLag
  BY <1>1, Typed, Numbers
<1>11. pre <= counter /\ counter - lag <= pre
  BY <1>1, <1>2, <1>7 DEF Updating
<1>12. When[h] \in Nat /\ When[h] + MaxLate + MaxLag <= Modulus - 2 /\ When \in [Listed -> Int]
  BY <1>1, WhenLaw DEF Near
<1>13. counter - lag + MaxLag + OffsetMin <= When[h] + AllLate
  <2>1. counter - lag + MaxLag + OffsetMin \in Int
    BY <1>10
  <2> QED
    BY <1>9, <1>12, <2>1, ChainLate
<1>14. pre + OffsetMin \in 0 .. Modulus - 1 /\ When[h] \in 0 .. Modulus - 1
  BY <1>10, <1>11, <1>12, <1>13
<1>15. /\ value = When[h] \/ value = pre + OffsetMin
       /\ value >= When[h] /\ value >= pre + OffsetMin
  <2>1. PICK a, b : a = When[h] /\ b = pre + OffsetMin
    OBVIOUS
  <2>2. a \in Int /\ b \in Int /\ value = Max({a, b})
    BY <1>8, <1>14, <2>1
  <2> HIDE DEF value
  <2>3. Max({a, b}) \in {a, b} /\ a <= Max({a, b}) /\ b <= Max({a, b})
    <3>1. \E m \in {a, b} : \A y \in {a, b} : m >= y
      BY <2>2
    <3> QED
      BY <2>2, <3>1 DEF Max
  <2> QED
    BY <2>1, <2>2, <2>3
<1> HIDE DEF value
<1>16. value \in 0 .. Modulus - 1 /\ value % Modulus = value
  BY <1>14, <1>15, ModLaw
<1>17. cc' = value /\ deaf' \in (IF value = (counter + 1) % Modulus THEN BOOLEAN ELSE {FALSE})
  BY <1>2, <1>16 DEF rtc1_compare0_set
<1>18. TypeOK'
  <2>1. deaf' \in BOOLEAN
    BY <1>17
  <2> QED
    BY <1>1, <1>2, <1>16, <1>17, <2>1 DEF TypeOK
<1>19. Phases'
  BY <1>1, <1>2, <1>3, <1>4, <1>7, <1>17 DEF Phases
<1>20. Updating'
  <2>1. value = pre + OffsetMin \/ (value >= pre + OffsetMin /\ \A t \in Listed : value <= When[t])
    BY <1>8, <1>15
  <2> QED
    BY <1>2, <1>4, <1>9, <1>11, <1>17, <2>1 DEF Updating
<1> QED
  BY <1>6, <1>18, <1>19, <1>20 DEF TimerInv

LEMMA ReadAgainKeeps ==
  ASSUME TimerInv, ReadAgain
  PROVE  TimerInv'
<1>1. /\ TypeOK /\ Members /\ Due /\ Phases /\ Near /\ Updating
  BY DEF TimerInv
<1>2. /\ level = "post" /\ level' = "thread" /\ pre' = 0 /\ lag' = 0
      /\ IF ticks_diff_get(counter, pre) + OffsetMin > ticks_diff_get(cc, pre)
         THEN rtc1_compare0_set(counter) /\ rtc1_pending' = TRUE
         ELSE UNCHANGED <<cc, deaf, rtc1_pending>>
      /\ UNCHANGED <<counter, rtc1_running, swi_pending, list, ticks_to_expire, is_running,
                     periodic, elapsed, op, call, want, left>>
  BY DEF ReadAgain, listVars, histVars
<1>3. /\ op = NoOp /\ op.type # "start" /\ elapsed = NoTicks /\ ~swi_pending /\ Taken = {}
  BY <1>2, CompareQuiet
<1>4. Listed' = Listed /\ When' = When /\ Taken' = {} /\ elapsed' = NoTicks /\ op' = op
  <2>1. Listed' = Listed /\ When' = When
    BY <1>2, SameList
  <2> QED
    BY <1>2, <1>3, <2>1 DEF Taken
<1>5. \A u : (Stopped(u)' <=> Stopped(u)) /\ (Starting(u)' <=> FALSE) /\ (Starting(u) <=> FALSE)
  BY <1>2, <1>3 DEF Stopped, Starting
<1>6. Near' /\ Called' /\ Started' /\ Members' /\ Due' /\ Updating'
  BY <1>1, <1>2, <1>3, <1>4, <1>5 DEF Near, Called, Started, Members, Due, Updating
<1>7. list # << >> /\ rtc1_running /\ N >= 1
  BY <1>1, <1>2, WhenLaw DEF Phases
<1>8. PICK c \in 0 .. N - 1 : Chain(When, counter - lag + MaxLag + OffsetMin, c)
  BY <1>1, <1>2, <1>7 DEF Updating
<1>9. /\ counter \in Nat /\ counter <= Modulus - 1 /\ cc \in Nat /\ cc <= Modulus - 1 /\ lag \in Nat
      /\ pre \in Nat /\ lag <= MaxLag /\ MaxLag \in Nat /\ rtc1_pending \in BOOLEAN /\ deaf \in BOOLEAN
      /\ Modulus \in Nat /\ OffsetMin = 3 /\ FirstLate = 2 * MaxLag + 2
  BY <1>1, Typed, Numbers
<1>10. pre <= counter /\ counter - lag <= pre
  BY <1>1, <1>2, <1>7 DEF Updating
<1>11. \/ cc = pre + OffsetMin
       \/ cc >= pre + OffsetMin /\ \A t \in Listed : cc <= When[t]
  BY <1>1, <1>2, <1>7 DEF Updating
<1>12. Listed \subseteq Timers /\ When \in [Listed -> Int] /\ \A t \in Listed : When[t] \in Nat
  BY <1>1, WhenLaw
<1>13. ticks_diff_get(counter, pre) = counter - pre /\ ticks_diff_get(cc, pre) = cc - pre
  <2>1. pre <= cc
    BY <1>9, <1>11
  <2> QED
    BY <1>9, <1>10, <2>1, DiffLaw
<1>14. counter - lag + MaxLag + OffsetMin \in Int /\ counter + OffsetMin <= counter - lag + MaxLag + OffsetMin
  BY <1>9
<1>15. CASE counter + OffsetMin > cc
  <2>1. rtc1_compare0_set(counter) /\ rtc1_pending' = TRUE
    <3>1. ticks_diff_get(counter, pre) + OffsetMin > ticks_diff_get(cc, pre)
      BY <1>9, <1>13, <1>15
    <3> QED
      BY <1>2, <3>1
  <2>2. counter # (counter + 1) % Modulus
    <3>1. PICK t \in Listed : TRUE
      BY <1>1, <1>7, WhenLaw
    <3>2. When[t] + MaxLate + MaxLag <= Modulus - 2 /\ MaxLate \in Nat
      BY <1>1, Numbers DEF Near
    <3>3. Modulus >= 2
      BY <1>9, <1>12, <3>2
    <3>4. CASE counter = Modulus - 1
      <4>1. (counter + 1) % Modulus = 0
        BY <1>9, <3>3, <3>4
      <4> QED
        BY <1>9, <3>3, <3>4, <4>1
    <3>5. CASE counter < Modulus - 1
      <4>1. counter + 1 \in 0 .. Modulus - 1 /\ counter + 1 \in Int
        BY <1>9, <3>5
      <4>2. (counter + 1) % Modulus = counter + 1
        BY <4>1, ModLaw
      <4> QED
        BY <1>9, <4>2
    <3> QED
      BY <1>9, <3>4, <3>5
  <2>3. cc' = counter /\ deaf' = FALSE
    BY <2>1, <2>2 DEF rtc1_compare0_set
  <2>4. TypeOK'
    <3>1. counter \in 0 .. Modulus - 1 /\ 0 \in 0 .. Modulus - 1 /\ 0 \in 0 .. MaxLag
      BY <1>9
    <3> QED
      BY <1>1, <1>2, <2>1, <2>3, <3>1 DEF TypeOK
  <2>5. Phases'
    BY <1>1, <1>2, <1>3, <1>4, <1>7, <2>3 DEF Phases
  <2>6. Armed'
    <3>1. Chain(When, counter, c)
      <4>1. counter \in Int /\ counter <= counter - lag + MaxLag + OffsetMin
        BY <1>9
      <4> QED
        BY <1>8, <1>12, <1>14, <4>1, ChainEarlier
    <3>2. counter <= counter + 0 /\ counter <= counter + OffsetMin
      BY <1>9
    <3> QED
      BY <1>2, <1>4, <2>1, <2>3, <3>1, <3>2 DEF Armed
  <2> QED
    BY <1>6, <2>4, <2>5, <2>6 DEF TimerInv
<1>16. CASE counter + OffsetMin <= cc
  <2>1. cc' = cc /\ deaf' = deaf /\ rtc1_pending' = rtc1_pending
    <3>1. ~(ticks_diff_get(counter, pre) + OffsetMin > ticks_diff_get(cc, pre))
      BY <1>9, <1>13, <1>16
    <3> QED
      BY <1>2, <3>1
  <2>2. ~deaf
    <3>1. counter + 1 \in 0 .. Modulus - 1 /\ counter + 1 \in Int /\ cc # counter + 1
      BY <1>9, <1>16
    <3>2. (counter + 1) % Modulus = counter + 1
      BY <3>1, ModLaw
    <3> QED
      BY <1>1, <3>1, <3>2 DEF Phases
  <2>3. TypeOK'
    <3>1. 0 \in 0 .. Modulus - 1 /\ 0 \in 0 .. MaxLag
      BY <1>9
    <3> QED
      BY <1>1, <1>2, <2>1, <3>1 DEF TypeOK
  <2>4. Phases'
    BY <1>1, <1>2, <1>3, <1>4, <1>7, <2>1, <2>2 DEF Phases
  <2>5. IF rtc1_pending THEN counter <= cc + 0 ELSE counter < cc
    BY <1>9, <1>16
  <2>6. \E d \in 0 .. N - 1 : Chain(When, cc, d) /\ (d > 0 => cc <= counter + OffsetMin)
    <3>1. CASE cc = pre + OffsetMin
      <4>1. cc \in Int /\ cc <= counter - lag + MaxLag + OffsetMin /\ cc <= counter + OffsetMin
        BY <1>9, <1>10, <3>1
      <4>2. Chain(When, cc, c)
        BY <1>8, <1>12, <1>14, <4>1, ChainEarlier
      <4> QED
        BY <4>1, <4>2
    <3>2. CASE \A t \in Listed : cc <= When[t]
      <4>1. \A t \in Listed : cc <= When[t] + FirstLate
        BY <1>9, <1>12, <3>2
      <4>2. cc \in Int
        BY <1>9
      <4>3. Chain(When, cc, 0) /\ 0 \in 0 .. N - 1
        BY <1>7, <1>12, <4>1, <4>2, ChainFirst
      <4> QED
        BY <4>3
    <3> QED
      BY <1>11, <3>1, <3>2
  <2>7. Armed'
    BY <1>2, <1>4, <2>1, <2>5, <2>6 DEF Armed
  <2> QED
    BY <1>6, <2>3, <2>4, <2>7 DEF TimerInv
<1> QED
  BY <1>9, <1>15, <1>16

----------------------------------------------------------------------------
(* The interrupt of RTC1.                                                  *)

(* The first of the list, up to the k-th, are those that expire within n   *)
(* ticks, and within the ticks to the k-th.                                *)
Leading(k) == {list[i] : i \in 1 .. k}

Passed(ts, n, o) ==
  /\ ts = {t \in Listed : When[t] <= n}
  /\ \A t \in Listed : When[t] <= o <=> When[t] <= n
  /\ IF ts = {} THEN o = 0 ELSE \E t \in ts : When[t] = o

LEMMA ExpiredFirst ==
  ASSUME TypeOK, NEW n \in Nat, NEW k, k = Expired(list, ticks_to_expire, n),
         NEW o, o = Offset(list, ticks_to_expire, k)
  PROVE  k \in 0 .. Len(list) /\ o \in Nat /\ o <= n /\ Passed(Leading(k), n, o)
<1>1. list \in Seq(Timers) /\ IsInjective(list) /\ ticks_to_expire \in [Timers -> Nat] /\ Len(list) \in Nat
  BY WhenLaw DEF Listing
<1>2. /\ k \in 0 .. Len(list)
      /\ \A i \in 1 .. Len(list) : Offset(list, ticks_to_expire, i) <= n <=> i <= k
  <2>1. n \in Int
    OBVIOUS
  <2> QED
    BY <1>1, <2>1, ExpiredLaw
<1>3. \A i \in 1 .. Len(list) : list[i] \in Listed /\ When[list[i]] = Offset(list, ticks_to_expire, i)
  <2>1. \A i \in 1 .. Len(list) :
          list[i] \in Range(list) /\ Expiry(list, ticks_to_expire, list[i]) = Offset(list, ticks_to_expire, i)
    BY <1>1, ExpiryLaw
  <2> QED
    BY <2>1 DEF Listed, When
<1>4. \A t \in Listed : \E i \in 1 .. Len(list) : list[i] = t
  BY <1>1, PlaceLaw DEF Listed
<1>5. Leading(k) = {t \in Listed : When[t] <= n}
  <2>1. ASSUME NEW i \in 1 .. k PROVE list[i] \in Listed /\ When[list[i]] <= n
    <3>1. i \in 1 .. Len(list) /\ i <= k
      BY <1>1, <1>2
    <3> QED
      BY <1>2, <1>3, <3>1
  <2>2. ASSUME NEW t \in Listed, When[t] <= n PROVE t \in Leading(k)
    <3>1. PICK i \in 1 .. Len(list) : list[i] = t
      BY <1>4
    <3>2. i <= k
      BY <1>2, <1>3, <2>2, <3>1
    <3>3. i \in 1 .. k
      BY <1>2, <3>2
    <3> QED
      BY <3>1, <3>3 DEF Leading
  <2> QED
    BY <2>1, <2>2 DEF Leading
<1>6. o \in Nat
  BY <1>1, <1>2, OffsetSum
<1>7. CASE k = 0
  <2>1. o = 0
    BY <1>1, <1>7, OffsetSum
  <2>2. Leading(k) = {}
    BY <1>7 DEF Leading
  <2>3. \A t \in Listed : When[t] \in Nat /\ ~(When[t] <= n)
    BY <1>5, <2>2, WhenLaw
  <2>4. \A t \in Listed : When[t] <= o <=> When[t] <= n
    BY <2>1, <2>3
  <2> QED
    BY <1>2, <1>5, <2>1, <2>2, <2>4 DEF Passed
<1>8. CASE k # 0
  <2>1. k \in 1 .. Len(list) /\ k \in 1 .. k
    BY <1>1, <1>2, <1>8
  <2>2. list[k] \in Listed /\ When[list[k]] = o /\ o <= n /\ list[k] \in Leading(k)
    <3>1. k <= k
      BY <2>1
    <3>2. list[k] \in Leading(k)
      BY <2>1 DEF Leading
    <3> QED
      BY <1>2, <1>3, <2>1, <3>1, <3>2
  <2>3. ASSUME NEW t \in Listed PROVE When[t] <= o <=> When[t] <= n
    <3>1. When[t] \in Nat
      BY WhenLaw
    <3>2. ASSUME When[t] <= n PROVE When[t] <= o
      <4>1. PICK i \in 1 .. Len(list) : list[i] = t
        BY <1>4
      <4>2. i <= k
        BY <1>2, <1>3, <3>2, <4>1
      <4>3. i \in 0 .. Len(list) /\ k \in 0 .. Len(list)
        BY <1>1, <2>1
      <4>4. Offset(list, ticks_to_expire, i) <= Offset(list, ticks_to_expire, k)
        BY <1>1, <4>2, <4>3, OffsetMonotone
      <4> QED
        BY <1>3, <4>1, <4>4
    <3> QED
      BY <1>6, <2>2, <3>1, <3>2
  <2> QED
    BY <1>2, <1>5, <1>6, <2>2, <2>3 DEF Passed
<1> QED
  BY <1>7, <1>8
LEMMA RTC1Keeps ==
  ASSUME TimerInv, RTC1_IRQHandler
  PROVE  TimerInv'
<1>1. /\ TypeOK /\ Members /\ Due /\ Phases /\ Started /\ Near /\ Armed /\ Called
  BY DEF TimerInv
<1>2. /\ level = "thread" /\ rtc1_pending /\ rtc1_running /\ lag' = 0
      /\ rtc1_pending' \in (IF counter = cc THEN BOOLEAN ELSE {FALSE})
      /\ UNCHANGED <<counter, cc, deaf, rtc1_running, level, pre, list, ticks_to_expire, periodic, op, call>>
  BY DEF RTC1_IRQHandler, Rtc1Due
<1>3. list # << >>
  BY <1>1, <1>2 DEF Phases
<1>4. PICK k : k = Expired(list, ticks_to_expire, counter)
  OBVIOUS
<1>5. PICK ts : ts = Leading(k)
  OBVIOUS
<1>6. /\ Executed({t \in ts : is_running[t]})
      /\ is_running' = [t \in Timers |-> is_running[t] /\ t \notin ts]
      /\ elapsed' = Offset(list, ticks_to_expire, k) /\ swi_pending' = TRUE
  BY <1>3, <1>4, <1>5 DEF RTC1_IRQHandler, Leading
<1>7. PICK o : o = elapsed'
  OBVIOUS
<1>8. /\ counter \in Nat /\ counter <= Modulus - 1 /\ cc \in Nat /\ lag \in Nat /\ lag <= MaxLag
      /\ Modulus \in Nat /\ MaxLag \in Nat /\ MaxLate \in Nat /\ AllLate = MaxLate - MaxLag /\ NoTicks = -1
      /\ elapsed \in Int
  BY <1>1, Typed, Numbers
<1>9. /\ o \in Nat /\ o <= counter
      /\ ts = {t \in Listed : When[t] <= counter}
      /\ \A t \in Listed : When[t] <= o <=> When[t] <= counter
      /\ IF ts = {} THEN o = 0 ELSE \E t \in ts : When[t] = o
  <2>1. o = Offset(list, ticks_to_expire, k)
    BY <1>6, <1>7
  <2>2. o \in Nat /\ o <= counter /\ Passed(Leading(k), counter, o)
    BY <1>1, <1>4, <1>8, <2>1, ExpiredFirst
  <2> QED
    BY <1>5, <2>2 DEF Passed
<1>10. Listed \subseteq Timers /\ \A t \in Listed : When[t] \in Nat
  BY <1>1, WhenLaw
<1>11. Listed' = Listed /\ When' = When /\ op' = op
  BY <1>2, SameList
<1>12. Taken' = ts
  <2>1. o # NoTicks
    BY <1>8, <1>9
  <2> QED
    BY <1>7, <1>9, <1>11, <2>1 DEF Taken
<1>13. Taken \subseteq ts
  <2> SUFFICES ASSUME NEW t \in Taken PROVE t \in ts
    OBVIOUS
  <2>1. t \in Listed /\ elapsed # NoTicks /\ When[t] <= elapsed
    BY DEF Taken
  <2>2. elapsed \in 0 .. counter
    BY <1>1, <2>1 DEF Called
  <2>3. When[t] <= counter
    BY <1>8, <1>10, <2>1, <2>2
  <2> QED
    BY <1>9, <2>1, <2>3
<1>14. \A t \in Listed : t \notin ts => When[t] > counter
  BY <1>8, <1>9, <1>10
<1>15. \A t : (Stopped(t)' <=> Stopped(t)) /\ (Starting(t)' <=> Starting(t))
  BY <1>2 DEF Stopped, Starting
<1>16. /\ want' = {t \in want : (t \in ts /\ is_running[t]) => t \in Repeated \/ Starting(t)}
       /\ left' = [t \in Timers |->
            IF ~(t \in ts /\ is_running[t] /\ t \in want) THEN left[t]
            ELSE IF t \in Repeated THEN left[t] + periodic[t]
            ELSE IF Starting(t) THEN op.ticks - op.waited ELSE 0]
  BY <1>6 DEF Executed, Starting
<1>17. /\ is_running \in [Timers -> BOOLEAN] /\ left \in [Timers -> Int] /\ want \subseteq Timers
       /\ \A t \in Timers : left[t] \in Int /\ periodic[t] \in Nat
       /\ \A t \in Timers : is_running'[t] <=> is_running[t] /\ t \notin ts
  BY <1>1, <1>6, Typed
<1>18. TypeOK'
  <2>1. is_running' \in [Timers -> BOOLEAN]
    BY <1>6, <1>17
  <2>2. elapsed' \in -1 .. Modulus - 1
    BY <1>7, <1>8, <1>9
  <2>3. left' \in [Timers -> Int]
    <3> SUFFICES ASSUME NEW t \in Timers
                 PROVE  (IF ~(t \in ts /\ is_running[t] /\ t \in want) THEN left[t]
                         ELSE IF t \in Repeated THEN left[t] + periodic[t]
                         ELSE IF Starting(t) THEN op.ticks - op.waited ELSE 0) \in Int
      BY <1>16
    <3>1. Starting(t) => op.ticks - op.waited \in Int
      <4>1. Starting(t) => op.ticks \in Nat /\ op.waited \in Nat
        BY <1>1, OpTyped DEF Starting
      <4> QED
        BY <4>1
    <3>2. left[t] \in Int /\ left[t] + periodic[t] \in Int
      BY <1>17
    <3> QED
      BY <3>1, <3>2
  <2>4. want' \subseteq Timers
    BY <1>16, <1>17
  <2>5. rtc1_pending' \in BOOLEAN
    BY <1>2
  <2>6. lag' \in 0 .. MaxLag
    BY <1>2, <1>8
  <2> QED
    BY <1>1, <1>2, <1>6, <2>1, <2>2, <2>3, <2>4, <2>5, <2>6 DEF TypeOK
<1>19. Members'
  <2>1. \A t \in Timers : is_running'[t] => t \in Listed' \ Taken'
    BY <1>1, <1>11, <1>12, <1>17 DEF Members
  <2>2. \A t \in Listed' : periodic'[t] # 0 <=> t \in Repeated
    BY <1>1, <1>2, <1>11 DEF Members
  <2>3. \A t \in Listed' \ Taken' : is_running'[t] \/ Stopped(t)'
    BY <1>1, <1>10, <1>11, <1>12, <1>13, <1>15, <1>17 DEF Members
  <2>4. \A t \in want' : (t \in Listed' /\ (is_running'[t] \/ (t \in Taken' /\ t \in Repeated))) \/ Starting(t)'
    BY <1>1, <1>10, <1>11, <1>12, <1>13, <1>15, <1>16, <1>17 DEF Members
  <2>5. \A t \in Listed' \ want' : Stopped(t)' \/ op'.type = "stop_all" \/ (t \in Taken' /\ t \notin Repeated)
    BY <1>1, <1>11, <1>12, <1>13, <1>15, <1>16 DEF Members
  <2>6. \A t \in want' : ~Stopped(t)' /\ op'.type # "stop_all"
    BY <1>1, <1>11, <1>15, <1>16 DEF Members
  <2>7. op'.type = "start" => op'.timer \in want'
    BY <1>1, <1>11, <1>16 DEF Members, Starting
  <2> QED
    BY <2>1, <2>2, <2>3, <2>4, <2>5, <2>6, <2>7 DEF Members
<1>20. Due'
  <2> SUFFICES ASSUME NEW t \in want'
               PROVE  left'[t] = IF is_running'[t] THEN When[t] - counter
                                 ELSE IF t \in ts /\ t \in Repeated THEN When[t] + periodic[t] - counter
                                 ELSE op.ticks - op.waited
    BY <1>2, <1>11, <1>12 DEF Due
  <2>1. t \in want /\ t \in Timers
    BY <1>16, <1>17
  <2>2. left[t] = IF is_running[t] THEN When[t] - counter
                  ELSE IF t \in Taken /\ t \in Repeated THEN When[t] + periodic[t] - counter
                  ELSE op.ticks - op.waited
    BY <1>1, <2>1 DEF Due
  <2>3. CASE is_running[t] /\ t \in ts
    <3>1. left[t] = When[t] - counter /\ When[t] \in Nat /\ periodic[t] \in Nat
      BY <1>9, <1>10, <1>17, <2>1, <2>2, <2>3
    <3>2. t \in Repeated => left'[t] = left[t] + periodic[t]
      BY <1>16, <2>1, <2>3
    <3>3. t \notin Repeated => left'[t] = op.ticks - op.waited
      BY <1>16, <2>1, <2>3
    <3>4. left[t] + periodic[t] = When[t] + periodic[t] - counter
      BY <1>8, <3>1
    <3> QED
      BY <1>17, <2>1, <2>3, <3>2, <3>3, <3>4
  <2>4. CASE ~(is_running[t] /\ t \in ts)
    <3>1. left'[t] = left[t] /\ (is_running'[t] <=> is_running[t])
      BY <1>16, <1>17, <2>1, <2>4
    <3>2. ~is_running[t] /\ t \in ts => t \in Taken
      BY <1>1, <1>9, <2>1 DEF Members
    <3> QED
      BY <1>13, <2>2, <3>1, <3>2
  <2> QED
    BY <2>3, <2>4
<1>21. Phases'
  BY <1>1, <1>2, <1>3, <1>6, <1>11 DEF Phases
<1>22. counter <= cc + lag /\ \A t \in Listed : cc <= When[t] + AllLate
  <2>1. CASE elapsed = NoTicks
    BY <1>1, <1>2, <1>3, <2>1, Lateness DEF Armed
  <2>2. CASE elapsed # NoTicks
    BY <1>1, <1>2, <1>8, <2>2 DEF Called
  <2> QED
    BY <2>1, <2>2
<1>23. rtc1_pending' => counter = cc
  BY <1>2
<1>24. Called'
  <2>1. o \in 0 .. counter
    BY <1>8, <1>9
  <2>2. counter <= cc + 0 + (IF rtc1_pending' THEN 0 ELSE MaxLag)
    BY <1>8, <1>22, <1>23
  <2>3. \A t \in Listed : cc <= When[t] + AllLate /\ o <= When[t] + MaxLate
    <3> SUFFICES ASSUME NEW t \in Listed PROVE o <= When[t] + MaxLate
      BY <1>22
    <3>1. cc <= When[t] + AllLate /\ When[t] \in Nat
      BY <1>10, <1>22
    <3> QED
      BY <1>8, <1>9, <1>22, <3>1
  <2>4. \A t \in Listed \ ts : When[t] > counter - 0
    BY <1>8, <1>14
  <2> QED
    BY <1>2, <1>7, <1>9, <1>11, <1>12, <2>1, <2>2, <2>3, <2>4 DEF Called
<1>25. o # NoTicks
  BY <1>8, <1>9
<1>26. Started'
  <2> SUFFICES ASSUME op.type = "start"
               PROVE  /\ op.at < HalfRange /\ op.at + op.waited = counter /\ counter >= cc
                      /\ IF rtc1_pending' THEN op.waited <= 2 * MaxLag + 0 /\ counter = cc + 0
                         ELSE op.waited <= 3 * MaxLag + 0
    BY <1>2, <1>7, <1>11, <1>25 DEF Started
  <2>1. op.waited \in Nat
    BY <1>1, OpTyped
  <2>2. op.at < HalfRange /\ op.at + op.waited = counter /\ counter >= cc
    BY <1>1, <1>2 DEF Started
  <2>3. CASE elapsed = NoTicks
    <3>1. op.waited <= (IF call = <<"queued">> THEN 0 ELSE MaxLag) + lag
      BY <1>1, <2>3 DEF Started
    <3>2. op.waited <= 2 * MaxLag
      BY <1>8, <2>1, <3>1
    <3> QED
      BY <1>8, <1>23, <2>1, <2>2, <3>2
  <2>4. CASE elapsed # NoTicks
    <3>1. op.waited <= 2 * MaxLag + lag /\ counter = cc + lag
      BY <1>1, <1>2, <2>4 DEF Started
    <3> QED
      BY <1>8, <1>23, <2>1, <2>2, <3>1
  <2> QED
    BY <2>3, <2>4
<1>27. Near' /\ Armed' /\ Updating'
  BY <1>1, <1>2, <1>7, <1>11, <1>25 DEF Near, Armed, Updating
<1> QED
  BY <1>18, <1>19, <1>20, <1>21, <1>24, <1>26, <1>27 DEF TimerInv

----------------------------------------------------------------------------
(* The software interrupt.                                                 *)

(* An interval from a time that is over is what is left of it.             *)
LEMMA TicksFromLaw ==
  ASSUME NEW p \in Intervals, NEW when \in Nat, when <= Modulus - 1, NEW n \in Nat, n <= Modulus - 1,
         n <= when + p, when < n + HalfRange
  PROVE  TicksFrom(ticks_diff_get(when, n), p) = when + p - n
<1>1. p \in Nat /\ p + MaxLate + MaxLag <= HalfRange /\ MaxLate \in Nat /\ MaxLag \in Nat /\ Modulus \in Nat
      /\ HalfRange \in Nat /\ 2 * HalfRange <= Modulus - 1 /\ p > 0
  BY IntervalLaw, Numbers, HalfLaw
<1>2. PICK d : d = ticks_diff_get(when, n)
  OBVIOUS
<1>3. CASE n <= when
  <2>1. d = when - n
    BY <1>2, <1>3, DiffLaw
  <2>2. d < HalfRange /\ d + p = when + p - n
    BY <1>1, <1>3, <2>1
  <2> QED
    BY <1>2, <2>2 DEF TicksFrom
<1>4. CASE n > when
  <2>1. d = when - n + Modulus
    <3>1. n <= Modulus
      BY <1>1
    <3> QED
      BY <1>2, <1>4, <3>1, DiffLaw
  <2>2. d \in Nat /\ d > 0 /\ d <= Modulus - 1 /\ ~(d < HalfRange)
    BY <1>1, <1>4, <2>1
  <2>3. ticks_diff_get(0, d) = 0 - d + Modulus
    <3>1. d > 0 /\ d <= Modulus /\ 0 \in Nat /\ 0 <= Modulus - 1
      BY <1>1, <2>2
    <3> QED
      BY <2>2, <3>1, DiffLaw
  <2>4. PICK y : y = p - ticks_diff_get(0, d)
    OBVIOUS
  <2>5. y \in Nat /\ y = when + p - n
    BY <1>1, <1>4, <2>1, <2>3, <2>4
  <2>6. Max({0, y}) = y
    BY <2>5 DEF Max
  <2>7. TicksFrom(d, p) = Max({0, y})
    BY <2>2, <2>4 DEF TicksFrom
  <2> QED
    BY <1>2, <2>5, <2>6, <2>7
<1> QED
  BY <1>3, <1>4

(* The timers that go from the list, when the others expire next, and who  *)
(* runs when the repeated ones have been restarted.                        *)
Over      == Taken \ Repeated
Anew(t)   == IF t \in Taken THEN When[t] + periodic[t] ELSE When[t]
Active(t) == is_running[t] \/ t \in Taken \cap Repeated

Updated(n, s) ==
  /\ s \in Lists /\ IsInjective(s.list) /\ Range(s.list) = Listed \ Over
  /\ \A t \in Listed \ Over : Expiry(s.list, s.ticks, t) + n = Anew(t)
  /\ \A t \in Timers \ (Listed \ Over) : s.ticks[t] <= ticks_to_expire[t]
  /\ elapsed = NoTicks => s.list = list

(* How far the handlers have got.                                          *)
Reached(n, k) ==
  /\ n = (IF elapsed = NoTicks THEN 0 ELSE elapsed) /\ n \in Nat /\ n <= counter
  /\ k \in 0 .. Len(list) /\ n = Offset(list, ticks_to_expire, k)
  /\ Leading(k) = Taken
  /\ elapsed = NoTicks => k = 0

LEMMA HandlerReaches ==
  ASSUME TimerInv, NEW n, n = Max({elapsed, 0}),
         NEW k, k = (IF elapsed = NoTicks THEN 0 ELSE Expired(list, ticks_to_expire, n))
  PROVE  Reached(n, k)
<1>1. TypeOK /\ Called
  BY DEF TimerInv
<1>2. counter \in Nat /\ NoTicks = -1 /\ \A t \in Listed : When[t] \in Nat
  BY <1>1, Typed, Numbers, WhenLaw
<1>3. list \in Seq(Timers) /\ Len(list) \in Nat /\ ticks_to_expire \in [Timers -> Nat]
  BY <1>1, WhenLaw DEF Listing
<1>4. CASE elapsed = NoTicks
  <2>1. n = 0
    <3>1. Max({-1, 0}) = 0
      BY DEF Max
    <3> QED
      BY <1>2, <1>4, <3>1
  <2>2. k = 0 /\ Taken = {} /\ Leading(k) = {}
    BY <1>4 DEF Taken, Leading
  <2>3. Offset(list, ticks_to_expire, 0) = 0
    BY <1>3, OffsetSum
  <2> QED
    BY <1>2, <1>3, <1>4, <2>1, <2>2, <2>3 DEF Reached
<1>5. CASE elapsed # NoTicks
  <2>1. /\ elapsed \in 0 .. counter
        /\ IF Taken = {} THEN elapsed = 0 ELSE \E t \in Taken : When[t] = elapsed
    BY <1>1, <1>5 DEF Called
  <2>2. n = elapsed /\ n \in Nat /\ n <= counter
    <3>1. PICK e \in Nat : e = elapsed /\ e <= counter
      BY <1>2, <2>1
    <3>2. Max({e, 0}) = e
      BY DEF Max
    <3> QED
      BY <3>1, <3>2
  <2>3. PICK o : o = Offset(list, ticks_to_expire, k)
    OBVIOUS
  <2>4. k = Expired(list, ticks_to_expire, n)
    BY <1>5
  <2>5. k \in 0 .. Len(list) /\ o \in Nat /\ o <= n /\ Passed(Leading(k), n, o)
    BY <1>1, <2>2, <2>3, <2>4, ExpiredFirst
  <2>6. Leading(k) = Taken
    BY <1>5, <2>2, <2>5 DEF Passed, Taken
  <2>7. n = o
    <3>1. CASE Taken = {}
      BY <2>1, <2>2, <2>5, <2>6, <3>1 DEF Passed
    <3>2. CASE Taken # {}
      <4>1. PICK t \in Taken : When[t] = n
        BY <2>1, <2>2, <3>2
      <4>2. t \in Listed
        BY DEF Taken
      <4>3. When[t] <= o
        <5>1. When[t] <= o <=> When[t] <= n
          BY <2>5, <4>2 DEF Passed
        <5> QED
          BY <2>2, <4>1, <5>1
      <4> QED
        BY <2>2, <2>5, <4>1, <4>3
    <3> QED
      BY <3>1, <3>2
  <2> QED
    BY <1>5, <2>2, <2>3, <2>5, <2>6, <2>7 DEF Reached
<1> QED
  BY <1>4, <1>5

LEMMA RestartedOnes ==
  ASSUME TimerInv, NEW n, NEW k, Reached(n, k)
  PROVE  /\ Restarted(k) = Taken \cap Repeated /\ Taken \subseteq Listed
         /\ \A t \in Taken : When[t] \in Nat /\ When[t] <= n /\ n <= When[t] + MaxLate
<1>1. TypeOK /\ Members /\ Called
  BY DEF TimerInv
<1>2. k \in 0 .. Len(list) /\ Leading(k) = Taken /\ n = (IF elapsed = NoTicks THEN 0 ELSE elapsed)
  BY DEF Reached
<1>3. Taken \subseteq Listed
  BY DEF Taken
<1>4. Restarted(k) = {t \in Leading(k) : periodic[t] # 0}
  BY DEF Restarted, Leading
<1>5. Restarted(k) = Taken \cap Repeated
  BY <1>1, <1>2, <1>3, <1>4 DEF Members
<1>6. ASSUME NEW t \in Taken PROVE When[t] \in Nat /\ When[t] <= n /\ n <= When[t] + MaxLate
  <2>1. t \in Listed /\ elapsed # NoTicks /\ When[t] <= elapsed
    BY DEF Taken
  <2>2. n = elapsed /\ elapsed <= When[t] + MaxLate /\ When[t] \in Nat
    BY <1>1, <1>2, <2>1, WhenLaw DEF Called
  <2> QED
    BY <2>1, <2>2
<1> QED
  BY <1>3, <1>5, <1>6

LEMMA HandlerUpdates ==
  ASSUME TimerInv, NEW n, NEW k, Reached(n, k), NEW s, s = Restart(Remaining(k, n), k, n)
  PROVE  Updated(n, s)
<1>1. TypeOK /\ Members
  BY DEF TimerInv
<1>2. /\ n \in Nat /\ n <= counter /\ k \in 0 .. Len(list) /\ n = Offset(list, ticks_to_expire, k)
      /\ Leading(k) = Taken /\ (elapsed = NoTicks => k = 0)
  BY DEF Reached
<1>3. /\ Restarted(k) = Taken \cap Repeated /\ Taken \subseteq Listed
      /\ \A t \in Taken : When[t] \in Nat /\ When[t] <= n /\ n <= When[t] + MaxLate
  BY RestartedOnes
<1>4. /\ Listing /\ list \in Seq(Timers) /\ Len(list) \in Nat /\ IsInjective(list)
      /\ ticks_to_expire \in [Timers -> Nat]
      /\ Listed \subseteq Timers /\ \A t \in Listed : When[t] \in Nat
  BY <1>1, WhenLaw DEF Listing
<1>5. PICK r : r = Remaining(k, n)
  OBVIOUS
<1>6. /\ r \in Lists /\ CutOff(list, ticks_to_expire, k, r.list, r.ticks)
      /\ \A u \in Timers : r.ticks[u] <= ticks_to_expire[u]
  BY <1>2, <1>4, <1>5, RemainingLaw
<1>7. Range(r.list) = Listed \ Taken /\ IsInjective(r.list)
  <2>1. Range(r.list) = {list[i] : i \in k + 1 .. Len(list)} /\ IsInjective(r.list)
    BY <1>6 DEF CutOff
  <2>2. ASSUME NEW i \in k + 1 .. Len(list) PROVE list[i] \in Listed \ Taken
    <3>1. i \in 1 .. Len(list) /\ i \notin 1 .. k
      BY <1>2, <1>4
    <3>2. list[i] \in Listed
      BY <1>4, <3>1 DEF Listed, Range
    <3>3. list[i] \notin Leading(k)
      <4>1. ASSUME NEW j \in 1 .. k, list[i] = list[j] PROVE FALSE
        <5>1. j \in 1 .. Len(list) /\ DOMAIN list = 1 .. Len(list)
          BY <1>2, <1>4
        <5>2. i = j
          BY <1>4, <3>1, <4>1, <5>1 DEF IsInjective
        <5> QED
          BY <3>1, <5>2
      <4> QED
        BY <4>1 DEF Leading
    <3> QED
      BY <1>2, <3>2, <3>3
  <2>3. ASSUME NEW t \in Listed \ Taken PROVE \E i \in k + 1 .. Len(list) : t = list[i]
    <3>1. PICK i \in 1 .. Len(list) : list[i] = t
      BY <1>4, PlaceLaw DEF Listed
    <3>2. i \notin 1 .. k
      BY <1>2, <3>1 DEF Leading
    <3>3. i \in k + 1 .. Len(list)
      BY <1>2, <1>4, <3>2
    <3> QED
      BY <3>1, <3>3
  <2> QED
    BY <2>1, <2>2, <2>3
<1>8. \A t \in Listed \ Taken : Expiry(r.list, r.ticks, t) + n = When[t]
  <2> SUFFICES ASSUME NEW t \in Listed \ Taken PROVE Expiry(r.list, r.ticks, t) + n = When[t]
    OBVIOUS
  <2>1. Expiry(r.list, r.ticks, t) = Expiry(list, ticks_to_expire, t) - Offset(list, ticks_to_expire, k)
    BY <1>6, <1>7 DEF CutOff
  <2>2. When[t] = Expiry(list, ticks_to_expire, t) /\ When[t] \in Nat
    BY <1>4 DEF When
  <2> QED
    BY <1>2, <2>1, <2>2
<1>9. \A t \in Restarted(k) : Again(Place(list, t), n) \in Nat /\ Again(Place(list, t), n) + n = When[t] + periodic[t]
  <2> SUFFICES ASSUME NEW t \in Restarted(k)
               PROVE  Again(Place(list, t), n) \in Nat /\ Again(Place(list, t), n) + n = When[t] + periodic[t]
    OBVIOUS
  <2>1. t \in Taken /\ t \in Listed /\ t \in Timers /\ t \in Repeated
    BY <1>3, <1>4
  <2>2. PICK p : p = periodic[t]
    OBVIOUS
  <2>3. p \in Intervals
    <3>1. p # 0
      BY <1>1, <2>1, <2>2 DEF Members
    <3> QED
      BY <1>1, <2>1, <2>2, <3>1 DEF TypeOK
  <2>4. PICK w : w = When[t]
    OBVIOUS
  <2>5. w \in Nat /\ w <= n /\ n <= w + MaxLate
    BY <1>3, <2>1, <2>4
  <2>6. /\ p \in Nat /\ p > MaxLate /\ MaxLate \in Nat /\ MaxLag \in Nat /\ p + MaxLate + MaxLag <= HalfRange
        /\ HalfRange \in Nat /\ Modulus \in Nat /\ counter \in Nat /\ counter <= Modulus - 1
    BY <1>1, <2>3, IntervalLaw, Numbers, HalfLaw, Typed
  <2>7. w <= Modulus - 1 /\ n <= Modulus - 1 /\ n <= w + p /\ w < n + HalfRange
    BY <1>2, <2>3, <2>5, <2>6, IntervalLaw
  <2>8. TicksFrom(ticks_diff_get(w, n), p) = w + p - n
    BY <1>2, <2>3, <2>5, <2>7, TicksFromLaw
  <2>9. list[Place(list, t)] = t /\ Offset(list, ticks_to_expire, Place(list, t)) = w
    <3>1. list[Place(list, t)] = t
      BY <1>4, <2>1, PlaceLaw DEF Listed
    <3>2. Offset(list, ticks_to_expire, Place(list, t)) = w
      BY <2>1, <2>4 DEF When, Expiry
    <3> QED
      BY <3>1, <3>2
  <2>10. Again(Place(list, t), n) = w + p - n
    BY <2>2, <2>8, <2>9 DEF Again
  <2>11. PICK a : a = Again(Place(list, t), n)
    OBVIOUS
  <2>12. a \in Nat /\ a + n = w + p
    <3>1. a = w + p - n
      BY <2>2, <2>10, <2>11
    <3>2. w \in Nat /\ p \in Nat /\ n \in Nat /\ n <= w + p
      BY <1>2, <2>5, <2>6, <2>7
    <3> QED
      BY <3>1, <3>2, RestOf, SMTT(30)
  <2> QED
    BY <2>2, <2>4, <2>11, <2>12
<1>10. \A t \in Restarted(k) : New(t, r.list) /\ Again(Place(list, t), n) \in Nat
  BY <1>3, <1>7, <1>9 DEF New
<1>11. Redone(r, k, n, k, s)
  BY <1>2, <1>4, <1>5, <1>6, <1>7, <1>10, RestartLaw
<1>12. Back(k, k) = Restarted(k)
  <2> SUFFICES ASSUME NEW t \in Restarted(k) PROVE Place(list, t) > k - k
    BY DEF Back
  <2>1. Place(list, t) \in 1 .. Len(list)
    BY <1>3, <1>4, PlaceLaw DEF Listed
  <2> QED
    BY <1>2, <1>4, <2>1
<1>13. /\ s \in Lists /\ IsInjective(s.list) /\ Range(s.list) = (Listed \ Taken) \cup Restarted(k)
       /\ \A u \in Listed \ Taken : Expiry(s.list, s.ticks, u) = Expiry(r.list, r.ticks, u)
       /\ \A u \in Restarted(k) : Expiry(s.list, s.ticks, u) = Again(Place(list, u), n)
       /\ \A u \in Timers \ Range(s.list) : s.ticks[u] <= r.ticks[u]
  BY <1>7, <1>11, <1>12 DEF Redone
<1>14. Range(s.list) = Listed \ Over
  BY <1>3, <1>13 DEF Over
<1>15. ASSUME NEW t \in Listed \ Over PROVE Expiry(s.list, s.ticks, t) + n = Anew(t)
  <2>1. CASE t \in Taken
    <3>1. t \in Restarted(k)
      BY <1>3, <1>15, <2>1 DEF Over
    <3> QED
      BY <1>9, <1>13, <2>1, <3>1 DEF Anew
  <2>2. CASE t \notin Taken
    BY <1>8, <1>13, <1>15, <2>2 DEF Anew
  <2> QED
    BY <2>1, <2>2
<1>16. ASSUME NEW t \in Timers \ (Listed \ Over) PROVE s.ticks[t] <= ticks_to_expire[t]
  <2>1. s.ticks[t] <= r.ticks[t] /\ r.ticks[t] <= ticks_to_expire[t]
    BY <1>6, <1>13, <1>14, <1>16
  <2>2. s.ticks[t] \in Nat /\ r.ticks[t] \in Nat /\ ticks_to_expire[t] \in Nat
    BY <1>4, <1>6, <1>13, <1>16 DEF Lists
  <2> QED
    BY <2>1, <2>2
<1>17. ASSUME elapsed = NoTicks PROVE s.list = list
  <2>1. k = 0
    BY <1>2, <1>17
  <2>2. s = r
    <3>1. PICK f : f[0] = r /\ Restart(r, 0, n) = f[0]
      <4>1. 0 \in Nat
        OBVIOUS
      <4> QED
        BY <4>1, RestartSteps
    <3> QED
      BY <1>5, <2>1, <3>1
  <2>3. r.list = SubSeq(list, 1, Len(list))
    BY <1>5, <2>1 DEF Remaining
  <2>4. SubSeq(list, 1, Len(list)) = list
    BY <1>4
  <2> QED
    BY <2>2, <2>3, <2>4
<1> QED
  BY <1>13, <1>14, <1>15, <1>16, <1>17 DEF Updated

(* What the queued operation brings in and takes out, and what comes of    *)
(* the list with it.                                                       *)
In   == {t \in Timers : Starting(t) /\ ~Active(t)}
Gone == {t \in Timers : op.type = "stop_all" \/ (op.type = "stop" /\ op.timer = t)}

Changed(n) ==
  /\ list' \in Seq(Timers) /\ IsInjective(list') /\ ticks_to_expire' \in [Timers -> Nat]
  /\ is_running' \in [Timers -> BOOLEAN] /\ periodic' \in [Timers -> Intervals \cup {0}]
  /\ Listed' = ((Listed \ Over) \ Gone) \cup In
  /\ \A t \in Listed' \ In : When'[t] + n = Anew(t)
  /\ \A t \in In : t \notin Listed \ Over /\ When'[t] + n = op.at + op.ticks
  /\ \A t \in Timers \ Listed' :
       IF t \in Listed \ Over THEN ticks_to_expire'[t] + n <= Anew(t)
       ELSE ticks_to_expire'[t] <= ticks_to_expire[t]
  /\ \A t \in Timers : is_running'[t] = ((Active(t) /\ t \notin Gone) \/ t \in In)
  /\ \A t \in Timers : periodic'[t] = IF t \notin In THEN periodic[t]
                                      ELSE IF t \in Repeated THEN op.ticks ELSE 0
  /\ elapsed = NoTicks /\ list' # << >> =>
       \/ Head(list') \in In
       \/ list # << >> /\ (Head(list') = Head(list) \/ Head(list) \in Gone)

Runs(running) == running = [t \in Timers |-> Active(t)]

LEMMA ActiveLaw ==
  ASSUME TimerInv
  PROVE  /\ \A t \in Timers : Active(t) \in BOOLEAN /\ (Active(t) => t \in Listed \ Over)
         /\ \A t \in Listed \ Over : t \in Timers /\ (Active(t) \/ Stopped(t))
         /\ \A t \in want : t \in Timers /\ ~Stopped(t) /\ ((t \in Listed \ Over /\ Active(t)) \/ Starting(t))
         /\ \A t \in (Listed \ Over) \ want : Stopped(t) \/ op.type = "stop_all"
         /\ op.type = "start" => op.timer \in want
         /\ op.type = "stop_all" => want = {}
         /\ \A t : Stopped(t) => (op.type = "stop" /\ op.timer = t) \/ op = NoOp
<1>1. TypeOK /\ Members /\ Phases
  BY DEF TimerInv
<1>2. Taken \subseteq Listed /\ Listed \subseteq Timers /\ want \subseteq Timers
      /\ \A t \in Timers : is_running[t] \in BOOLEAN
  BY <1>1, WhenLaw, Typed DEF Taken
<1>3. \A t \in Timers : Active(t) \in BOOLEAN /\ (Active(t) => t \in Listed \ Over)
  BY <1>1, <1>2 DEF Members, Active, Over
<1>4. \A t \in Listed \ Over : t \in Timers /\ (Active(t) \/ Stopped(t))
  BY <1>1, <1>2 DEF Members, Active, Over
<1>5. \A t \in want : t \in Timers /\ ~Stopped(t) /\ ((t \in Listed \ Over /\ Active(t)) \/ Starting(t))
  BY <1>1, <1>2 DEF Members, Active, Over
<1>6. \A t \in (Listed \ Over) \ want : Stopped(t) \/ op.type = "stop_all"
  BY <1>1, <1>2 DEF Members, Over
<1>7. \A t : Stopped(t) => (op.type = "stop" /\ op.timer = t) \/ op = NoOp
  <2> SUFFICES ASSUME NEW t, Stopped(t), ~(op.type = "stop" /\ op.timer = t) PROVE op = NoOp
    OBVIOUS
  <2>1. call = <<"stopping", t>>
    BY DEF Stopped
  <2>2. t \in Timers
    BY <1>1, <2>1 DEF TypeOK, Calls
  <2> QED
    BY <1>1, <2>1, <2>2 DEF Phases
<1> QED
  BY <1>1, <1>3, <1>4, <1>5, <1>6, <1>7 DEF Members

LEMMA OperateStarts ==
  ASSUME TimerInv, NEW n, NEW k, Reached(n, k), NEW s, Updated(n, s), NEW running, Runs(running),
         Operate(s, running, n), Starts(running)
  PROVE  Changed(n)
<1>1. TypeOK /\ Started
  BY DEF TimerInv
<1>2. op.type = "start" /\ ~running[op.timer]
  BY DEF Starts
<1>3. PICK u : u = op.timer
  OBVIOUS
<1>4. /\ u \in Timers /\ op.at \in Nat /\ op.at <= Modulus - 1 /\ op.ticks \in Intervals
      /\ op.waited \in Nat /\ op.ticks \in Nat /\ op # NoOp
  BY <1>1, <1>2, <1>3, OpTyped
<1>5. PICK p, at : p = op.ticks /\ at = op.at
  OBVIOUS
<1>6. PICK r : r = timer_list_insert(s, u, TicksFrom(ticks_diff_get(at, n), p))
  OBVIOUS
<1>7. /\ list' = r.list /\ ticks_to_expire' = r.ticks
      /\ is_running' = [running EXCEPT ![u] = TRUE]
      /\ periodic' = [periodic EXCEPT ![u] = IF u \in Repeated THEN p ELSE 0]
  <2>1. /\ list' = timer_list_insert(s, op.timer, TicksFrom(ticks_diff_get(op.at, n), op.ticks)).list
        /\ ticks_to_expire' =
             timer_list_insert(s, op.timer, TicksFrom(ticks_diff_get(op.at, n), op.ticks)).ticks
        /\ is_running' = [running EXCEPT ![op.timer] = TRUE]
        /\ periodic' = [periodic EXCEPT ![op.timer] = IF op.timer \in Repeated THEN op.ticks ELSE 0]
    BY <1>2 DEF Operate
  <2> QED
    BY <1>3, <1>5, <1>6, <2>1
<1>8. /\ s \in Lists /\ IsInjective(s.list) /\ Range(s.list) = Listed \ Over
      /\ \A t \in Listed \ Over : Expiry(s.list, s.ticks, t) + n = Anew(t)
      /\ \A t \in Timers \ (Listed \ Over) : s.ticks[t] <= ticks_to_expire[t]
      /\ elapsed = NoTicks => s.list = list
  BY DEF Updated
<1>9. running \in [Timers -> BOOLEAN] /\ \A t \in Timers : running[t] = Active(t)
  BY ActiveLaw DEF Runs
<1>10. u \in want /\ ~Active(u) /\ u \notin Listed \ Over
  <2>1. u \in want /\ ~Active(u)
    BY <1>2, <1>3, <1>4, <1>9, ActiveLaw
  <2> QED
    BY <2>1, ActiveLaw
<1>11. In = {u} /\ Gone = {}
  BY <1>2, <1>3, <1>4, <1>10 DEF In, Gone, Starting
<1>12. PICK d : d = TicksFrom(ticks_diff_get(at, n), p)
  OBVIOUS
<1>13. d \in Nat /\ d + n = at + p
  <2>1. /\ op.at < HalfRange /\ op.at + op.waited = counter
        /\ elapsed = NoTicks => op.waited <= (IF call = <<"queued">> THEN 0 ELSE MaxLag) + lag
        /\ elapsed # NoTicks =>
             IF rtc1_pending THEN op.waited <= 2 * MaxLag + lag ELSE op.waited <= 3 * MaxLag + lag
    BY <1>1, <1>2 DEF Started
  <2>2. /\ lag \in Nat /\ lag <= MaxLag /\ MaxLag \in Nat /\ counter \in Nat /\ counter <= Modulus - 1
        /\ HalfRange \in Nat /\ n \in Nat /\ n <= counter /\ Modulus \in Nat
    BY <1>1, Typed, Numbers, HalfLaw DEF Reached
  <2>3. PICK w : w = op.waited
    OBVIOUS
  <2>4. w \in Nat /\ at + w = counter /\ at < HalfRange /\ at \in Nat /\ at <= Modulus - 1 /\ p \in Intervals
    BY <1>4, <1>5, <2>1, <2>3
  <2>5. w <= 4 * MaxLag
    BY <2>1, <2>2, <2>3, <2>4
  <2>6. p \in Nat /\ p >= 4 * MaxLag
    BY <2>4, IntervalLaw
  <2>7. n <= Modulus - 1 /\ n <= at + p /\ at < n + HalfRange
    BY <2>2, <2>4, <2>5, <2>6
  <2>8. d = at + p - n
    BY <1>12, <2>2, <2>4, <2>7, TicksFromLaw
  <2> QED
    BY <2>2, <2>4, <2>6, <2>7, <2>8
<1>14. /\ r \in Lists /\ PutIn(s.list, s.ticks, u, d, r.list, r.ticks)
       /\ \A t \in Timers \ {u} : r.ticks[t] <= s.ticks[t]
  <2>1. New(u, s.list)
    BY <1>8, <1>10 DEF New
  <2> QED
    BY <1>4, <1>6, <1>8, <1>12, <1>13, <2>1, InsertLaw
<1>15. /\ IsInjective(list') /\ Range(list') = (Listed \ Over) \cup {u} /\ list' # << >>
       /\ Expiry(list', ticks_to_expire', u) = d
       /\ \A t \in Listed \ Over : Expiry(list', ticks_to_expire', t) = Expiry(s.list, s.ticks, t)
       /\ s.list # << >> /\ Head(list') # u => Head(list') = Head(s.list)
  BY <1>7, <1>8, <1>14 DEF PutIn
<1>16. Listed' = (Listed \ Over) \cup {u} /\ \A t \in Listed' : When'[t] = Expiry(list', ticks_to_expire', t)
  BY <1>15 DEF Listed, When
<1>17. list' \in Seq(Timers) /\ ticks_to_expire' \in [Timers -> Nat]
  BY <1>7, <1>14 DEF Lists
<1>18. \A t \in Listed' \ In : When'[t] + n = Anew(t)
  BY <1>8, <1>11, <1>15, <1>16
<1>19. \A t \in In : t \notin Listed \ Over /\ When'[t] + n = op.at + op.ticks
  BY <1>5, <1>10, <1>11, <1>13, <1>15, <1>16
<1>20. \A t \in Timers \ Listed' :
         IF t \in Listed \ Over THEN ticks_to_expire'[t] + n <= Anew(t)
         ELSE ticks_to_expire'[t] <= ticks_to_expire[t]
  <2> SUFFICES ASSUME NEW t \in Timers, t \notin Listed \ Over, t # u
               PROVE  ticks_to_expire'[t] <= ticks_to_expire[t]
    BY <1>16
  <2>1. r.ticks[t] <= s.ticks[t] /\ s.ticks[t] <= ticks_to_expire[t]
    BY <1>8, <1>14
  <2>2. r.ticks[t] \in Nat /\ s.ticks[t] \in Nat /\ ticks_to_expire[t] \in Nat
    BY <1>1, <1>8, <1>14, WhenLaw DEF Lists, Listing
  <2> QED
    BY <1>7, <2>1, <2>2
<1>21. \A t \in Timers : is_running'[t] = ((Active(t) /\ t \notin Gone) \/ t \in In)
  BY <1>7, <1>9, <1>11, ActiveLaw
<1>22. \A t \in Timers : periodic'[t] = IF t \notin In THEN periodic[t]
                                        ELSE IF t \in Repeated THEN op.ticks ELSE 0
  <2>1. periodic \in [Timers -> Intervals \cup {0}]
    BY <1>1, Typed
  <2> QED
    BY <1>4, <1>5, <1>7, <1>11, <2>1
<1>23. elapsed = NoTicks /\ list' # << >> =>
         \/ Head(list') \in In
         \/ list # << >> /\ (Head(list') = Head(list) \/ Head(list) \in Gone)
  <2>1. ASSUME s.list = << >> PROVE Head(list') = u
    <3>1. Range(s.list) = {}
      BY <2>1 DEF Range
    <3>2. Listed' = {u}
      BY <1>8, <1>16, <3>1
    <3>3. Head(list') \in Listed'
      BY <1>15, <1>17, ExpiryLaw DEF Listed
    <3> QED
      BY <3>2, <3>3
  <2> QED
    BY <1>8, <1>11, <1>15, <2>1
<1>24. Listed' = ((Listed \ Over) \ Gone) \cup In
  BY <1>11, <1>16
<1>25. is_running' \in [Timers -> BOOLEAN] /\ periodic' \in [Timers -> Intervals \cup {0}]
  <2>1. periodic \in [Timers -> Intervals \cup {0}]
    BY <1>1, Typed
  <2> QED
    BY <1>4, <1>5, <1>7, <1>9, <2>1
<1> QED
  BY <1>15, <1>17, <1>18, <1>19, <1>20, <1>21, <1>22, <1>23, <1>24, <1>25 DEF Changed

LEMMA OperateStops ==
  ASSUME TimerInv, NEW n, NEW k, Reached(n, k), NEW s, Updated(n, s), NEW running, Runs(running),
         Operate(s, running, n), op.type = "stop"
  PROVE  Changed(n)
<1>1. TypeOK /\ n \in Nat
  BY DEF TimerInv, Reached
<1>2. PICK u : u = op.timer
  OBVIOUS
<1>3. u \in Timers
  <2>1. op \in Operations
    BY <1>1 DEF TypeOK
  <2>2. op \in [type : {"stop"}, timer : Timers]
    BY <2>1 DEF Operations, NoOp
  <2> QED
    BY <1>2, <2>2
<1>4. PICK r : r = IF u \in Range(s.list) THEN timer_list_remove(s, u) ELSE s
  OBVIOUS
<1>5. /\ list' = r.list /\ ticks_to_expire' = r.ticks
      /\ is_running' = [running EXCEPT ![u] = FALSE] /\ periodic' = periodic
  <2>1. ~Starts(running)
    BY DEF Starts
  <2>2. /\ list' = (IF op.timer \in Range(s.list) THEN timer_list_remove(s, op.timer) ELSE s).list
        /\ ticks_to_expire' = (IF op.timer \in Range(s.list) THEN timer_list_remove(s, op.timer) ELSE s).ticks
        /\ is_running' = [running EXCEPT ![op.timer] = FALSE] /\ periodic' = periodic
    BY <2>1 DEF Operate
  <2> QED
    BY <1>2, <1>4, <2>2
<1>6. /\ s \in Lists /\ IsInjective(s.list) /\ Range(s.list) = Listed \ Over
      /\ \A t \in Listed \ Over : Expiry(s.list, s.ticks, t) + n = Anew(t)
      /\ \A t \in Timers \ (Listed \ Over) : s.ticks[t] <= ticks_to_expire[t]
      /\ elapsed = NoTicks => s.list = list
  BY DEF Updated
<1>7. running \in [Timers -> BOOLEAN] /\ \A t \in Timers : running[t] = Active(t)
  BY ActiveLaw DEF Runs
<1>8. In = {} /\ Gone = {u}
  BY <1>2, <1>3 DEF In, Gone, Starting
<1>9. /\ r \in Lists /\ IsInjective(r.list) /\ Range(r.list) = (Listed \ Over) \ {u}
      /\ \A t \in Range(r.list) : Expiry(r.list, r.ticks, t) = Expiry(s.list, s.ticks, t)
      /\ \A t \in Timers \ Range(r.list) : r.ticks[t] <= s.ticks[t]
      /\ r.list # << >> /\ Head(s.list) # u => Head(r.list) = Head(s.list)
  <2>1. CASE u \in Range(s.list)
    <3>1. r = timer_list_remove(s, u)
      BY <1>4, <2>1
    <3>2. /\ r \in Lists /\ IsInjective(r.list) /\ Range(r.list) = Range(s.list) \ {u}
          /\ \A t \in Range(r.list) : Expiry(r.list, r.ticks, t) = Expiry(s.list, s.ticks, t)
          /\ \A t \in Timers \ Range(r.list) : r.ticks[t] <= s.ticks[t]
          /\ r.list # << >> /\ Head(s.list) # u => Head(r.list) = Head(s.list)
      <4>1. s \in Lists /\ IsInjective(s.list)
        BY <1>6
      <4> QED
        BY <2>1, <3>1, <4>1, RemoveLaw
    <3> QED
      BY <1>6, <3>2
  <2>2. CASE u \notin Range(s.list)
    <3>1. r = s
      BY <1>4, <2>2
    <3>2. \A t \in Timers : s.ticks[t] <= s.ticks[t]
      <4>1. \A t \in Timers : s.ticks[t] \in Nat
        BY <1>6 DEF Lists
      <4> QED
        BY <4>1
    <3> QED
      BY <1>6, <2>2, <3>1, <3>2
  <2> QED
    BY <2>1, <2>2
<1>10. /\ list' \in Seq(Timers) /\ IsInjective(list') /\ ticks_to_expire' \in [Timers -> Nat]
       /\ Listed' = (Listed \ Over) \ {u}
  BY <1>5, <1>9 DEF Lists, Listed
<1>11. \A t \in Listed' : When'[t] + n = Anew(t)
  <2>1. \A t \in Listed' : When'[t] = Expiry(s.list, s.ticks, t)
    BY <1>5, <1>9 DEF Listed, When
  <2> QED
    BY <1>6, <1>10, <2>1
<1>12. \A t \in Timers \ Listed' :
         IF t \in Listed \ Over THEN ticks_to_expire'[t] + n <= Anew(t)
         ELSE ticks_to_expire'[t] <= ticks_to_expire[t]
  <2> SUFFICES ASSUME NEW t \in Timers, t \notin Listed'
               PROVE  IF t \in Listed \ Over THEN r.ticks[t] + n <= Anew(t) ELSE r.ticks[t] <= ticks_to_expire[t]
    BY <1>5
  <2>1. r.ticks[t] <= s.ticks[t] /\ r.ticks[t] \in Nat /\ s.ticks[t] \in Nat
    BY <1>6, <1>9, <1>10 DEF Lists
  <2>2. CASE t \in Listed \ Over
    <3>1. Expiry(s.list, s.ticks, t) \in Nat /\ s.ticks[t] <= Expiry(s.list, s.ticks, t)
      BY <1>6, <2>2, ExpiryLaw DEF Lists
    <3>2. Expiry(s.list, s.ticks, t) + n = Anew(t)
      BY <1>6, <2>2
    <3>3. r.ticks[t] + n <= Anew(t)
      BY <1>1, <2>1, <3>1, <3>2
    <3> QED
      BY <2>2, <3>3
  <2>3. CASE t \notin Listed \ Over
    <3>1. s.ticks[t] <= ticks_to_expire[t] /\ ticks_to_expire[t] \in Nat
      BY <1>1, <1>6, <2>3, WhenLaw DEF Listing
    <3>2. r.ticks[t] <= ticks_to_expire[t]
      BY <2>1, <3>1
    <3> QED
      BY <2>3, <3>2
  <2> QED
    BY <2>2, <2>3
<1>13. \A t \in Timers : is_running'[t] = ((Active(t) /\ t \notin Gone) \/ t \in In)
  BY <1>5, <1>7, <1>8, ActiveLaw
<1>14. \A t \in Timers : periodic'[t] = periodic[t]
  BY <1>5
<1>15. elapsed = NoTicks /\ list' # << >> =>
         list # << >> /\ (Head(list') = Head(list) \/ Head(list) \in Gone)
  <2> SUFFICES ASSUME elapsed = NoTicks, list' # << >>
               PROVE  list # << >> /\ (Head(list') = Head(list) \/ Head(list) \in Gone)
    OBVIOUS
  <2>1. s.list = list
    BY <1>6
  <2>2. list # << >>
    <3>1. Head(list') \in Range(list')
      BY <1>10, ExpiryLaw
    <3>2. Range(s.list) # {}
      BY <1>6, <1>10, <3>1 DEF Listed
    <3> QED
      BY <2>1, <3>2 DEF Range
  <2> QED
    BY <1>5, <1>8, <1>9, <2>1, <2>2
<1>16. is_running' \in [Timers -> BOOLEAN] /\ periodic' \in [Timers -> Intervals \cup {0}]
  BY <1>1, <1>5, <1>7, Typed
<1> QED
  BY <1>8, <1>10, <1>11, <1>12, <1>13, <1>14, <1>15, <1>16 DEF Changed

LEMMA OperateStopsAll ==
  ASSUME TimerInv, NEW n, NEW k, Reached(n, k), NEW s, Updated(n, s), NEW running, Runs(running),
         Operate(s, running, n), op.type = "stop_all"
  PROVE  Changed(n)
<1>1. TypeOK /\ n \in Nat
  BY DEF TimerInv, Reached
<1>2. /\ list' = << >> /\ ticks_to_expire' = [t \in Timers |-> 0]
      /\ is_running' = [t \in Timers |-> running[t] /\ t \notin Range(s.list)] /\ periodic' = periodic
  <2>1. ~Starts(running)
    BY DEF Starts
  <2> QED
    BY <2>1 DEF Operate
<1>3. /\ s \in Lists /\ IsInjective(s.list) /\ Range(s.list) = Listed \ Over
      /\ \A t \in Listed \ Over : Expiry(s.list, s.ticks, t) + n = Anew(t)
  BY DEF Updated
<1>4. \A t \in Timers : running[t] = Active(t)
  BY ActiveLaw DEF Runs
<1>5. In = {} /\ Gone = Timers
  BY DEF In, Gone, Starting
<1>6. Listed \ Over \subseteq Timers
  BY ActiveLaw
<1>7. Listed' = {} /\ IsInjective(list') /\ list' \in Seq(Timers) /\ ticks_to_expire' \in [Timers -> Nat]
  <2>1. Listed' = {} /\ list' \in Seq(Timers) /\ ticks_to_expire' \in [Timers -> Nat]
    BY <1>2 DEF Listed, Range
  <2>2. IsInjective(list')
    BY <1>2 DEF IsInjective
  <2> QED
    BY <2>1, <2>2
<1>8. \A t \in Timers :
         IF t \in Listed \ Over THEN ticks_to_expire'[t] + n <= Anew(t)
         ELSE ticks_to_expire'[t] <= ticks_to_expire[t]
  <2> SUFFICES ASSUME NEW t \in Timers
               PROVE  IF t \in Listed \ Over THEN 0 + n <= Anew(t) ELSE 0 <= ticks_to_expire[t]
    BY <1>2
  <2>1. ticks_to_expire[t] \in Nat
    BY <1>1, WhenLaw DEF Listing
  <2>2. t \in Listed \ Over =>
          Expiry(s.list, s.ticks, t) \in Nat /\ Expiry(s.list, s.ticks, t) + n = Anew(t)
    BY <1>3, ExpiryLaw DEF Lists
  <2>3. t \in Listed \ Over => 0 + n <= Anew(t)
    BY <1>1, <2>2
  <2> QED
    BY <2>1, <2>3
<1>9. \A t \in Timers : is_running'[t] = ((Active(t) /\ t \notin Gone) \/ t \in In)
  BY <1>2, <1>3, <1>4, <1>5, ActiveLaw
<1>10. \A t \in Timers : periodic'[t] = periodic[t]
  BY <1>2
<1>11. is_running' \in [Timers -> BOOLEAN] /\ periodic' \in [Timers -> Intervals \cup {0}]
  <2>1. is_running' \in [Timers -> BOOLEAN]
    BY <1>2
  <2> QED
    BY <1>1, <1>2, <2>1, Typed
<1> QED
  BY <1>2, <1>5, <1>6, <1>7, <1>8, <1>9, <1>10, <1>11 DEF Changed

LEMMA OperateNothing ==
  ASSUME TimerInv, NEW n, NEW k, Reached(n, k), NEW s, Updated(n, s), NEW running, Runs(running),
         Operate(s, running, n), ~Starts(running), op.type # "stop", op.type # "stop_all"
  PROVE  Changed(n)
<1>1. TypeOK /\ n \in Nat
  BY DEF TimerInv, Reached
<1>2. list' = s.list /\ ticks_to_expire' = s.ticks /\ is_running' = running /\ periodic' = periodic
  BY DEF Operate
<1>3. /\ s \in Lists /\ IsInjective(s.list) /\ Range(s.list) = Listed \ Over
      /\ \A t \in Listed \ Over : Expiry(s.list, s.ticks, t) + n = Anew(t)
      /\ \A t \in Timers \ (Listed \ Over) : s.ticks[t] <= ticks_to_expire[t]
      /\ elapsed = NoTicks => s.list = list
  BY DEF Updated
<1>4. \A t \in Timers : running[t] = Active(t)
  BY ActiveLaw DEF Runs
<1>5. In = {} /\ Gone = {}
  <2>1. op.type = "start" => running[op.timer] /\ op.timer \in Timers
    BY <1>1, OpTyped DEF Starts
  <2> QED
    BY <1>4, <2>1 DEF In, Gone, Starting
<1>6. /\ list' \in Seq(Timers) /\ IsInjective(list') /\ ticks_to_expire' \in [Timers -> Nat]
      /\ Listed' = Listed \ Over
  BY <1>2, <1>3 DEF Lists, Listed
<1>7. \A t \in Listed' : When'[t] + n = Anew(t)
  <2>1. \A t \in Listed' : When'[t] = Expiry(s.list, s.ticks, t)
    BY <1>2 DEF Listed, When
  <2> QED
    BY <1>3, <1>6, <2>1
<1>8. \A t \in Timers \ Listed' : ticks_to_expire'[t] <= ticks_to_expire[t]
  BY <1>2, <1>3, <1>6
<1>9. \A t \in Timers : is_running'[t] = ((Active(t) /\ t \notin Gone) \/ t \in In)
  BY <1>2, <1>4, <1>5, ActiveLaw
<1>10. \A t \in Timers : periodic'[t] = periodic[t]
  BY <1>2
<1>11. is_running' \in [Timers -> BOOLEAN] /\ periodic' \in [Timers -> Intervals \cup {0}]
  BY <1>1, <1>2, ActiveLaw, Typed DEF Runs
<1> QED
  BY <1>2, <1>3, <1>5, <1>6, <1>7, <1>8, <1>9, <1>10, <1>11 DEF Changed

LEMMA HandlerChanges ==
  ASSUME TimerInv, timer_list_handler
  PROVE  \E n, k : /\ Reached(n, k) /\ Changed(n)
                   /\ counter' = ticks_diff_get(counter, n) /\ cc' = ticks_diff_get(cc, n)
<1>1. PICK n : n = Max({elapsed, 0})
  OBVIOUS
<1>2. PICK k : k = (IF elapsed = NoTicks THEN 0 ELSE Expired(list, ticks_to_expire, n))
  OBVIOUS
<1>3. /\ Operate(Restart(Remaining(k, n), k, n), [t \in Timers |-> is_running[t] \/ t \in Restarted(k)], n)
      /\ counter' = ticks_diff_get(counter, n) /\ cc' = ticks_diff_get(cc, n)
  BY <1>1, <1>2 DEF timer_list_handler
<1>4. Reached(n, k)
  BY <1>1, <1>2, HandlerReaches
<1>5. PICK s : s = Restart(Remaining(k, n), k, n)
  OBVIOUS
<1>6. Updated(n, s)
  BY <1>4, <1>5, HandlerUpdates
<1>7. PICK running : running = [t \in Timers |-> is_running[t] \/ t \in Restarted(k)]
  OBVIOUS
<1>8. Runs(running)
  BY <1>4, <1>7, RestartedOnes DEF Runs, Active
<1>9. Operate(s, running, n)
  BY <1>3, <1>5, <1>7
<1>10. Changed(n)
  BY <1>4, <1>6, <1>8, <1>9, OperateStarts, OperateStops, OperateStopsAll, OperateNothing
<1> QED
  BY <1>3, <1>4, <1>10

(* Nothing waits long for SWI.                                             *)
LEMMA StartBounds ==
  ASSUME TimerInv, ~rtc1_pending, op.type = "start"
  PROVE  /\ op.at \in Nat /\ op.waited \in Nat /\ op.ticks \in Intervals /\ op.ticks \in Nat
         /\ op.at + op.waited = counter /\ op.at < HalfRange
         /\ op.waited <= 4 * MaxLag /\ (elapsed = NoTicks => op.waited <= 2 * MaxLag)
<1>1. TypeOK /\ Started
  BY DEF TimerInv
<1>2. /\ op.at < HalfRange /\ op.at + op.waited = counter
      /\ elapsed = NoTicks => op.waited <= (IF call = <<"queued">> THEN 0 ELSE MaxLag) + lag
      /\ elapsed # NoTicks => op.waited <= 3 * MaxLag + lag
  BY <1>1 DEF Started
<1>3. lag \in Nat /\ lag <= MaxLag /\ MaxLag \in Nat
  BY <1>1, Typed, Numbers
<1>4. op.at \in Nat /\ op.waited \in Nat /\ op.ticks \in Intervals /\ op.ticks \in Nat
  BY <1>1, OpTyped
<1>5. elapsed = NoTicks => op.waited <= 2 * MaxLag
  BY <1>2, <1>3, <1>4
<1>6. op.waited <= 4 * MaxLag
  BY <1>2, <1>3, <1>4
<1> QED
  BY <1>2, <1>4, <1>5, <1>6

(* When the timers expire that stay in the list: those that have not       *)
(* expired and those that are restarted.                                   *)
LEMMA StayBounds ==
  ASSUME TimerInv, ~rtc1_pending, NEW n, NEW k, Reached(n, k), NEW t \in Listed \ Over
  PROVE  /\ Anew(t) \in Nat /\ Anew(t) + MaxLate + MaxLag <= n + Modulus - 2
         /\ elapsed # NoTicks => counter + 1 <= Anew(t) + MaxLag
<1>1. TypeOK /\ Members /\ Near /\ Called
  BY DEF TimerInv
<1>2. /\ counter \in Nat /\ cc \in Nat /\ lag \in Nat /\ lag <= MaxLag /\ MaxLag \in Nat /\ MaxLag >= 1
      /\ MaxLate \in Nat /\ AllLate = MaxLate - MaxLag /\ Modulus \in Nat /\ HalfRange \in Nat
      /\ 2 * HalfRange <= Modulus - 1 /\ n \in Nat
  BY <1>1, Typed, Numbers, HalfLaw DEF Reached
<1>3. PICK w : w = When[t]
  OBVIOUS
<1>4. w \in Nat /\ w + MaxLate + MaxLag <= Modulus - 2 /\ t \in Timers
  BY <1>1, <1>3, WhenLaw DEF Near
<1>5. CASE t \notin Taken
  <2>1. Anew(t) = w
    BY <1>3, <1>5 DEF Anew
  <2>2. elapsed # NoTicks => w > counter - lag
    BY <1>1, <1>3, <1>5 DEF Called
  <2>3. elapsed # NoTicks => counter + 1 <= w + MaxLag
    BY <1>2, <1>4, <2>2
  <2> QED
    BY <1>2, <1>4, <2>1, <2>3
<1>6. CASE t \in Taken
  <2>1. PICK p : p = periodic[t]
    OBVIOUS
  <2>2. p \in Intervals
    <3>1. t \in Repeated
      BY <1>6 DEF Over
    <3>2. p # 0
      BY <1>1, <2>1, <3>1 DEF Members
    <3> QED
      BY <1>1, <1>4, <2>1, <3>2 DEF TypeOK
  <2>3. p \in Nat /\ p > MaxLate /\ p >= 4 * MaxLag /\ p + MaxLate + MaxLag <= HalfRange
    BY <2>2, IntervalLaw
  <2>4. Anew(t) = w + p
    BY <1>3, <1>6, <2>1 DEF Anew
  <2>5. w <= n
    BY <1>3, <1>6, RestartedOnes
  <2>6. elapsed # NoTicks
    BY <1>6 DEF Taken
  <2>7. counter <= cc + lag + MaxLag /\ cc <= w + AllLate
    BY <1>1, <1>3, <2>6 DEF Called
  <2>8. counter + 1 <= w + p + MaxLag
    BY <1>2, <1>4, <2>3, <2>7
  <2>9. w + p + MaxLate + MaxLag <= n + Modulus - 2
    BY <1>2, <1>4, <2>3, <2>5
  <2> QED
    BY <1>4, <2>3, <2>4, <2>8, <2>9
<1> QED
  BY <1>5, <1>6

(* When the one expires that comes in.                                     *)
LEMMA ComeBounds ==
  ASSUME TimerInv, ~rtc1_pending, NEW n, NEW k, Reached(n, k), NEW t \in In
  PROVE  /\ t \in Timers /\ t \in want /\ op.type = "start" /\ op.timer = t /\ op.ticks \in Intervals
         /\ op.at + op.ticks \in Nat /\ op.at + op.ticks + MaxLate + MaxLag <= n + Modulus - 2
         /\ counter + 1 <= op.at + op.ticks + MaxLag /\ op.at + op.ticks = counter - op.waited + op.ticks
         /\ elapsed = NoTicks => op.at + op.ticks + 2 * MaxLag >= counter + op.ticks
<1>1. TypeOK /\ Members
  BY DEF TimerInv
<1>2. t \in Timers /\ op.type = "start" /\ op.timer = t
  BY DEF In, Starting
<1>3. t \in want
  BY <1>1, <1>2 DEF Members
<1>4. PICK at, p, w : at = op.at /\ p = op.ticks /\ w = op.waited
  OBVIOUS
<1>5. /\ at \in Nat /\ w \in Nat /\ p \in Intervals /\ p \in Nat /\ at + w = counter /\ at < HalfRange
      /\ w <= 4 * MaxLag /\ (elapsed = NoTicks => w <= 2 * MaxLag)
  BY <1>2, <1>4, StartBounds
<1>6. p > 0 /\ p >= 4 * MaxLag /\ p + MaxLate + MaxLag <= HalfRange
  BY <1>5, IntervalLaw
<1>7. /\ counter \in Nat /\ MaxLag \in Nat /\ MaxLag >= 1 /\ MaxLate \in Nat /\ Modulus \in Nat
      /\ HalfRange \in Nat /\ 2 * HalfRange <= Modulus - 1 /\ n \in Nat
  BY <1>1, Typed, Numbers, HalfLaw DEF Reached
<1>8. at + p + MaxLate + MaxLag <= n + Modulus - 2
  BY <1>5, <1>6, <1>7
<1>9. counter + 1 <= at + p + MaxLag /\ at + p = counter - w + p /\ at + p \in Nat
  BY <1>5, <1>6, <1>7
<1>10. elapsed = NoTicks => at + p + 2 * MaxLag >= counter + p
  BY <1>5, <1>6, <1>7
<1> QED
  BY <1>2, <1>3, <1>4, <1>5, <1>8, <1>9, <1>10

LEMMA HandlerBounds ==
  ASSUME TimerInv, ~rtc1_pending, NEW n, NEW k, Reached(n, k), Changed(n)
  PROVE  /\ Listed' \subseteq Timers /\ When' \in [Listed' -> Nat] /\ When' \in [Listed' -> Int]
         /\ \A t \in Listed' : When'[t] + MaxLate + MaxLag <= Modulus - 2
         /\ elapsed # NoTicks => \A t \in Listed' : counter + 1 <= When'[t] + n + MaxLag
         /\ ticks_to_expire' \in [Timers -> 0 .. Modulus - 1]
<1>1. TypeOK
  BY DEF TimerInv
<1>2. /\ counter \in Nat /\ MaxLag \in Nat /\ MaxLate \in Nat /\ Modulus \in Nat /\ n \in Nat
  BY <1>1, Typed, Numbers DEF Reached
<1>3. /\ list' \in Seq(Timers) /\ IsInjective(list') /\ ticks_to_expire' \in [Timers -> Nat]
      /\ Listed' = ((Listed \ Over) \ Gone) \cup In
      /\ \A t \in Listed' \ In : When'[t] + n = Anew(t)
      /\ \A t \in In : When'[t] + n = op.at + op.ticks
      /\ \A t \in Timers \ Listed' :
           IF t \in Listed \ Over THEN ticks_to_expire'[t] + n <= Anew(t)
           ELSE ticks_to_expire'[t] <= ticks_to_expire[t]
  BY DEF Changed
<1>4. /\ Listed' \subseteq Timers /\ When' \in [Listed' -> Nat]
      /\ \A t \in Listed' : ticks_to_expire'[t] <= When'[t]
  <2>1. \A t \in Listed' : /\ t \in Timers /\ Expiry(list', ticks_to_expire', t) \in Nat
                           /\ ticks_to_expire'[t] <= Expiry(list', ticks_to_expire', t)
    BY <1>3, ExpiryLaw DEF Listed
  <2>2. When' = [t \in Listed' |-> Expiry(list', ticks_to_expire', t)]
    BY DEF When
  <2> QED
    BY <2>1, <2>2
<1>5. ASSUME NEW t \in Listed'
      PROVE  /\ When'[t] + MaxLate + MaxLag <= Modulus - 2
             /\ elapsed # NoTicks => counter + 1 <= When'[t] + n + MaxLag
  <2>1. PICK v : v = When'[t] + n
    OBVIOUS
  <2>2. PICK y : y = When'[t]
    OBVIOUS
  <2>3. y \in Nat /\ v = y + n
    BY <1>4, <2>1, <2>2
  <2>4. v \in Nat /\ v + MaxLate + MaxLag <= n + Modulus - 2 /\ (elapsed # NoTicks => counter + 1 <= v + MaxLag)
    <3>1. CASE t \in In
      BY <1>3, <2>1, <3>1, ComeBounds
    <3>2. CASE t \notin In
      <4>1. t \in Listed \ Over /\ v = Anew(t)
        BY <1>3, <2>1, <3>2
      <4> QED
        BY <4>1, StayBounds
    <3> QED
      BY <3>1, <3>2
  <2>5. y + MaxLate + MaxLag <= Modulus - 2 /\ (elapsed # NoTicks => counter + 1 <= y + n + MaxLag)
    BY <1>2, <2>3, <2>4
  <2> QED
    BY <2>2, <2>5
<1>6. ASSUME NEW t \in Timers PROVE ticks_to_expire'[t] \in 0 .. Modulus - 1
  <2>1. PICK x : x = ticks_to_expire'[t]
    OBVIOUS
  <2>2. x \in Nat
    BY <1>3, <2>1
  <2>3. CASE t \in Listed'
    <3>1. PICK y : y = When'[t]
      OBVIOUS
    <3>2. y \in Nat /\ x <= y /\ y + MaxLate + MaxLag <= Modulus - 2
      BY <1>4, <1>5, <2>1, <2>3, <3>1
    <3>3. x \in 0 .. Modulus - 1
      BY <1>2, <2>2, <3>2
    <3> QED
      BY <2>1, <3>3
  <2>4. CASE t \notin Listed' /\ t \in Listed \ Over
    <3>1. PICK y : y = Anew(t)
      OBVIOUS
    <3>2. y \in Nat /\ y + MaxLate + MaxLag <= n + Modulus - 2 /\ x + n <= y
      BY <1>3, <2>1, <2>4, <3>1, StayBounds
    <3>3. x \in 0 .. Modulus - 1
      BY <1>2, <2>2, <3>2
    <3> QED
      BY <2>1, <3>3
  <2>5. CASE t \notin Listed' /\ t \notin Listed \ Over
    <3>1. x <= ticks_to_expire[t] /\ ticks_to_expire[t] \in 0 .. Modulus - 1
      BY <1>1, <1>3, <2>1, <2>5 DEF TypeOK
    <3>2. x \in 0 .. Modulus - 1
      BY <1>2, <2>2, <3>1
    <3> QED
      BY <2>1, <3>2
  <2> QED
    BY <2>3, <2>4, <2>5
<1>7. ticks_to_expire' \in [Timers -> 0 .. Modulus - 1]
  BY <1>3, <1>6
<1>8. When' \in [Listed' -> Int]
  BY <1>4
<1> QED
  BY <1>4, <1>5, <1>7, <1>8

LEMMA HandlerQuiet ==
  ASSUME TimerInv, timer_list_handler
  PROVE  /\ level = "thread" /\ swi_pending /\ ~rtc1_pending /\ rtc1_pending' = rtc1_pending
         /\ swi_pending' = FALSE /\ elapsed' = NoTicks /\ op' = NoOp /\ lag' = 0
         /\ UNCHANGED <<deaf, rtc1_running, pre, call, want, left>>
         /\ level' = (IF elapsed # NoTicks \/ First(list') # First(list) THEN "compare" ELSE "thread")
         /\ Taken' = {} /\ \A t : (Starting(t)' <=> FALSE) /\ (Stopped(t)' <=> call = <<"stopping", t>>)
<1>1. TypeOK /\ Phases
  BY DEF TimerInv
<1>2. /\ level = "thread" /\ swi_pending /\ ~Rtc1Due /\ swi_pending' = FALSE /\ elapsed' = NoTicks
      /\ op' = NoOp /\ lag' = 0 /\ UNCHANGED <<deaf, rtc1_running, rtc1_pending, pre, call, want, left>>
      /\ level' = (IF elapsed # NoTicks \/ First(list') # First(list) THEN "compare" ELSE "thread")
  BY DEF timer_list_handler, histVars
<1>3. ~rtc1_pending
  BY <1>1, <1>2 DEF Phases, Rtc1Due
<1>4. Taken' = {}
  BY <1>2 DEF Taken
<1>5. op'.type # "start" /\ op'.type # "stop"
  BY <1>2 DEF NoOp
<1>6. \A t : (Starting(t)' <=> FALSE) /\ (Stopped(t)' <=> call = <<"stopping", t>>)
  BY <1>2, <1>5 DEF Starting, Stopped
<1> QED
  BY <1>2, <1>3, <1>4, <1>6

LEMMA HandlerMembers ==
  ASSUME TimerInv, timer_list_handler, NEW n, NEW k, Reached(n, k), Changed(n)
  PROVE  Members' /\ \A t \in want : t \in Listed' /\ is_running'[t]
<1>1. TypeOK /\ Members
  BY DEF TimerInv
<1>2. /\ ~rtc1_pending /\ op' = NoOp /\ want' = want /\ call' = call /\ Taken' = {}
      /\ \A t : (Starting(t)' <=> FALSE) /\ (Stopped(t)' <=> call = <<"stopping", t>>)
  BY HandlerQuiet
<1>3. op'.type # "start" /\ op'.type # "stop_all"
  BY <1>2 DEF NoOp
<1>4. /\ \A t \in Timers : Active(t) \in BOOLEAN /\ (Active(t) => t \in Listed \ Over)
      /\ \A t \in Listed \ Over : t \in Timers /\ (Active(t) \/ Stopped(t))
      /\ \A t \in want : t \in Timers /\ ~Stopped(t) /\ ((t \in Listed \ Over /\ Active(t)) \/ Starting(t))
      /\ \A t \in (Listed \ Over) \ want : Stopped(t) \/ op.type = "stop_all"
      /\ op.type = "start" => op.timer \in want
      /\ op.type = "stop_all" => want = {}
      /\ \A t : Stopped(t) => (op.type = "stop" /\ op.timer = t) \/ op = NoOp
  BY ActiveLaw
<1>5. /\ Listed' = ((Listed \ Over) \ Gone) \cup In
      /\ \A t \in Timers : is_running'[t] = ((Active(t) /\ t \notin Gone) \/ t \in In)
      /\ \A t \in Timers : periodic'[t] = IF t \notin In THEN periodic[t]
                                          ELSE IF t \in Repeated THEN op.ticks ELSE 0
  BY DEF Changed
<1>6. In \subseteq Timers /\ \A t \in In : op.type = "start" /\ op.timer = t
  BY DEF In, Starting
<1>7. \A t \in Timers : t \in Gone <=> op.type = "stop_all" \/ (op.type = "stop" /\ op.timer = t)
  BY DEF Gone
<1>8. \A t : Stopped(t) <=> Stopped(t)' \/ (op.type = "stop" /\ op.timer = t)
  BY <1>2 DEF Stopped
<1>9. \A t \in Timers : is_running'[t] => t \in Listed' \ Taken'
  BY <1>2, <1>4, <1>5
<1>10. \A t \in Listed' : periodic'[t] # 0 <=> t \in Repeated
  <2> SUFFICES ASSUME NEW t \in Listed' PROVE periodic'[t] # 0 <=> t \in Repeated
    OBVIOUS
  <2>1. CASE t \in In
    <3>1. op.ticks # 0
      <4>1. op.ticks \in Intervals
        BY <1>2, <2>1, ComeBounds
      <4> QED
        BY <4>1, IntervalLaw
    <3> QED
      BY <1>5, <1>6, <2>1, <3>1
  <2>2. CASE t \notin In
    BY <1>1, <1>4, <1>5, <2>2 DEF Members
  <2> QED
    BY <2>1, <2>2
<1>11. \A t \in Listed' \ Taken' : is_running'[t] \/ Stopped(t)'
  BY <1>4, <1>5, <1>6, <1>7, <1>8
<1>12. \A t \in want : t \in Listed' /\ is_running'[t]
  <2> SUFFICES ASSUME NEW t \in want PROVE t \in Listed' /\ is_running'[t]
    OBVIOUS
  <2>1. t \in Timers /\ ~Stopped(t) /\ ((t \in Listed \ Over /\ Active(t)) \/ Starting(t)) /\ t \notin Gone
    BY <1>4, <1>7, <1>8
  <2>2. CASE Active(t)
    BY <1>4, <1>5, <2>1, <2>2
  <2>3. CASE ~Active(t)
    <3>1. t \in In
      BY <2>1, <2>3 DEF In
    <3> QED
      BY <1>5, <2>1, <3>1
  <2> QED
    BY <2>2, <2>3
<1>13. \A t \in Listed' \ want' : Stopped(t)'
  <2> SUFFICES ASSUME NEW t \in Listed', t \notin want PROVE Stopped(t)'
    BY <1>2
  <2>1. t \in Listed \ Over /\ t \in Timers /\ t \notin Gone
    BY <1>4, <1>5, <1>6
  <2> QED
    BY <1>4, <1>7, <1>8, <2>1
<1>14. \A t \in want' : ~Stopped(t)'
  BY <1>2, <1>4, <1>8
<1> QED
  BY <1>2, <1>3, <1>9, <1>10, <1>11, <1>12, <1>13, <1>14 DEF Members

LEMMA HandlerDue ==
  ASSUME TimerInv, timer_list_handler, NEW n, NEW k, Reached(n, k), Changed(n),
         counter' = counter - n
  PROVE  Due'
<1>1. TypeOK /\ Members /\ Due
  BY DEF TimerInv
<1>2. ~rtc1_pending /\ want' = want /\ left' = left
  BY HandlerQuiet
<1>3. \A t \in want : t \in Listed' /\ is_running'[t]
  BY HandlerMembers
<1>4. counter \in Nat /\ n \in Nat
  BY <1>1, Typed DEF Reached
<1>5. When' \in [Listed' -> Nat]
  BY <1>2, HandlerBounds
<1> SUFFICES ASSUME NEW t \in want PROVE left[t] = When'[t] - counter'
  BY <1>2, <1>3 DEF Due
<1>6. left[t] = IF is_running[t] THEN When[t] - counter
                ELSE IF t \in Taken /\ t \in Repeated THEN When[t] + periodic[t] - counter
                ELSE op.ticks - op.waited
  BY <1>1 DEF Due
<1>7. PICK y : y = When'[t]
  OBVIOUS
<1>8. y \in Nat
  BY <1>3, <1>5, <1>7
<1>9. CASE t \in In
  <2>1. y + n = op.at + op.ticks
    BY <1>7, <1>9 DEF Changed
  <2>2. op.at + op.ticks = counter - op.waited + op.ticks /\ op.type = "start"
    BY <1>2, <1>9, ComeBounds
  <2>3. op.waited \in Nat /\ op.ticks \in Nat
    BY <1>1, <2>2, OpTyped
  <2>4. left[t] = op.ticks - op.waited
    BY <1>6, <1>9 DEF In, Active
  <2>5. PICK v, p, w : v = op.at + op.ticks /\ p = op.ticks /\ w = op.waited
    OBVIOUS
  <2>6. y + n = v /\ v = counter - w + p /\ w \in Nat /\ p \in Nat /\ left[t] = p - w
    BY <2>1, <2>2, <2>3, <2>4, <2>5
  <2>7. p - w = y - (counter - n)
    BY <1>4, <1>8, <2>6
  <2> QED
    BY <1>7, <2>6, <2>7
<1>10. CASE t \notin In
  <2>1. t \in Listed \ Over /\ y + n = Anew(t)
    BY <1>3, <1>7, <1>10 DEF Changed
  <2>2. Active(t)
    BY <1>3, <1>10, ActiveLaw DEF Changed
  <2>3. left[t] = Anew(t) - counter
    <3>1. t \in Timers /\ (is_running[t] => t \notin Taken)
      BY <1>1, ActiveLaw DEF Members
    <3>2. CASE is_running[t]
      <4>1. left[t] = When[t] - counter
        BY <1>6, <3>2
      <4>2. Anew(t) = When[t]
        BY <3>1, <3>2 DEF Anew
      <4> QED
        BY <4>1, <4>2
    <3>3. CASE ~is_running[t]
      <4>1. t \in Taken /\ t \in Repeated
        BY <2>2, <3>3 DEF Active
      <4>2. left[t] = When[t] + periodic[t] - counter
        BY <1>6, <3>3, <4>1
      <4>3. Anew(t) = When[t] + periodic[t]
        BY <4>1 DEF Anew
      <4>4. When[t] \in Nat /\ periodic[t] \in Nat
        BY <1>1, <2>1, <3>1, WhenLaw, Typed
      <4> QED
        BY <1>4, <4>2, <4>3, <4>4
    <3> QED
      BY <3>2, <3>3
  <2>4. PICK a : a = Anew(t)
    OBVIOUS
  <2> QED
    BY <1>4, <1>7, <1>8, <2>1, <2>3, <2>4
<1> QED
  BY <1>9, <1>10

(* A chain goes on with other timers if none of them breaks it.            *)
GoesOn(v, w, x, c) ==
  /\ \A t \in DOMAIN w : x <= w[t] + Late(c)
  /\ c > 0 => Close(w, x, c) \subseteq Close(v, x, c)

LEMMA ChainGoesOn ==
  ASSUME NEW L \in SUBSET Timers, NEW v \in [L -> Int], NEW w, NEW x \in Int, NEW c \in 0 .. N - 1,
         Chain(v, x, c), GoesOn(v, w, x, c)
  PROVE  Chain(w, x, c)
<1>1. c > 0 => Cardinality(Close(w, x, c)) + c <= N
  <2> SUFFICES ASSUME c > 0 PROVE Cardinality(Close(w, x, c)) + c <= N
    OBVIOUS
  <2>1. Close(w, x, c) \subseteq Close(v, x, c)
    BY DEF GoesOn
  <2>2. IsFiniteSet(Close(v, x, c))
    <3>1. Close(v, x, c) \subseteq Timers
      BY DEF Close
    <3> QED
      BY <3>1, AppTimerAssumption, FS_Subset
  <2>3. PICK a, b : a = Cardinality(Close(w, x, c)) /\ b = Cardinality(Close(v, x, c))
    OBVIOUS
  <2>4. a <= b /\ a \in Nat /\ b \in Nat
    BY <2>1, <2>2, <2>3, FS_Subset, FS_CardinalityType
  <2>5. b + c <= N
    BY <2>3 DEF Chain
  <2>6. c \in Nat /\ N \in Nat
    BY Numbers
  <2>7. a + c <= N
    BY <2>4, <2>5, <2>6
  <2> QED
    BY <2>3, <2>7
<1> QED
  BY <1>1 DEF Chain, GoesOn

(* When the first of a chain leaves it, it is one longer, or a new one     *)
(* begins.                                                                 *)
FirstOf(v, h) == \A t \in DOMAIN v : v[h] <= v[t]

Without(v, h, w) == w \in [DOMAIN v \ {h} -> Int] /\ \A t \in DOMAIN w : w[t] = v[t]

LEMMA ChainNext ==
  ASSUME NEW L \in SUBSET Timers, NEW v \in [L -> Int], NEW h \in L, FirstOf(v, h),
         NEW w, Without(v, h, w),
         NEW x \in Int, NEW c \in 0 .. N - 1, Chain(v, x, c), NEW y, y = x + Delay
  PROVE  \E d \in 0 .. N - 1 : Chain(w, y, d)
<1>1. /\ c \in Nat /\ N \in Nat /\ N >= 1 /\ c <= N - 1 /\ Delay \in Nat /\ Delay = MaxLag + 2
      /\ FirstLate = 2 * MaxLag + 2 /\ MaxLag \in Nat /\ Late(c) \in Nat /\ Late(c + 1) = Late(c) + Delay
  BY Numbers, LateLaw
<1>2. w \in [L \ {h} -> Int] /\ DOMAIN w = L \ {h} /\ y \in Int /\ \A t \in L \ {h} : w[t] = v[t] /\ v[t] \in Int
  BY <1>1 DEF Without
<1>3. PICK z : z = Horizon(x, c)
  OBVIOUS
<1>4. z \in Int /\ Horizon(y, c + 1) \in Int /\ Horizon(y, c + 1) <= z /\ Horizon(y, c + 1) >= x
  <2>1. /\ Horizon(y, c) \in Int /\ Horizon(y, c) >= y /\ Horizon(y, c + 1) \in Int
        /\ Horizon(y, c + 1) + Delay = Horizon(y, c)
    BY <1>2, HorizonLaw
  <2>2. Horizon(y, c) = z + Delay /\ z \in Int
    <3>1. z = x + (N - 1 - c) * Delay /\ Horizon(y, c) = y + (N - 1 - c) * Delay
      BY <1>3 DEF Horizon
    <3>2. PICK a : a = (N - 1 - c) * Delay
      OBVIOUS
    <3>3. a \in Nat
      <4>1. N - 1 - c \in Nat
        BY <1>1
      <4> QED
        BY <1>1, <3>2, <4>1
    <3> QED
      BY <1>1, <3>1, <3>2, <3>3
  <2> QED
    BY <1>1, <2>1, <2>2
<1>5. PICK S, Q : S = Close(v, x, c) /\ Q = Close(w, y, c + 1)
  OBVIOUS
<1>6. CASE Q = {}
  <2>1. \A t \in L \ {h} : y <= w[t] + FirstLate
    <3> SUFFICES ASSUME NEW t \in L \ {h} PROVE y <= w[t] + FirstLate
      OBVIOUS
    <3>1. w[t] \in Int /\ ~(w[t] <= Horizon(y, c + 1))
      BY <1>2, <1>5, <1>6 DEF Close
    <3> QED
      BY <1>1, <1>2, <1>4, <3>1
  <2>2. Chain(w, y, 0) /\ 0 \in 0 .. N - 1
    BY <1>1, <1>2, <2>1, ChainFirst
  <2> QED
    BY <2>2
<1>7. CASE Q # {}
  <2>1. Q \subseteq S \ {h} /\ h \in S
    <3>1. ASSUME NEW t \in Q PROVE t \in S /\ t # h /\ h \in S
      <4>1. t \in L \ {h} /\ w[t] <= Horizon(y, c + 1)
        BY <1>2, <1>5 DEF Close
      <4>2. v[t] \in Int /\ v[t] <= z /\ v[h] \in Int /\ v[h] <= z
        <5>1. v[t] \in Int /\ w[t] = v[t] /\ v[h] \in Int /\ v[h] <= v[t]
          BY <1>2, <4>1 DEF FirstOf
        <5> QED
          BY <1>4, <4>1, <5>1
      <4> QED
        BY <1>3, <1>5, <4>1, <4>2 DEF Close
    <3> QED
      BY <1>7, <3>1
  <2>2. IsFiniteSet(S) /\ S \subseteq Timers
    <3>1. S \subseteq Timers
      BY <1>5 DEF Close
    <3> QED
      BY <3>1, AppTimerAssumption, FS_Subset
  <2>3. PICK a, b : a = Cardinality(Q) /\ b = Cardinality(S)
    OBVIOUS
  <2>4. a \in Nat /\ b \in Nat /\ a + 1 <= b /\ a # 0 /\ b <= N
    <3>1. IsFiniteSet(S \ {h}) /\ Cardinality(S \ {h}) = b - 1
      BY <2>1, <2>2, <2>3, FS_RemoveElement
    <3>2. IsFiniteSet(Q) /\ a <= b - 1 /\ a \in Nat /\ b \in Nat
      BY <2>1, <2>2, <2>3, <3>1, FS_Subset, FS_CardinalityType
    <3>3. a # 0
      BY <1>7, <2>3, <3>2, FS_EmptySet
    <3>4. b <= N
      BY <2>2, <2>3, AppTimerAssumption, FS_Subset DEF N
    <3> QED
      BY <3>2, <3>3, <3>4
  <2>5. b + c <= N
    <3>1. CASE c > 0
      BY <1>5, <2>3, <3>1 DEF Chain
    <3>2. CASE c = 0
      BY <2>4, <3>2
    <3> QED
      BY <1>1, <3>1, <3>2
  <2>6. PICK d : d = c + 1
    OBVIOUS
  <2>7. d \in 0 .. N - 1 /\ a + d <= N
    BY <1>1, <2>4, <2>5, <2>6
  <2>8. \A t \in L \ {h} : y <= w[t] + Late(d)
    <3> SUFFICES ASSUME NEW t \in L \ {h} PROVE y <= w[t] + Late(d)
      OBVIOUS
    <3>1. x <= v[t] + Late(c)
      BY DEF Chain
    <3>2. w[t] \in Int /\ w[t] = v[t] /\ Late(d) = Late(c) + Delay
      BY <1>1, <1>2, <2>6
    <3>3. PICK e, f, g : e = w[t] /\ f = Late(c) /\ g = Late(d)
      OBVIOUS
    <3>4. x <= e + f /\ g = f + Delay /\ e \in Int /\ f \in Nat
      BY <1>1, <3>1, <3>2, <3>3
    <3>5. y <= e + g
      BY <1>1, <3>4
    <3> QED
      BY <3>3, <3>5
  <2>9. Chain(w, y, d)
    BY <1>2, <1>5, <2>3, <2>6, <2>7, <2>8 DEF Chain
  <2> QED
    BY <2>7, <2>9
<1> QED
  BY <1>6, <1>7

LEMMA HandlerHead ==
  ASSUME NEW n, Changed(n), list' # << >>
  PROVE  /\ Head(list') \in Listed' /\ N >= 1
         /\ \A t \in Listed' : When'[Head(list')] <= When'[t]
<1>1. list' \in Seq(Timers) /\ IsInjective(list') /\ ticks_to_expire' \in [Timers -> Nat]
  BY DEF Changed
<1>2. /\ Head(list') \in Range(list')
      /\ \A t \in Range(list') : t \in Timers /\ Expiry(list', ticks_to_expire', Head(list'))
                                                   <= Expiry(list', ticks_to_expire', t)
  BY <1>1, ExpiryLaw
<1>3. Listed' = Range(list') /\ \A t \in Listed' : When'[t] = Expiry(list', ticks_to_expire', t)
  BY DEF Listed, When
<1>4. N >= 1
  <2>1. Timers # {}
    BY <1>2
  <2>2. N \in Nat /\ N # 0
    BY <2>1, AppTimerAssumption, FS_EmptySet, FS_CardinalityType DEF N
  <2> QED
    BY <2>2
<1> QED
  BY <1>2, <1>3, <1>4

(* When no handlers have been called, the list changes by the operation.   *)
LEMMA OnlyOperation ==
  ASSUME TimerInv, ~rtc1_pending, NEW n, NEW k, Reached(n, k), Changed(n), elapsed = NoTicks
  PROVE  /\ n = 0 /\ Listed' = (Listed \ Gone) \cup In
         /\ \A t \in Listed' \ In : t \in Listed /\ When'[t] = When[t]
         /\ \A t \in In : /\ t \in Listed' /\ t \notin Listed /\ op.type = "start"
                          /\ When'[t] + 2 * MaxLag > counter + MaxLate
                          /\ When'[t] + MaxLag >= counter + 1
<1>1. TypeOK /\ n = 0 /\ Taken = {} /\ Over = {}
  BY DEF TimerInv, Reached, Taken, Over
<1>2. \A t : Anew(t) = When[t]
  BY <1>1 DEF Anew
<1>3. Listed' = (Listed \ Gone) \cup In
  BY <1>1 DEF Changed
<1>4. When' \in [Listed' -> Nat] /\ counter \in Nat /\ MaxLag \in Nat /\ MaxLate \in Nat
      /\ \A t \in Listed : When[t] \in Nat
  BY <1>1, HandlerBounds, Typed, Numbers, WhenLaw
<1>5. ASSUME NEW t \in Listed' \ In PROVE t \in Listed /\ When'[t] = When[t]
  <2>1. When'[t] + n = When[t] /\ t \in Listed
    BY <1>2, <1>3, <1>5 DEF Changed
  <2>2. When'[t] \in Nat
    BY <1>4
  <2> QED
    BY <1>1, <2>1, <2>2
<1>6. ASSUME NEW t \in In
      PROVE  /\ t \in Listed' /\ t \notin Listed /\ op.type = "start"
             /\ When'[t] + 2 * MaxLag > counter + MaxLate /\ When'[t] + MaxLag >= counter + 1
  <2>1. t \in Listed' /\ t \notin Listed /\ When'[t] + n = op.at + op.ticks
    BY <1>1, <1>3 DEF Changed
  <2>2. PICK y, p, v : y = When'[t] /\ p = op.ticks /\ v = op.at + op.ticks
    OBVIOUS
  <2>3. /\ op.type = "start" /\ p \in Intervals /\ counter + 1 <= v + MaxLag
        /\ v + 2 * MaxLag >= counter + p
    BY <2>2, ComeBounds
  <2>4. p \in Nat /\ p > MaxLate /\ y \in Nat /\ y = v
    <3>1. y \in Nat /\ y + n = v
      BY <1>4, <2>1, <2>2
    <3> QED
      BY <1>1, <2>3, <3>1, IntervalLaw
  <2>5. y + 2 * MaxLag > counter + MaxLate /\ y + MaxLag >= counter + 1
    BY <1>4, <2>3, <2>4
  <2> QED
    BY <2>1, <2>2, <2>3, <2>5
<1> QED
  BY <1>1, <1>3, <1>5, <1>6

LEMMA HandlerArmed ==
  ASSUME TimerInv, timer_list_handler, NEW n, NEW k, Reached(n, k), Changed(n),
         counter' = counter - n, cc' = ticks_diff_get(cc, n)
  PROVE  Armed'
<1>1. TypeOK /\ Armed
  BY DEF TimerInv
<1>2. /\ level = "thread" /\ ~rtc1_pending /\ rtc1_pending' = rtc1_pending /\ elapsed' = NoTicks /\ lag' = 0
      /\ level' = (IF elapsed # NoTicks \/ First(list') # First(list) THEN "compare" ELSE "thread")
  BY HandlerQuiet
<1> SUFFICES ASSUME level' = "thread", list' # << >>
             PROVE  /\ counter' < cc'
                    /\ \E c \in 0 .. N - 1 : Chain(When', cc', c) /\ (c > 0 => cc' <= counter' + OffsetMin)
  BY <1>2 DEF Armed
<1>3. elapsed = NoTicks /\ list # << >> /\ Head(list') = Head(list)
  BY <1>2 DEF First
<1>4. /\ n = 0 /\ Listed' = (Listed \ Gone) \cup In
      /\ \A t \in Listed' \ In : t \in Listed /\ When'[t] = When[t]
      /\ \A t \in In : t \in Listed' /\ t \notin Listed /\ When'[t] + 2 * MaxLag > counter + MaxLate
  BY <1>2, <1>3, OnlyOperation
<1>5. /\ counter \in Nat /\ cc \in Nat /\ cc <= Modulus - 1 /\ MaxLag \in Nat /\ MaxLate \in Nat
      /\ Modulus \in Nat /\ OffsetMin = 3
  BY <1>1, Typed, Numbers
<1>6. counter' = counter /\ cc' = cc
  <2>1. ticks_diff_get(cc, 0) = cc - 0
    BY <1>5, DiffLaw
  <2> QED
    BY <1>4, <1>5, <2>1
<1>7. counter < cc
  BY <1>1, <1>2, <1>3 DEF Armed
<1>8. PICK c \in 0 .. N - 1 : Chain(When, cc, c) /\ (c > 0 => cc <= counter + OffsetMin)
  BY <1>1, <1>2, <1>3 DEF Armed
<1>9. /\ Listed \subseteq Timers /\ When \in [Listed -> Int] /\ Listed' \subseteq Timers /\ When' \in [Listed' -> Int]
      /\ Head(list) \in Listed
  BY <1>1, <1>2, <1>3, HandlerBounds, WhenLaw
<1>10. PICK h : h = Head(list)
  OBVIOUS
<1>11. h \in Listed' /\ h \notin In /\ \A t \in Listed' : When'[h] <= When'[t]
  BY <1>3, <1>4, <1>9, <1>10, HandlerHead
<1>12. Late(c) \in Nat /\ c \in Nat
  BY LateLaw
<1>13. ASSUME NEW t \in Listed' PROVE cc <= When'[t] + Late(c)
  <2>1. h \in Listed /\ When'[h] = When[h] /\ cc <= When[h] + Late(c)
    BY <1>4, <1>8, <1>9, <1>10, <1>11 DEF Chain
  <2>2. PICK e, f, g : e = When'[h] /\ f = When'[t] /\ g = Late(c)
    OBVIOUS
  <2>3. e \in Int /\ f \in Int /\ g \in Nat /\ e <= f /\ cc <= e + g
    BY <1>9, <1>11, <1>12, <2>1, <2>2
  <2>4. cc <= f + g
    BY <1>5, <2>3
  <2> QED
    BY <2>2, <2>4
<1>14. ASSUME c > 0 PROVE Close(When', cc, c) \subseteq Close(When, cc, c)
  <2> SUFFICES ASSUME NEW t \in Listed', When'[t] <= Horizon(cc, c) PROVE t \in Close(When, cc, c)
    BY <1>9 DEF Close
  <2>1. t \notin In
    <3>1. Horizon(cc, c) \in Int /\ Horizon(cc, c) <= cc + MaxLate - 4 * MaxLag - 4
      BY <1>5, <1>14, HorizonLaw
    <3>2. cc <= counter + 3
      BY <1>5, <1>8, <1>14
    <3>3. PICK y, z : y = When'[t] /\ z = Horizon(cc, c)
      OBVIOUS
    <3>4. y \in Int /\ z \in Int /\ y <= z /\ z <= cc + MaxLate - 4 * MaxLag - 4
      BY <1>9, <3>1, <3>3
    <3>5. ~(y + 2 * MaxLag > counter + MaxLate)
      BY <1>5, <3>2, <3>4
    <3> QED
      BY <1>4, <3>3, <3>5
  <2> QED
    BY <1>4, <1>9, <2>1 DEF Close
<1>15. Chain(When', cc, c)
  <2>1. GoesOn(When, When', cc, c)
    BY <1>9, <1>13, <1>14 DEF GoesOn
  <2>2. cc \in Int
    BY <1>5
  <2> QED
    BY <1>8, <1>9, <2>1, <2>2, ChainGoesOn
<1> QED
  BY <1>6, <1>7, <1>8, <1>15

LEMMA HandlerUpdating ==
  ASSUME TimerInv, timer_list_handler, NEW n, NEW k, Reached(n, k), Changed(n),
         counter' = counter - n
  PROVE  Updating'
<1>1. TypeOK /\ Armed
  BY DEF TimerInv
<1>2. /\ level = "thread" /\ ~rtc1_pending /\ elapsed' = NoTicks /\ lag' = 0
      /\ level' = (IF elapsed # NoTicks \/ First(list') # First(list) THEN "compare" ELSE "thread")
  BY HandlerQuiet
<1>3. PICK y : y = counter' - lag' + MaxLag + OffsetMin
  OBVIOUS
<1> SUFFICES ASSUME level' # "thread", list' # << >>
             PROVE  \E c \in 0 .. N - 1 : Chain(When', y, c)
  <2>1. level' \notin {"set", "post"}
    BY <1>2
  <2> QED
    BY <1>3, <2>1 DEF Updating
<1>4. /\ counter \in Nat /\ cc \in Nat /\ n \in Nat /\ n <= counter /\ MaxLag \in Nat /\ MaxLag >= 1
      /\ MaxLate \in Nat /\ OffsetMin = 3 /\ FirstLate = 2 * MaxLag + 2 /\ Delay = MaxLag + 2
  BY <1>1, Typed, Numbers DEF Reached
<1>5. y = counter - n + MaxLag + 3 /\ y \in Int
  BY <1>2, <1>3, <1>4
<1>6. /\ Listed \subseteq Timers /\ When \in [Listed -> Int] /\ Listed' \subseteq Timers /\ When' \in [Listed' -> Int]
      /\ N >= 1 /\ Head(list') \in Listed' /\ \A t \in Listed' : When'[Head(list')] <= When'[t]
  BY <1>1, <1>2, HandlerBounds, HandlerHead, WhenLaw
<1>7. CASE elapsed # NoTicks
  <2>1. \A t \in Listed' : y <= When'[t] + FirstLate
    <3> SUFFICES ASSUME NEW t \in Listed' PROVE y <= When'[t] + FirstLate
      OBVIOUS
    <3>1. counter + 1 <= When'[t] + n + MaxLag /\ When'[t] \in Int
      BY <1>2, <1>6, <1>7, HandlerBounds
    <3>2. PICK w : w = When'[t]
      OBVIOUS
    <3>3. w \in Int /\ counter + 1 <= w + n + MaxLag
      BY <3>1, <3>2
    <3>4. y <= w + FirstLate
      BY <1>4, <1>5, <3>3
    <3> QED
      BY <3>2, <3>4
  <2> QED
    BY <1>5, <1>6, <2>1, ChainFirst
<1>8. CASE elapsed = NoTicks
  <2>1. /\ n = 0 /\ Listed' = (Listed \ Gone) \cup In
        /\ \A t \in Listed' \ In : t \in Listed /\ When'[t] = When[t]
        /\ \A t \in In : op.type = "start" /\ When'[t] + MaxLag >= counter + 1
    BY <1>2, <1>8, OnlyOperation
  <2>2. First(list') # First(list)
    BY <1>2, <1>8
  <2>3. Head(list') \in In \/ (list # << >> /\ Head(list) \in Gone)
    <3>1. \/ Head(list') \in In
          \/ list # << >> /\ (Head(list') = Head(list) \/ Head(list) \in Gone)
      BY <1>8 DEF Changed
    <3> QED
      BY <2>2, <3>1 DEF First
  <2>4. CASE Head(list') \in In
    <3>1. \A t \in Listed' : y <= When'[t] + FirstLate
      <4> SUFFICES ASSUME NEW t \in Listed' PROVE y <= When'[t] + FirstLate
        OBVIOUS
      <4>1. PICK v, w : v = When'[Head(list')] /\ w = When'[t]
        OBVIOUS
      <4>2. v \in Int /\ w \in Int /\ v <= w /\ v + MaxLag >= counter + 1
        BY <1>6, <2>1, <2>4, <4>1
      <4>3. y <= w + FirstLate
        BY <1>4, <1>5, <2>1, <4>2
      <4> QED
        BY <4>1, <4>3
    <3> QED
      BY <1>5, <1>6, <3>1, ChainFirst
  <2>5. CASE list # << >> /\ Head(list) \in Gone
    <3>1. PICK h : h = Head(list)
      OBVIOUS
    <3>2. h \in Listed /\ FirstOf(When, h)
      BY <1>1, <1>6, <2>5, <3>1, WhenLaw DEF FirstOf
    <3>3. op.type = "stop" /\ In = {} /\ Gone = {h}
      <4>1. op.type # "start" => In = {}
        BY DEF In, Starting
      <4>2. op.type = "stop_all" \/ (op.type = "stop" /\ op.timer = h)
        BY <2>5, <3>1 DEF Gone
      <4>3. op.type # "stop_all"
        <5>1. ASSUME op.type = "stop_all" PROVE FALSE
          <6>1. Gone = Timers
            BY <5>1 DEF Gone
          <6>2. In = {}
            BY <4>1, <5>1
          <6> QED
            BY <1>6, <2>1, <6>1, <6>2
        <5> QED
          BY <5>1
      <4>4. Gone = {h}
        BY <1>6, <3>2, <4>2, <4>3 DEF Gone
      <4> QED
        BY <4>1, <4>2, <4>3, <4>4
    <3>4. Without(When, h, When')
      BY <1>6, <2>1, <3>3 DEF Without
    <3>5. counter < cc
      BY <1>1, <1>2, <1>8, <2>5 DEF Armed
    <3>6. PICK c \in 0 .. N - 1 : Chain(When, cc, c)
      BY <1>1, <1>2, <1>8, <2>5 DEF Armed
    <3>7. PICK x : x = cc + Delay
      OBVIOUS
    <3>8. PICK d \in 0 .. N - 1 : Chain(When', x, d)
      <4>1. cc \in Int
        BY <1>4
      <4> QED
        BY <1>6, <3>2, <3>4, <3>6, <3>7, <4>1, ChainNext
    <3>9. x \in Int /\ y <= x
      BY <1>4, <1>5, <2>1, <3>5, <3>7
    <3> QED
      BY <1>5, <1>6, <3>8, <3>9, ChainEarlier
  <2> QED
    BY <2>3, <2>4, <2>5
<1> QED
  BY <1>7, <1>8

LEMMA HandlerKeeps ==
  ASSUME TimerInv, timer_list_handler
  PROVE  TimerInv'
<1>1. TypeOK /\ Phases
  BY DEF TimerInv
<1>2. /\ level = "thread" /\ ~rtc1_pending /\ rtc1_pending' = rtc1_pending
      /\ swi_pending' = FALSE /\ elapsed' = NoTicks /\ op' = NoOp /\ lag' = 0
      /\ UNCHANGED <<deaf, rtc1_running, pre, call, want, left>>
      /\ level' = (IF elapsed # NoTicks \/ First(list') # First(list) THEN "compare" ELSE "thread")
  BY HandlerQuiet
<1>3. PICK n, k : /\ Reached(n, k) /\ Changed(n)
                  /\ counter' = ticks_diff_get(counter, n) /\ cc' = ticks_diff_get(cc, n)
  BY HandlerChanges
<1>4. /\ counter \in Nat /\ counter <= Modulus - 1 /\ cc \in Nat /\ cc <= Modulus - 1 /\ Modulus \in Nat
      /\ n \in Nat /\ n <= counter /\ MaxLag \in Nat /\ NoTicks = -1
  BY <1>1, <1>3, Typed, Numbers DEF Reached
<1>5. counter' = counter - n /\ cc' \in 0 .. Modulus - 1
  BY <1>3, <1>4, DiffLaw
<1>6. Members' /\ Due' /\ Armed' /\ Updating'
  BY <1>3, <1>5, HandlerMembers, HandlerDue, HandlerArmed, HandlerUpdating
<1>7. TypeOK'
  <2>1. ticks_to_expire' \in [Timers -> 0 .. Modulus - 1] /\ list' \in Seq(Timers) /\ IsInjective(list')
    BY <1>2, <1>3, HandlerBounds DEF Changed
  <2>2. op' \in Operations /\ elapsed' \in -1 .. Modulus - 1 /\ lag' \in 0 .. MaxLag
    BY <1>2, <1>4 DEF Operations
  <2>3. counter' \in 0 .. Modulus - 1 /\ level' \in {"thread", "compare", "set", "post"}
    BY <1>2, <1>4, <1>5
  <2>4. is_running' \in [Timers -> BOOLEAN] /\ periodic' \in [Timers -> Intervals \cup {0}]
    BY <1>3 DEF Changed
  <2> QED
    BY <1>1, <1>2, <1>5, <2>1, <2>2, <2>3, <2>4 DEF TypeOK
<1>8. Near'
  BY <1>2, <1>3, HandlerBounds DEF Near
<1>9. Started' /\ Called'
  <2>1. op'.type # "start"
    BY <1>2 DEF NoOp
  <2> QED
    BY <1>2, <2>1 DEF Started, Called
<1>10. Phases'
  <2>1. ~rtc1_running => counter' = 0
    BY <1>1, <1>4, <1>5 DEF Phases
  <2>2. level' = "thread" => (list = << >> <=> list' = << >>)
    BY <1>2 DEF First
  <2> QED
    BY <1>1, <1>2, <2>1, <2>2 DEF Phases
<1> QED
  BY <1>6, <1>7, <1>8, <1>9, <1>10 DEF TimerInv

----------------------------------------------------------------------------
LEMMA InitTimer == Init => TimerInv
<1> SUFFICES ASSUME Init PROVE TimerInv
  OBVIOUS
<1>1. /\ counter = 0 /\ cc = 0 /\ deaf = FALSE /\ rtc1_running = FALSE /\ rtc1_pending = FALSE
      /\ swi_pending = FALSE /\ level = "thread" /\ pre = 0 /\ list = << >>
      /\ ticks_to_expire = [t \in Timers |-> 0] /\ is_running = [t \in Timers |-> FALSE]
      /\ periodic = [t \in Timers |-> 0] /\ elapsed = NoTicks /\ op = NoOp /\ call = <<"none">>
      /\ want = {} /\ left = [t \in Timers |-> 0] /\ lag = 0
  BY DEF Init
<1>2. Listed = {} /\ Taken = {} /\ op.type # "start" /\ op.type # "stop" /\ op.type # "stop_all"
  BY <1>1 DEF Listed, Taken, Range, NoOp
<1>3. TypeOK
  <2>1. 0 \in 0 .. Modulus - 1 /\ 0 \in 0 .. MaxLag /\ elapsed \in -1 .. Modulus - 1
    BY <1>1, Numbers
  <2>2. op \in Operations /\ call \in Calls
    BY <1>1 DEF Operations, Calls
  <2>3. list \in Seq(Timers) /\ IsInjective(list)
    BY <1>1 DEF IsInjective
  <2>4. /\ ticks_to_expire \in [Timers -> 0 .. Modulus - 1] /\ is_running \in [Timers -> BOOLEAN]
        /\ periodic \in [Timers -> Intervals \cup {0}] /\ left \in [Timers -> Int]
    BY <1>1, <2>1
  <2> QED
    BY <1>1, <2>1, <2>2, <2>3, <2>4 DEF TypeOK
<1>4. Members /\ Due
  BY <1>1, <1>2 DEF Members, Due
<1>5. Phases
  BY <1>1 DEF Phases
<1>6. Started /\ Near /\ Armed /\ Called /\ Updating
  BY <1>1, <1>2 DEF Started, Near, Armed, Called, Updating
<1> QED
  BY <1>3, <1>4, <1>5, <1>6 DEF TimerInv

LEMMA StutterKeeps ==
  ASSUME TimerInv, UNCHANGED vars
  PROVE  TimerInv'
<1>1. UNCHANGED <<counter, cc, deaf, rtc1_running, rtc1_pending, swi_pending, level, pre, list,
                  ticks_to_expire, is_running, periodic, elapsed, op, call, want, left, lag>>
  BY DEF vars, rtcVars, listVars, histVars
<1>2. Listed' = Listed /\ When' = When
  BY <1>1, SameList
<1>3. Taken' = Taken /\ \A t : (Starting(t)' <=> Starting(t)) /\ (Stopped(t)' <=> Stopped(t))
  BY <1>1, <1>2 DEF Taken, Starting, Stopped
<1>4. TypeOK'
  BY <1>1 DEF TimerInv, TypeOK
<1>5. Members' /\ Due' /\ Phases' /\ Started' /\ Near' /\ Armed' /\ Called' /\ Updating'
  BY <1>1, <1>2, <1>3 DEF TimerInv, Members, Due, Phases, Started, Near, Armed, Called, Updating
<1> QED
  BY <1>4, <1>5 DEF TimerInv

(* The invariant holds whatever the thread, the interrupts and the counter *)
(* of app_timer.c do, and in whatever order.                               *)
THEOREM TimerInvariant == Spec => []TimerInv
<1>1. Init => TimerInv
  BY InitTimer
<1>2. TimerInv /\ [Next]_vars => TimerInv'
  <2> SUFFICES ASSUME TimerInv, [Next]_vars PROVE TimerInv'
    OBVIOUS
  <2>1. CASE Tick
    BY <2>1, TickKeeps
  <2>2. CASE Thread
    <3>1. ASSUME NEW t \in Timers, NEW n \in Intervals, app_timer_start(t, n) PROVE TimerInv'
      BY <3>1, StartKeeps
    <3>2. ASSUME NEW t \in Timers, app_timer_stop(t) PROVE TimerInv'
      BY <3>2, StopKeeps
    <3>3. CASE timer_stop_op_schedule
      BY <3>3, StopQueuedKeeps
    <3>4. CASE app_timer_stop_all
      BY <3>4, StopAllKeeps
    <3>5. CASE timer_list_handler_sched
      BY <3>5, SignalKeeps
    <3> QED
      BY <2>2, <3>1, <3>2, <3>3, <3>4, <3>5 DEF Thread
  <2>3. CASE RTC1_IRQHandler
    BY <2>3, RTC1Keeps
  <2>4. CASE timer_list_handler
    BY <2>4, HandlerKeeps
  <2>5. CASE ReadCounter
    BY <2>5, ReadCounterKeeps
  <2>6. CASE SetCompare
    BY <2>6, SetCompareKeeps
  <2>7. CASE ReadAgain
    BY <2>7, ReadAgainKeeps
  <2>8. CASE UNCHANGED vars
    BY <2>8, StutterKeeps
  <2> QED
    BY <2>1, <2>2, <2>3, <2>4, <2>5, <2>6, <2>7, <2>8 DEF Next, Interrupt
<1> QED
  BY <1>1, <1>2, PTL DEF Spec

(* Every variable keeps its type: no counter value, and none of the ticks  *)
(* that the list or a queued operation holds, leaves its range.            *)
THEOREM TimerTyped == Spec => []TypeOK
<1>1. TimerInv => TypeOK
  BY DEF TimerInv
<1> QED
  BY <1>1, TimerInvariant, PTL

(* No timer is later than the delays of the processor explain, however     *)
(* many updates of the list put its expiry off (app_timer.c:674).          *)
THEOREM NoneLate == Spec => []Punctual
<1>1. TimerInv => Punctual
  <2> SUFFICES ASSUME TimerInv, NEW t \in want PROVE left[t] >= -MaxLate
    BY DEF Punctual
  <2>1. TypeOK /\ Members /\ Due /\ Called /\ Started
    BY DEF TimerInv
  <2>2. /\ counter \in Nat /\ lag \in Nat /\ lag <= MaxLag /\ MaxLag \in Nat /\ MaxLate \in Nat
        /\ MaxLate >= 2 * MaxLag
    BY <2>1, Typed, Numbers
  <2>3. left[t] = IF is_running[t] THEN When[t] - counter
                  ELSE IF t \in Taken /\ t \in Repeated THEN When[t] + periodic[t] - counter
                  ELSE op.ticks - op.waited
    BY <2>1 DEF Due
  <2>4. (t \in Listed /\ (is_running[t] \/ (t \in Taken /\ t \in Repeated))) \/ Starting(t)
    BY <2>1 DEF Members
  <2>5. PICK w, p : w = When[t] /\ p = periodic[t]
    OBVIOUS
  <2>6. t \in Timers
    BY <2>1, Typed
  <2>7. CASE is_running[t]
    <3>1. t \in Listed \ Taken
      BY <2>1, <2>6, <2>7 DEF Members
    <3>2. w \in Nat /\ (elapsed = NoTicks => counter <= w + MaxLate)
      BY <2>1, <2>5, <3>1, Lateness, WhenLaw
    <3>3. elapsed # NoTicks => w > counter - lag
      BY <2>1, <2>5, <3>1 DEF Called
    <3>4. w - counter >= -MaxLate
      BY <2>2, <3>2, <3>3
    <3> QED
      BY <2>3, <2>5, <2>7, <3>4
  <2>8. CASE ~is_running[t] /\ t \in Taken /\ t \in Repeated
    <3>1. t \in Listed
      BY <2>8 DEF Taken
    <3>2. w \in Nat /\ counter <= w + MaxLate + lag
      BY <2>1, <2>5, <3>1, Lateness, WhenLaw
    <3>3. p \in Nat
      BY <2>1, <2>5, <2>6, Typed
    <3>4. p \in Intervals
      BY <2>1, <2>5, <2>6, <2>8, <3>1 DEF Members, TypeOK
    <3>5. p > MaxLate
      BY <3>4, IntervalLaw
    <3>6. w + p - counter >= -MaxLate
      BY <2>2, <3>2, <3>3, <3>5
    <3> QED
      BY <2>3, <2>5, <2>8, <3>6
  <2>9. CASE ~is_running[t] /\ ~(t \in Taken /\ t \in Repeated)
    <3>1. op.type = "start"
      BY <2>4, <2>9 DEF Starting
    <3>2. PICK n, m : n = op.ticks /\ m = op.waited
      OBVIOUS
    <3>3. n \in Intervals /\ n \in Nat /\ m \in Nat
      BY <2>1, <3>1, <3>2, OpTyped
    <3>4. n >= 4 * MaxLag
      BY <3>3, IntervalLaw
    <3>5. m <= 4 * MaxLag
      <4>1. /\ elapsed = NoTicks => m <= (IF call = <<"queued">> THEN 0 ELSE MaxLag) + lag
            /\ elapsed # NoTicks => IF rtc1_pending THEN m <= 2 * MaxLag + lag ELSE m <= 3 * MaxLag + lag
        BY <2>1, <3>1, <3>2 DEF Started
      <4> QED
        BY <2>2, <3>3, <4>1
    <3>6. n - m >= -MaxLate
      BY <2>2, <3>3, <3>4, <3>5
    <3> QED
      BY <2>3, <2>9, <3>2, <3>6
  <2> QED
    BY <2>7, <2>8, <2>9
<1> QED
  BY <1>1, TimerInvariant, PTL

(* Once the interrupts have caught up with the thread, the list holds the  *)
(* timers that were started and neither stopped nor over, and those alone  *)
(* run (app_timer.c:1026).                                                 *)
THEOREM ListRight == Spec => []ListAsWanted
<1>1. TimerInv => ListAsWanted
  <2> SUFFICES ASSUME TimerInv, ~Busy
               PROVE  Range(list) = want /\ \A t \in Timers : is_running[t] <=> t \in want
    BY DEF ListAsWanted
  <2>1. TypeOK /\ Members /\ Phases
    BY DEF TimerInv
  <2>2. elapsed = NoTicks /\ op = NoOp /\ call = <<"none">>
    BY <2>1 DEF Busy, Phases
  <2>3. Taken = {} /\ op.type # "start" /\ op.type # "stop_all" /\ \A t : ~Stopped(t) /\ ~Starting(t)
    BY <2>2 DEF Taken, NoOp, Stopped, Starting
  <2>4. Listed \subseteq Timers /\ want \subseteq Timers
    BY <2>1, WhenLaw, Typed
  <2> QED
    BY <2>1, <2>3, <2>4 DEF Members, Listed
<1> QED
  BY <1>1, TimerInvariant, PTL

(* RTC1's interrupt calls no handler before its time: of a timer that it   *)
(* takes for expired no ticks are left (app_timer.c:424).                  *)
THEOREM NoneEarly == Spec => NeverEarly
<1>1. TimerInv /\ [Next]_vars =>
        [RTC1_IRQHandler => \A t \in want : is_running[t] /\ ~is_running'[t] => left[t] <= 0]_vars
  <2> SUFFICES ASSUME TimerInv, RTC1_IRQHandler, NEW t \in want, is_running[t], ~is_running'[t]
               PROVE  left[t] <= 0
    OBVIOUS
  <2>1. TypeOK /\ Members /\ Due /\ Phases
    BY DEF TimerInv
  <2>2. list # << >> /\ t \in Timers
    BY <2>1, Typed DEF Phases, RTC1_IRQHandler, Rtc1Due
  <2>3. PICK k : k = Expired(list, ticks_to_expire, counter)
    OBVIOUS
  <2>4. is_running' = [u \in Timers |-> is_running[u] /\ u \notin Leading(k)]
    BY <2>2, <2>3 DEF RTC1_IRQHandler, Leading
  <2>5. t \in Leading(k)
    BY <2>2, <2>4
  <2>6. counter \in Nat
    BY <2>1, Typed
  <2>7. t \in Listed /\ When[t] <= counter
    <3>1. PICK o : o = Offset(list, ticks_to_expire, k)
      OBVIOUS
    <3>2. Passed(Leading(k), counter, o)
      BY <2>1, <2>3, <2>6, <3>1, ExpiredFirst
    <3> QED
      BY <2>5, <3>2 DEF Passed
  <2>8. left[t] = When[t] - counter /\ When[t] \in Nat
    BY <2>1, <2>7, WhenLaw DEF Due
  <2> QED
    BY <2>6, <2>7, <2>8
<1> QED
  BY <1>1, TimerInvariant, PTL DEF Spec, NeverEarly
=============================================================================
