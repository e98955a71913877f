---------------------------- MODULE AudioProofs ----------------------------
(***************************************************************************)
(* What holds of an audio stream for every number of buffers and calls and  *)
(* every length of the statistics: the types, the smallest sample, where    *)
(* each buffer is, and that the turns of a CD always find one free.         *)
(***************************************************************************)
EXTENDS AudioStream, SequenceTheorems, FiniteSetTheorems, TLAPS

-----------------------------------------------------------------------------
(* The ring of the statistics *)

\* The remainder of a number below twice the divisor.
LEMMA ModOnce ==
  ASSUME NEW L \in Nat \ {0}, NEW x \in 0 .. 2 * L - 1
  PROVE  x % L = IF x >= L THEN x - L ELSE x
<1> DEFINE q == x \div L
           r == x % L
<1>1. r \in 0 .. L - 1 /\ q \in Int /\ x = L * q + r
  OBVIOUS
<1> HIDE DEF q, r
<1>2. q >= 2 => L * q >= L + L
  BY <1>1
<1>3. q <= -1 => L * q <= -L
  BY <1>1
<1>4. q = 0 \/ q = 1
  BY <1>1, <1>2, <1>3
<1>5. q = 0 => L * q = 0
  BY <1>1
<1>6. q = 1 => L * q = L
  BY <1>1
<1>7. r = IF x >= L THEN x - L ELSE x
  BY <1>1, <1>4, <1>5, <1>6
<1> QED
  BY <1>7 DEF r

\* Going back in the ring stays in it.
LEMMA BackType ==
  ASSUME NEW p \in Slots, NEW j \in 0 .. Window
  PROVE  /\ Back(p, j) \in Slots
         /\ Back(p, j) = IF p >= j THEN p - j ELSE p - j + Length
<1>1. p - j + Length \in 0 .. 2 * Length - 1 /\ Length \in Nat \ {0}
  BY StatsAssumption DEF Slots
<1> DEFINE x == p - j + Length
<1>2. x \in 0 .. 2 * Length - 1
  BY <1>1
<1> HIDE DEF x
<1>3. x % Length = IF x >= Length THEN x - Length ELSE x
  BY <1>1, <1>2, ModOnce
<1>4. Back(p, j) = IF x >= Length THEN x - Length ELSE x
  BY <1>3 DEF Back, x
<1> QED
  BY <1>1, <1>4, StatsAssumption DEF Slots, x

\* What was j samples ago is j + 1 samples ago when a sample is added, and is
\* not overwritten.
LEMMA NextSlotBack ==
  ASSUME NEW p \in Slots, NEW j \in 0 .. Window - 1
  PROVE  /\ NextSlot(p) \in Slots
         /\ Back(NextSlot(p), 0) = NextSlot(p)
         /\ Back(NextSlot(p), j + 1) = Back(p, j)
         /\ Back(p, j) # NextSlot(p)
<1>1. p + 1 \in 0 .. 2 * Length - 1 /\ Length \in Nat \ {0}
  BY StatsAssumption DEF Slots
<1> DEFINE x == p + 1
<1>a. x \in 0 .. 2 * Length - 1
  BY <1>1
<1> HIDE DEF x
<1>b. x % Length = IF x >= Length THEN x - Length ELSE x
  BY <1>1, <1>a, ModOnce
<1>2. NextSlot(p) = IF p + 1 >= Length THEN p + 1 - Length ELSE p + 1
  BY <1>1, <1>b, StatsAssumption DEF NextSlot, x, Slots
<1>3. NextSlot(p) \in Slots
  BY <1>1, <1>2 DEF Slots
<1>4. Back(NextSlot(p), 0) = NextSlot(p)
  BY <1>3, BackType, StatsAssumption DEF Slots
<1>5. j \in 0 .. Window /\ j + 1 \in 0 .. Window
  BY StatsAssumption
<1>6. Back(p, j) = IF p >= j THEN p - j ELSE p - j + Length
  BY <1>5, BackType
<1>7. Back(NextSlot(p), j + 1) = IF NextSlot(p) >= j + 1
                                 THEN NextSlot(p) - (j + 1)
                                 ELSE NextSlot(p) - (j + 1) + Length
  BY <1>3, <1>5, BackType
<1>8. Back(NextSlot(p), j + 1) = Back(p, j)
  BY <1>1, <1>2, <1>6, <1>7, StatsAssumption DEF Slots
<1>9. Back(p, j) # NextSlot(p)
  BY <1>1, <1>2, <1>6, StatsAssumption DEF Slots
<1> QED
  BY <1>3, <1>4, <1>8, <1>9

\* A set of numbers has a least one.
LEMMA Least ==
  ASSUME NEW T, T \subseteq Nat, T # {}
  PROVE  \E k \in T : \A l \in T : ~(l < k)
<1> DEFINE Less == OpToRel(<, Nat)
<1>1. IsWellFoundedOn(Less, Nat)
  BY NatLessThanWellFounded, Zenon
<1>2. \A l, k \in Nat : l < k => <<l, k>> \in Less
  BY Zenon DEF OpToRel
<1> HIDE DEF Less
<1>3. PICK k \in T : \A l \in T : ~(<<l, k>> \in Less)
  BY <1>1, WFMin
<1> QED
  BY <1>2, <1>3

\* The samples of a window have a smallest one.
LEMMA WindowHasMin ==
  ASSUME NEW f \in [Slots -> Int], NEW p \in Slots
  PROVE  \E j \in 0 .. Window - 1 : \A i \in 0 .. Window - 1 :
           f[Back(p, j)] <= f[Back(p, i)]
<1> DEFINE Value(j) == f[Back(p, j)]
           HasMin(k) == \E j \in 0 .. k - 1 : \A i \in 0 .. k - 1 :
                          Value(j) <= Value(i)
           T == {k \in 1 .. Window : ~HasMin(k)}
<1>1. ASSUME NEW j \in 0 .. Window PROVE Value(j) \in Int
  BY BackType
<1>2. SUFFICES HasMin(Window)
  OBVIOUS
<1> HIDE DEF Value
<1>3. SUFFICES ASSUME T # {} PROVE FALSE
  <2> HIDE DEF HasMin
  <2> QED
    BY StatsAssumption
<1>5. PICK k \in T : \A l \in T : ~(l < k)
  <2>1. T \subseteq Nat
    BY StatsAssumption
  <2> HIDE DEF T
  <2> QED
    BY <1>3, <2>1, Least
<1>6. k # 1
  <2>1. Value(0) <= Value(0)
    BY <1>1, StatsAssumption
  <2> QED
    BY <2>1
<1>7. k \in Nat /\ k - 1 \in 1 .. Window /\ k - 1 \notin T
  <2>1. k \in 1 .. Window
    OBVIOUS
  <2> HIDE DEF T
  <2> QED
    BY <1>5, <1>6, <2>1, StatsAssumption
<1>8. PICK j \in 0 .. k - 2 : \A i \in 0 .. k - 2 : Value(j) <= Value(i)
  BY <1>7
<1>9. HasMin(k)
  <2>1. Value(j) \in Int /\ Value(k - 1) \in Int
    BY <1>1, <1>7, <1>8, StatsAssumption
  <2>2. CASE Value(j) <= Value(k - 1)
    <3>1. \A i \in 0 .. k - 1 : Value(j) <= Value(i)
      BY <1>8, <2>2, StatsAssumption
    <3> QED
      BY <3>1, <1>8, StatsAssumption
  <2>3. CASE Value(k - 1) < Value(j)
    <3>1. \A i \in 0 .. k - 1 : Value(i) \in Int
      BY <1>1, StatsAssumption
    <3>2. \A i \in 0 .. k - 1 : Value(k - 1) <= Value(i)
      BY <1>8, <2>1, <2>3, <3>1, StatsAssumption
    <3> QED
      BY <3>2, <1>7
  <2> QED
    BY <2>1, <2>2, <2>3
<1> QED
  BY <1>9

\* g gives, for each n up to k, the sum of the first n of the numbers x.
Sums(g, x, k) == g[0] = 0 /\ \A n \in 1 .. k : g[n] = g[n - 1] + x[n - 1]

\* Numbers have sums.
LEMMA SumsExist ==
  ASSUME NEW W \in Nat, NEW x \in [0 .. W - 1 -> Int]
  PROVE  \E g \in [0 .. W -> Int] : Sums(g, x, W)
<1> DEFINE Has(k) == \E g \in [0 .. k -> Int] : Sums(g, x, k)
           T == {k \in 0 .. W : ~Has(k)}
<1>b. SUFFICES Has(W)
  OBVIOUS
<1>1. SUFFICES ASSUME T # {} PROVE FALSE
  <2> HIDE DEF Has
  <2> QED
    OBVIOUS
<1>2. PICK k \in T : \A l \in T : ~(l < k)
  <2>1. T \subseteq Nat
    OBVIOUS
  <2> HIDE DEF T
  <2> QED
    BY <1>1, <2>1, Least
<1>3. k \in 1 .. W
  <2>1. [n \in 0 .. 0 |-> 0] \in [0 .. 0 -> Int] /\ Sums([n \in 0 .. 0 |-> 0], x, 0)
    BY DEF Sums
  <2>2. Has(0)
    BY <2>1
  <2> HIDE DEF Has
  <2> QED
    BY <2>2
<1>4. PICK g \in [0 .. k - 1 -> Int] : Sums(g, x, k - 1)
  <2>1. k - 1 \notin T
    <3> HIDE DEF T
    <3> QED
      BY <1>2, <1>3
  <2> QED
    BY <1>3, <2>1
<1> DEFINE h == [n \in 0 .. k |-> IF n = k THEN g[k - 1] + x[k - 1] ELSE g[n]]
<1>5. h \in [0 .. k -> Int] /\ h[0] = 0
  BY <1>3, <1>4 DEF Sums
<1>6. \A n \in 1 .. k : h[n] = h[n - 1] + x[n - 1]
  <2> SUFFICES ASSUME NEW n \in 1 .. k PROVE h[n] = h[n - 1] + x[n - 1]
    OBVIOUS
  <2>1. CASE n = k
    BY <1>3, <2>1
  <2>2. CASE n # k
    BY <1>3, <1>4, <2>2 DEF Sums
  <2> QED
    BY <2>1, <2>2
<1>7. Sums(h, x, k)
  BY <1>5, <1>6 DEF Sums
<1> QED
  BY <1>5, <1>7

LEMMA SumOfZeros ==
  ASSUME NEW W \in Nat, NEW x, NEW g, \A j \in 0 .. W - 1 : x[j] = 0,
         Sums(g, x, W)
  PROVE  g[W] = 0
<1> DEFINE T == {k \in 0 .. W : g[k] # 0}
<1>1. CASE T # {}
  <2>1. PICK k \in T : \A l \in T : ~(l < k)
    <3>1. T \subseteq Nat
      OBVIOUS
    <3> HIDE DEF T
    <3> QED
      BY <1>1, <3>1, Least
  <2>2. k \in 1 .. W
    BY DEF Sums
  <2>3. k - 1 \notin T
    <3> HIDE DEF T
    <3> QED
      BY <2>1, <2>2
  <2> QED
    BY <2>2, <2>3 DEF Sums
<1> QED
  BY <1>1

\* The recursive function of AudioStats is defined, and gives the sums.
LEMMA SumsOfNewest ==
  ASSUME NEW f \in [Slots -> Int], NEW p \in Slots
  PROVE  /\ SumOfNewest(f, p) \in [0 .. Window -> Int]
         /\ Sums(SumOfNewest(f, p), [j \in 0 .. Window - 1 |-> f[Back(p, j)]], Window)
<1> DEFINE x == [j \in 0 .. Window - 1 |-> f[Back(p, j)]]
           IsDef(g) == g = [n \in 0 .. Window |->
                           IF n = 0 THEN 0 ELSE g[n - 1] + f[Back(p, n - 1)]]
<1>1. Window \in Nat
  BY StatsAssumption
<1>2. PICK g \in [0 .. Window -> Int] : Sums(g, x, Window)
  <2>1. x \in [0 .. Window - 1 -> Int]
    BY BackType, StatsAssumption
  <2> HIDE DEF x
  <2> QED
    BY <1>1, <2>1, SumsExist
<1>3. IsDef(g)
  BY <1>1, <1>2 DEF Sums
<1>4. SumOfNewest(f, p) = CHOOSE h : IsDef(h)
  BY Zenon DEF SumOfNewest
<1> DEFINE s == SumOfNewest(f, p)
<1>5. IsDef(s)
  <2> HIDE DEF IsDef
  <2> QED
    BY <1>3, <1>4
<1> HIDE DEF s
<1> DEFINE T == {k \in 0 .. Window : s[k] # g[k]}
<1>6. CASE T = {}
  <2>1. s = g
    <3>1. \A k \in 0 .. Window : s[k] = g[k]
      BY <1>6
    <3>2. DOMAIN s = 0 .. Window
      BY <1>5
    <3>3. s = [k \in 0 .. Window |-> s[k]]
      BY <1>5
    <3> HIDE DEF IsDef
    <3> QED
      BY <3>1, <3>3
  <2> QED
    BY <1>2, <2>1 DEF s
<1>7. CASE T # {}
  <2>1. PICK k \in T : \A l \in T : ~(l < k)
    <3>1. T \subseteq Nat
      OBVIOUS
    <3> HIDE DEF T
    <3> QED
      BY <1>7, <3>1, Least
  <2>2. k \in 1 .. Window
    BY <1>1, <1>3, <1>5
  <2>3. k - 1 \notin T
    <3> HIDE DEF T
    <3> QED
      BY <2>1, <2>2
  <2>4. s[k - 1] = g[k - 1]
    <3>1. k - 1 \in 0 .. Window
      BY <1>1, <2>2
    <3> HIDE DEF IsDef
    <3> QED
      BY <2>3, <3>1
  <2>5. s[k] = s[k - 1] + f[Back(p, k - 1)] /\ g[k] = g[k - 1] + f[Back(p, k - 1)]
    BY <1>3, <1>5, <2>2
  <2> QED
    BY <2>4, <2>5
<1> QED
  BY <1>6, <1>7

StatsInv == StatsTypeOK /\ SumExact /\ MinInWindow /\ NeverLogged

LEMMA StatsStart == StatsInit => StatsInv
<1> SUFFICES ASSUME StatsInit PROVE StatsInv
  OBVIOUS
<1>1. StatsTypeOK /\ NeverLogged
  <2>1. 0 \in Slots
    BY StatsAssumption DEF Slots
  <2>2. fill \in [Slots -> Int]
    BY DEF StatsInit
  <2>3. logged = FALSE
    BY DEF StatsInit
  <2> QED
    BY <2>1, <2>2, <2>3 DEF StatsInit, StatsTypeOK, NeverLogged
<1>2. \A j \in 0 .. Window - 1 : Sample(j) = 0
  BY BackType, StatsAssumption DEF StatsInit, Sample, Slots
<1>3. MinInWindow
  BY <1>2, StatsAssumption DEF StatsInit, MinInWindow
<1>4. SumExact
  <2> DEFINE s == SumOfNewest(fill, pos)
             x == [j \in 0 .. Window - 1 |-> fill[Back(pos, j)]]
  <2>1. Sums(s, x, Window)
    BY <1>1, SumsOfNewest DEF StatsTypeOK
  <2>2. \A j \in 0 .. Window - 1 : x[j] = 0
    BY <1>2 DEF Sample
  <2> HIDE DEF s, x
  <2>3. s[Window] = 0
    BY <2>1, <2>2, SumOfZeros, StatsAssumption
  <2> QED
    BY <2>3 DEF SumExact, StatsInit, s
<1> QED
  BY <1>1, <1>3, <1>4 DEF StatsInv

\* When every sample but the newest is one that was there before, a place nearer,
\* the sum over the window gains the newest and loses the one that was furthest.
LEMMA NewestMove ==
  ASSUME NEW e \in [Slots -> Int], NEW p \in Slots,
         NEW f \in [Slots -> Int], NEW q \in Slots,
         \A j \in 1 .. Window - 1 : f[Back(q, j)] = e[Back(p, j - 1)]
  PROVE  SumOfNewest(f, q)[Window]
           = SumOfNewest(e, p)[Window] - e[Back(p, Window - 1)] + f[Back(q, 0)]
<1> DEFINE x == [j \in 0 .. Window - 1 |-> e[Back(p, j)]]
           y == [j \in 0 .. Window - 1 |-> f[Back(q, j)]]
           g == SumOfNewest(e, p)
           h == SumOfNewest(f, q)
<1>0. Window \in Nat \ {0}
  BY StatsAssumption
<1>1. g \in [0 .. Window -> Int] /\ Sums(g, x, Window)
  BY SumsOfNewest
<1>2. h \in [0 .. Window -> Int] /\ Sums(h, y, Window)
  BY SumsOfNewest
<1>3. x \in [0 .. Window - 1 -> Int] /\ y \in [0 .. Window - 1 -> Int]
  BY BackType, <1>0
<1>4. x[Window - 1] = e[Back(p, Window - 1)] /\ y[0] = f[Back(q, 0)]
  BY <1>0
<1>5. \A j \in 1 .. Window - 1 : y[j] = x[j - 1]
  BY <1>0
<1>b. SUFFICES h[Window] = g[Window] - x[Window - 1] + y[0]
  BY <1>4 DEF g, h
<1> HIDE DEF x, y, g, h
<1> DEFINE T == {k \in 0 .. Window - 1 : h[k + 1] # g[k] + y[0]}
<1>6. CASE T = {}
  <2>1. Window - 1 \in 0 .. Window - 1 /\ (Window - 1) + 1 = Window
    BY <1>0
  <2>2. h[Window] = g[Window - 1] + y[0]
    BY <1>6, <2>1
  <2>3. g[Window] = g[Window - 1] + x[Window - 1]
    BY <1>0, <1>1 DEF Sums
  <2>4. y[0] \in Int /\ x[Window - 1] \in Int /\ g[Window - 1] \in Int
    BY <1>0, <1>1, <1>3
  <2>5. (g[Window - 1] + x[Window - 1]) - x[Window - 1] + y[0]
          = g[Window - 1] + y[0]
    <3>1. \A a, b, c \in Int : (a + c) - c + b = a + b
      OBVIOUS
    <3> QED
      BY <2>4, <3>1, Zenon
  <2> QED
    BY <2>2, <2>3, <2>5, Zenon
<1>7. CASE T # {}
  <2>1. PICK k \in T : \A l \in T : ~(l < k)
    <3>1. T \subseteq Nat
      BY <1>0
    <3> HIDE DEF T
    <3> QED
      BY <1>7, <3>1, Least
  <2>2. k \in 1 .. Window - 1
    <3>1. k \in 0 .. Window - 1 /\ h[k + 1] # g[k] + y[0]
      BY <2>1
    <3>2. h[1] = h[0] + y[0] /\ h[0] = 0 /\ g[0] = 0 /\ y[0] \in Int
      BY <1>0, <1>1, <1>2, <1>3 DEF Sums
    <3> QED
      BY <1>0, <3>1, <3>2
  <2>3. k - 1 \notin T
    <3> HIDE DEF T
    <3> QED
      BY <2>1, <2>2
  <2>4. /\ k - 1 \in 0 .. Window - 1 /\ (k - 1) + 1 = k
        /\ k \in 1 .. Window /\ k + 1 \in 1 .. Window
    BY <1>0, <2>2
  <2>5. h[k] = g[k - 1] + y[0]
    BY <2>3, <2>4
  <2>6. h[k + 1] = h[(k + 1) - 1] + y[(k + 1) - 1]
    BY <1>2, <2>4 DEF Sums
  <2>7. g[k] = g[k - 1] + x[k - 1] /\ y[k] = x[k - 1] /\ (k + 1) - 1 = k
    BY <1>1, <1>5, <2>2, <2>4 DEF Sums
  <2>8. y[0] \in Int /\ x[k - 1] \in Int /\ g[k - 1] \in Int
    BY <1>0, <1>1, <1>3, <2>2
  <2>9. h[k + 1] # g[k] + y[0]
    BY <2>1
  <2>10. h[k + 1] = h[k] + x[k - 1]
    BY <2>6, <2>7
  <2>11. (g[k - 1] + y[0]) + x[k - 1] = (g[k - 1] + x[k - 1]) + y[0]
    <3>1. \A a, b, c \in Int : (a + b) + c = (a + c) + b
      OBVIOUS
    <3> QED
      BY <2>8, <3>1, Zenon
  <2> QED
    BY <2>5, <2>7, <2>9, <2>10, <2>11, Zenon
<1> QED
  BY <1>6, <1>7

\* A new sample: what leaves is no smaller than the minimum, and the minimum
\* stays in the window or is found again.
LEMMA StatsStep ==
  ASSUME StatsInv, NEW available \in Int, UpdateStats(available)
  PROVE  StatsInv'
<1> DEFINE head == NextSlot(pos)
           f == [fill EXCEPT ![head] = available]
           leaving == f[Leaves(head)]
           S == {f[Back(head, j)] : j \in 0 .. Window - 1}
<1> USE DEF StatsInv, StatsTypeOK
<1>1. head \in Slots /\ f \in [Slots -> Int]
  BY NextSlotBack, StatsAssumption
<1>2. \A j \in 0 .. Window - 1 : f[Back(pos, j)] = Sample(j)
  BY NextSlotBack, BackType DEF Sample
<1>3. leaving = Sample(Window - 1) /\ leaving \in Int
  <2>1. Back(pos, Window - 1) \in Slots
    BY BackType, StatsAssumption
  <2> QED
    BY <1>1, <1>2, <2>1, StatsAssumption DEF Leaves
<1>4. /\ fill' = f /\ pos' = head
      /\ fillSum' = fillSum - leaving + available
      /\ fillMin' = IF leaving <= fillMin THEN Smallest(f, head) ELSE fillMin
      /\ logged' = (logged \/ leaving < fillMin)
  BY DEF UpdateStats
<1>a. f[Back(head, 0)] = available
  BY <1>1, NextSlotBack, StatsAssumption
<1> HIDE DEF head, f, leaving
<1>b. \A j \in 1 .. Window - 1 : f[Back(head, j)] = Sample(j - 1)
  <2>1. TAKE j \in 1 .. Window - 1
  <2>2. j - 1 \in 0 .. Window - 1 /\ j = (j - 1) + 1
    BY StatsAssumption
  <2>3. Back(head, (j - 1) + 1) = Back(pos, j - 1)
    BY <2>2, NextSlotBack DEF head
  <2> QED
    BY <1>2, <2>2, <2>3
<1>5. PICK k \in 0 .. Window - 1 :
        /\ Sample(k) = fillMin
        /\ \A j \in k .. Window - 1 : Sample(j) >= fillMin
  BY DEF MinInWindow
<1>6. leaving >= fillMin
  BY <1>3, <1>5, StatsAssumption
<1>7. Smallest(f, head) \in S /\ \A x \in S : Smallest(f, head) <= x
  <2>1. PICK j \in 0 .. Window - 1 : \A i \in 0 .. Window - 1 :
               f[Back(head, j)] <= f[Back(head, i)]
    BY <1>1, WindowHasMin
  <2>2. \E m \in S : \A x \in S : m <= x
    BY <2>1
  <2> HIDE DEF S
  <2>3. Smallest(f, head) = CHOOSE m \in S : \A x \in S : m <= x
    BY Zenon DEF Smallest, MinOf, S
  <2> QED
    BY <2>2, <2>3
<1>8. \A j \in 0 .. Window - 1 : f[Back(head, j)] \in Int
  BY <1>1, BackType, StatsAssumption
<1>9. StatsTypeOK' /\ NeverLogged'
  <2>1. Smallest(f, head) \in Int
    BY <1>7, <1>8
  <2> QED
    BY <1>1, <1>3, <1>4, <1>6, <2>1 DEF NeverLogged
<1>10. \A j \in 0 .. Window - 1 : Sample(j)' = f[Back(head, j)]
  BY <1>4 DEF Sample, Back
<1>11. MinInWindow'
  <2>1. CASE leaving <= fillMin
    <3>1. PICK j \in 0 .. Window - 1 : Smallest(f, head) = f[Back(head, j)]
      BY <1>7
    <3>2. \A i \in j .. Window - 1 : f[Back(head, i)] >= Smallest(f, head)
      BY <1>7, <1>8, <3>1, StatsAssumption
    <3>3. fillMin' = Smallest(f, head)
      BY <1>4, <2>1
    <3> QED
      BY <1>10, <3>1, <3>2, <3>3, StatsAssumption DEF MinInWindow
  <2>2. CASE ~(leaving <= fillMin)
    <3>1. fillMin' = fillMin
      BY <1>4, <2>2
    <3>2. k + 1 \in 0 .. Window - 1
      BY <1>3, <1>5, <2>2, StatsAssumption
    <3>4. Sample(k + 1)' = fillMin'
      BY <1>5, <1>10, <1>b, <3>1, <3>2
    <3>5. \A j \in k + 1 .. Window - 1 : Sample(j)' >= fillMin'
      BY <1>5, <1>10, <1>b, <3>1, <3>2, StatsAssumption
    <3> QED
      BY <3>2, <3>4, <3>5, StatsAssumption DEF MinInWindow
  <2> QED
    BY <2>1, <2>2
<1>12. SumExact'
  <2>1. fill \in [Slots -> Int] /\ pos \in Slots
    OBVIOUS
  <2>2. \A j \in 1 .. Window - 1 : f[Back(head, j)] = fill[Back(pos, j - 1)]
    BY <1>b, StatsAssumption DEF Sample
  <2>3. SumOfNewest(f, head)[Window]
          = SumOfNewest(fill, pos)[Window] - fill[Back(pos, Window - 1)]
            + f[Back(head, 0)]
    <3> HIDE DEF f, head
    <3> QED
      BY <1>1, <2>1, <2>2, NewestMove
  <2>4. /\ fill[Back(pos, Window - 1)] = leaving
        /\ f[Back(head, 0)] = available
    BY <1>3, <1>a, StatsAssumption DEF Sample
  <2>5. fillSum = SumOfNewest(fill, pos)[Window]
    BY DEF SumExact
  <2>6. SumOfNewest(fill, pos)'[Window] = SumOfNewest(f, head)[Window]
    BY <1>4
  <2> HIDE DEF f, head, leaving
  <2>7. fillSum' = SumOfNewest(f, head)[Window]
    BY <1>4, <2>3, <2>4, <2>5
  <2> QED
    BY <2>6, <2>7 DEF SumExact
<1> QED
  BY <1>9, <1>11, <1>12

-----------------------------------------------------------------------------
(* The stream *)

StreamTypeOK ==
  /\ client \in {"emulation", "cd"}
  /\ free \in Seq(Buffers \cup {NoBuffer}) /\ queued \in Int
  /\ mutex \in Threads \cup {Nobody}
  /\ source \in Seq(Buffers) /\ played \in 0 .. Len(source)
  /\ state \in {"initial", "playing", "stopped"}
  /\ pc \in [Threads -> Positions] /\ old \in [Threads -> Nat]
  /\ hand \in Buffers \cup {NoBuffer} /\ queuedThen \in Int
  /\ calls \in 0 .. MaxCalls
  /\ ids \in [Turns -> Buffers \cup {NoBuffer}] /\ bufnum \in Turns
  /\ cddaPlay \in {-1, 0, 1} /\ ending \in BOOLEAN /\ raced \in BOOLEAN

\* What is queued is a buffer.
HandOK == pc["filler"] = "queue" => hand \in Buffers

LEMMA TypeSplit == TypeOK <=> StatsTypeOK /\ StreamTypeOK
  BY DEF TypeOK, StreamTypeOK

\* The buffers of the CD take turns.
LEMMA TurnsTaken == 0 \in Turns /\ \A b \in Turns : 1 - b \in Turns
  BY DEF Turns

LEMMA ProcessedType ==
  ASSUME StreamTypeOK
  PROVE  Processed \subseteq 0 .. Len(source) /\ Processed # {}
  BY DEF StreamTypeOK, Processed

\* A thread that unqueues keeps the types, whether OpenAL returns what it was
\* asked for or not.
LEMMA UnqueueType ==
  ASSUME StreamTypeOK, HandOK, NEW t \in Threads, UnqueueOld(t)
  PROVE  StreamTypeOK' /\ HandOK'
<1> USE DEF StreamTypeOK
<1> DEFINE Names == Buffers \cup {NoBuffer}
<1>1. old[t] \in Nat /\ Len(source) \in Nat
  OBVIOUS
<1>2. /\ source' \in Seq(Buffers) /\ played' \in 0 .. Len(source')
      /\ free' \in Seq(Names)
  <2>1. CASE \E n \in Processed : old[t] <= n
    <3>1. old[t] \in 0 .. Len(source)
      BY <1>1, <2>1, ProcessedType
    <3>2. /\ SubSeq(source, old[t] + 1, Len(source)) \in Seq(Buffers)
          /\ Len(SubSeq(source, old[t] + 1, Len(source))) = Len(source) - old[t]
      <4>1. \A i \in old[t] + 1 .. Len(source) : source[i] \in Buffers
        BY <1>1, <3>1
      <4> QED
        BY <1>1, <3>1, <4>1, SubSeqProperties
    <3>3. SubSeq(source, 1, old[t]) \in Seq(Names)
      BY <1>1, <3>1, SubSeqProperties
    <3>4. free \o SubSeq(source, 1, old[t]) \in Seq(Names)
      BY <3>3, ConcatProperties
    <3>5. /\ source' = SubSeq(source, old[t] + 1, Len(source))
          /\ played' = IF played > old[t] THEN played - old[t] ELSE 0
          /\ free' = free \o SubSeq(source, 1, old[t])
      BY <2>1 DEF UnqueueOld
    <3>6. played' \in 0 .. Len(source) - old[t]
      <4>1. played \in 0 .. Len(source)
        OBVIOUS
      <4> HIDE DEF StreamTypeOK
      <4> QED
        BY <1>1, <3>1, <3>5, <4>1
    <3> QED
      BY <3>2, <3>4, <3>5, <3>6 DEF Names
  <2>2. CASE ~\E n \in Processed : old[t] <= n
    <3>1. PICK b \in Names : free' = free \o [i \in 1 .. old[t] |-> b]
      BY <2>2 DEF UnqueueOld
    <3>2. [i \in 1 .. old[t] |-> b] \in Seq(Names)
      <4>1. [i \in 1 .. old[t] |-> b] \in [1 .. old[t] -> Names]
        OBVIOUS
      <4> QED
        BY <1>1, <4>1, SeqDef, SMTT(20)
    <3>3. free' \in Seq(Names)
      BY <3>1, <3>2, ConcatProperties
    <3> QED
      BY <2>2, <3>3 DEF UnqueueOld
  <2> QED
    BY <2>1, <2>2
<1>3. queued' \in Int
  BY <1>1 DEF UnqueueOld
<1>4. /\ pc' \in [Threads -> Positions]
      /\ pc'["filler"] = "queue" => pc["filler"] = "queue"
  BY DEF UnqueueOld, AfterUnqueue, Positions
<1> QED
  BY <1>2, <1>3, <1>4 DEF UnqueueOld, callVars, cdVars, HandOK, Threads, Nobody

\* Every other step keeps the types.
LEMMA StreamTypeStep ==
  ASSUME StreamTypeOK, HandOK, Next \/ UNCHANGED vars
  PROVE  StreamTypeOK' /\ HandOK'
<1> USE DEF StreamTypeOK, HandOK, bufferVars, sourceVars, callVars, cdVars
<1>a. "filler" \in Threads /\ "video" \in Threads
  BY DEF Threads
<1>b. \A t \in Threads : \A from, to :
        Goes(t, from, to) /\ to \in Positions => pc' \in [Threads -> Positions]
  BY DEF Goes
<1>1. CASE CallQueue
  BY <1>1, <1>a, StreamAssumption DEF CallQueue, CanCall, Goes, Positions
<1>2. ASSUME NEW t \in Threads, CountOld(t) PROVE StreamTypeOK' /\ HandOK'
  <2>1. Processed \subseteq Nat
    BY ProcessedType
  <2>2. pc' \in [Threads -> Positions]
    BY <1>2 DEF CountOld, AfterUnqueue, Positions
  <2>3. pc'["filler"] = "queue" => pc["filler"] = "queue"
    BY <1>2, <1>a DEF CountOld, AfterUnqueue
  <2>4. mutex' \in Threads \cup {Nobody} /\ old' \in [Threads -> Nat]
    BY <1>2, <2>1 DEF CountOld
  <2> QED
    BY <1>2, <2>2, <2>3, <2>4 DEF CountOld
<1>3. ASSUME NEW t \in Threads, UnqueueOld(t) PROVE StreamTypeOK' /\ HandOK'
  BY <1>3, UnqueueType
<1>4. CASE Pop
  <2>1. free # << >> /\ Head(free) # NoBuffer
    BY <1>4 DEF Pop, FirstFree
  <2>2. Head(free) \in Buffers /\ Tail(free) \in Seq(Buffers \cup {NoBuffer})
    BY <2>1, HeadTailProperties
  <2> QED
    BY <1>4, <1>a, <2>1, <2>2 DEF Pop, FirstFree, Goes, Positions
<1>5. CASE DropData
  <2>1. free # << >> => Tail(free) \in Seq(Buffers \cup {NoBuffer})
    BY HeadTailProperties
  <2> QED
    BY <1>5, <1>a, <2>1 DEF DropData, Goes, Positions
<1>6. CASE QueueBuffer
  <2>1. hand \in Buffers
    BY <1>6 DEF QueueBuffer, Goes
  <2>2. /\ Append(source, hand) \in Seq(Buffers)
        /\ Len(Append(source, hand)) = Len(source) + 1
    BY <2>1
  <2> QED
    BY <1>6, <1>a, <2>2 DEF QueueBuffer, Goes, Positions
<1>7. CASE CheckState
  BY <1>7, <1>a DEF CheckState, Goes, Positions
<1>8. CASE Play
  <2>1. 0 \in 0 .. Len(source)
    OBVIOUS
  <2> QED
    BY <1>8, <1>a, <2>1 DEF Play, Goes, Positions
<1>9. CASE Return
  <2>1. ids' \in [Turns -> Buffers \cup {NoBuffer}] /\ bufnum' \in Turns
    BY <1>9, TurnsTaken DEF Return
  <2>2. pc' \in [Threads -> Positions] /\ pc'["filler"] = "idle"
    BY <1>9, <1>a DEF Return, Goes, Positions
  <2> QED
    BY <1>9, <2>1, <2>2 DEF Return
<1>10. CASE CdLoop
  BY <1>10, <1>a, TurnsTaken DEF CdLoop, Positions
<1>11. CASE Look
  BY <1>11, <1>a DEF Look, Goes, Positions
<1>12. CASE PlayPiece
  BY <1>12, <1>a, StreamAssumption DEF PlayPiece, CanCall, Goes, Positions
<1>13. CASE SkipTurn
  BY <1>13, <1>a, TurnsTaken DEF SkipTurn, Goes, Positions
<1>14. CASE LeaveLoop
  BY <1>14, <1>a, TurnsTaken DEF LeaveLoop, Goes, Positions
<1>15. CASE EndCd
  BY <1>15, <1>a, TurnsTaken DEF EndCd, Goes, Positions
<1>16. CASE StopCd
  BY <1>16 DEF StopCd
<1>17. CASE Statistics
  BY <1>17, <1>a DEF Statistics, Goes, Positions, Threads
<1>18. CASE PlayBuffer
  BY <1>18 DEF PlayBuffer
<1>19. CASE UNCHANGED vars
  BY <1>19 DEF vars
<1> QED
  BY <1>1, <1>2, <1>3, <1>4, <1>5, <1>6, <1>7, <1>8, <1>9, <1>10, <1>11,
     <1>12, <1>13, <1>14, <1>15, <1>16, <1>17, <1>18, <1>19, <1>a
     DEF Next, FillerRuns, VideoRuns

\* The types, and with them what the statistics promise, hold in every state.
LEMMA Step ==
  ASSUME StatsInv, StreamTypeOK, HandOK, Next \/ UNCHANGED vars
  PROVE  StatsInv' /\ StreamTypeOK' /\ HandOK'
<1>1. StreamTypeOK' /\ HandOK'
  BY StreamTypeStep
<1>2. StatsInv'
  <2>1. CASE Statistics
    <3>1. UpdateStats(queued) /\ queued \in Int
      BY <2>1 DEF Statistics, StreamTypeOK
    <3> QED
      BY <3>1, StatsStep
  <2>2. CASE ~Statistics
    <3>1. UNCHANGED statsVars
      BY <2>2 DEF Next, FillerRuns, VideoRuns, CallQueue, CountOld, UnqueueOld,
         Pop, DropData, QueueBuffer, CheckState, Play, Return, CdLoop, Look,
         PlayPiece, SkipTurn, LeaveLoop, EndCd, StopCd, PlayBuffer, vars
    <3> QED
      BY <3>1 DEF statsVars, StatsInv, StatsTypeOK, SumExact, MinInWindow,
         NeverLogged, Sample, Back
  <2> QED
    BY <2>1, <2>2
<1> QED
  BY <1>1, <1>2

\* The names of the free buffers at first: a choice among the orders of them.
LEMMA AllFree == SetToSeq(Buffers) \in Seq(Buffers)
<1> DEFINE n == Cardinality(Buffers)
<1>1. n \in Nat /\ ExistsBijection(1 .. n, Buffers)
  BY StreamAssumption, FS_CardinalityType
<1>2. PICK f \in Bijection(1 .. n, Buffers) : TRUE
  BY <1>1 DEF ExistsBijection
<1>3. f \in [1 .. n -> Buffers] /\ IsInjective(f)
  BY <1>2 DEF Bijection, Injection, IsInjective
<1>4. SetToSeq(Buffers) \in [1 .. n -> Buffers]
  BY <1>3 DEF SetToSeq
<1> QED
  BY <1>1, <1>4

LEMMA Start == Init => StatsInv /\ StreamTypeOK /\ HandOK
<1> SUFFICES ASSUME Init PROVE StatsInv /\ StreamTypeOK /\ HandOK
  OBVIOUS
<1>1. StatsInv
  BY StatsStart DEF Init
<1>2. free \in Seq(Buffers \cup {NoBuffer})
  BY AllFree DEF Init
<1>3. source \in Seq(Buffers) /\ played \in 0 .. Len(source)
  BY DEF Init
<1>4. pc \in [Threads -> Positions] /\ old \in [Threads -> Nat]
  BY DEF Init, Threads, Positions
<1>5. ids \in [Turns -> Buffers \cup {NoBuffer}] /\ bufnum \in Turns
  BY TurnsTaken DEF Init
<1>6. calls \in 0 .. MaxCalls
  BY StreamAssumption DEF Init
<1>7. HandOK
  BY DEF Init, HandOK
<1>8. /\ client \in {"emulation", "cd"} /\ queued \in Int
      /\ mutex \in Threads \cup {Nobody} /\ queuedThen \in Int
      /\ state \in {"initial", "playing", "stopped"}
      /\ hand \in Buffers \cup {NoBuffer} /\ cddaPlay \in {-1, 0, 1}
  BY DEF Init
<1>9. ending \in BOOLEAN /\ raced \in BOOLEAN
  BY Zenon DEF Init
<1> QED
  BY <1>1, <1>2, <1>3, <1>4, <1>5, <1>6, <1>7, <1>8, <1>9 DEF StreamTypeOK

\* Type correctness of the whole stream.
THEOREM TypeCorrect == Spec => []TypeOK
<1>1. StatsInv /\ StreamTypeOK /\ HandOK /\ [Next]_vars
      => (StatsInv /\ StreamTypeOK /\ HandOK)'
  BY Step
<1>2. StatsInv /\ StreamTypeOK => TypeOK
  BY TypeSplit DEF StatsInv
<1> QED
  BY Start, <1>1, <1>2, PTL DEF Spec

\* The running sum, which only ever adds the new sample and subtracts the one
\* that leaves, is the sum of the window, whatever is queued, whatever the
\* size of the ring and of the window and however often the ring went round.
THEOREM SumIsExact == Spec => []SumExact
<1>1. StatsInv /\ StreamTypeOK /\ HandOK /\ [Next]_vars
      => (StatsInv /\ StreamTypeOK /\ HandOK)'
  BY Step
<1>2. StatsInv => SumExact
  BY DEF StatsInv
<1> QED
  BY Start, <1>1, <1>2, PTL DEF Spec

\* The error that update_stats would log when a sample leaves that is smaller
\* than the minimum it has kept does not occur, whatever is queued and
\* whatever the size of the ring and of the window.
THEOREM ErrorNeverLogged == Spec => []NeverLogged
<1>1. StatsInv /\ StreamTypeOK /\ HandOK /\ [Next]_vars
      => (StatsInv /\ StreamTypeOK /\ HandOK)'
  BY Step
<1>2. StatsInv => NeverLogged
  BY DEF StatsInv
<1> QED
  BY Start, <1>1, <1>2, PTL DEF Spec

-----------------------------------------------------------------------------
(* The elements of sequences that are cut and joined *)

LEMMA Elements ==
  ASSUME NEW S, NEW s \in Seq(S)
  PROVE  ToSet(s) = {s[i] : i \in 1 .. Len(s)}
  BY DEF ToSet

LEMMA ElementsConcat ==
  ASSUME NEW S, NEW s \in Seq(S), NEW t \in Seq(S)
  PROVE  ToSet(s \o t) = ToSet(s) \cup ToSet(t)
<1>1. /\ Len(s \o t) = Len(s) + Len(t) /\ s \o t \in Seq(S)
      /\ \A i \in 1 .. Len(s) + Len(t) :
           (s \o t)[i] = IF i <= Len(s) THEN s[i] ELSE t[i - Len(s)]
  BY ConcatProperties
<1>2. \A i \in 1 .. Len(s) : (s \o t)[i] = s[i] /\ i \in 1 .. Len(s) + Len(t)
  BY <1>1
<1>3. \A i \in 1 .. Len(t) : /\ (s \o t)[i + Len(s)] = t[i]
                             /\ i + Len(s) \in 1 .. Len(s) + Len(t)
  BY <1>1
<1>4. \A i \in 1 .. Len(s) + Len(t) :
        \/ i \in 1 .. Len(s) /\ (s \o t)[i] = s[i]
        \/ i - Len(s) \in 1 .. Len(t) /\ (s \o t)[i] = t[i - Len(s)]
  BY <1>1
<1>5. ToSet(s \o t) = {(s \o t)[i] : i \in 1 .. Len(s) + Len(t)}
  BY <1>1, Elements
<1>6. /\ ToSet(s) = {s[i] : i \in 1 .. Len(s)}
      /\ ToSet(t) = {t[i] : i \in 1 .. Len(t)}
  BY Elements
<1> QED
  BY <1>2, <1>3, <1>4, <1>5, <1>6

LEMMA ElementsCut ==
  ASSUME NEW S, NEW s \in Seq(S), NEW k \in 0 .. Len(s)
  PROVE  /\ SubSeq(s, 1, k) \in Seq(S) /\ Len(SubSeq(s, 1, k)) = k
         /\ SubSeq(s, k + 1, Len(s)) \in Seq(S)
         /\ Len(SubSeq(s, k + 1, Len(s))) = Len(s) - k
         /\ ToSet(SubSeq(s, 1, k)) \cup ToSet(SubSeq(s, k + 1, Len(s)))
              = ToSet(s)
<1> DEFINE a == SubSeq(s, 1, k)
           b == SubSeq(s, k + 1, Len(s))
<1>1. \A i \in 1 .. Len(s) : s[i] \in S
  OBVIOUS
<1>2. /\ a \in Seq(S) /\ Len(a) = k /\ \A i \in 1 .. k : a[i] = s[i]
  BY <1>1, SubSeqProperties
<1>3. /\ b \in Seq(S) /\ Len(b) = Len(s) - k
      /\ \A i \in 1 .. Len(s) - k : b[i] = s[k + i]
  BY <1>1, SubSeqProperties
<1> HIDE DEF a, b
<1>4. /\ ToSet(a) = {a[i] : i \in 1 .. k}
      /\ ToSet(b) = {b[i] : i \in 1 .. Len(s) - k}
      /\ ToSet(s) = {s[i] : i \in 1 .. Len(s)}
  <2>1. ToSet(a) = {a[i] : i \in 1 .. Len(a)}
    BY <1>2, Elements
  <2>2. ToSet(b) = {b[i] : i \in 1 .. Len(b)}
    BY <1>3, Elements
  <2>3. ToSet(s) = {s[i] : i \in 1 .. Len(s)}
    BY Elements
  <2> QED
    BY <1>2, <1>3, <2>1, <2>2, <2>3, Zenon
<1>5. \A i \in 1 .. Len(s) : \/ i \in 1 .. k /\ a[i] = s[i]
                             \/ i - k \in 1 .. Len(s) - k /\ b[i - k] = s[i]
  BY <1>2, <1>3
<1>6. \A i \in 1 .. k : i \in 1 .. Len(s) /\ a[i] = s[i]
  BY <1>2
<1>7. \A i \in 1 .. Len(s) - k : k + i \in 1 .. Len(s) /\ b[i] = s[k + i]
  BY <1>3
<1>8. ToSet(a) \cup ToSet(b) = ToSet(s)
  BY <1>4, <1>5, <1>6, <1>7, ZenonT(60)
<1> QED
  BY <1>2, <1>3, <1>8 DEF a, b

LEMMA ElementsHead ==
  ASSUME NEW S, NEW s \in Seq(S), s # << >>
  PROVE  /\ Head(s) \in ToSet(s)
         /\ Tail(s) \in Seq(S) /\ Len(Tail(s)) = Len(s) - 1
         /\ {Head(s)} \cup ToSet(Tail(s)) = ToSet(s)
<1> DEFINE h == Head(s)
           r == Tail(s)
<1>1. /\ r \in Seq(S) /\ Len(r) = Len(s) - 1
      /\ \A i \in 1 .. Len(r) : r[i] = s[i + 1]
  BY HeadTailProperties
<1>2. Len(s) \in Nat \ {0} /\ h = s[1]
  OBVIOUS
<1> HIDE DEF h, r
<1>3. ToSet(s) = {s[i] : i \in 1 .. Len(s)}
  BY Elements
<1>4. ToSet(r) = {r[i] : i \in 1 .. Len(r)}
  BY <1>1, Elements
<1>5. ASSUME NEW i \in 1 .. Len(s), i # 1
      PROVE  i - 1 \in 1 .. Len(r) /\ r[i - 1] = s[i]
  <2>1. i - 1 \in 1 .. Len(r) /\ (i - 1) + 1 = i
    BY <1>1, <1>2, <1>5
  <2> QED
    BY <1>1, <2>1
<1>6. \A i \in 1 .. Len(r) : i + 1 \in 1 .. Len(s) /\ r[i] = s[i + 1]
  BY <1>1, <1>2
<1>7. h \in ToSet(s)
  BY <1>2, <1>3
<1>8. ToSet(r) \subseteq ToSet(s)
  BY <1>3, <1>4, <1>6
<1>9. \A x \in ToSet(s) : x = h \/ x \in ToSet(r)
  BY <1>2, <1>3, <1>4, <1>5
<1> QED
  BY <1>1, <1>7, <1>8, <1>9 DEF h, r

LEMMA ElementsAppend ==
  ASSUME NEW S, NEW s \in Seq(S), NEW e \in S
  PROVE  ToSet(Append(s, e)) = ToSet(s) \cup {e}
<1>1. /\ Append(s, e) \in Seq(S) /\ Len(Append(s, e)) = Len(s) + 1
      /\ \A i \in 1 .. Len(s) : Append(s, e)[i] = s[i]
      /\ Append(s, e)[Len(s) + 1] = e
  BY AppendProperties
<1>2. /\ ToSet(s) = {s[i] : i \in 1 .. Len(s)}
      /\ ToSet(Append(s, e)) = {Append(s, e)[i] : i \in 1 .. Len(s) + 1}
  BY <1>1, Elements
<1>3. Len(s) + 1 \in 1 .. Len(s) + 1
  OBVIOUS
<1>4. \A i \in 1 .. Len(s) + 1 : i = Len(s) + 1 \/ i \in 1 .. Len(s)
  OBVIOUS
<1>5. \A i \in 1 .. Len(s) : i \in 1 .. Len(s) + 1
  OBVIOUS
<1> QED
  BY <1>1, <1>2, <1>3, <1>4, <1>5

\* Of nothing, and of one thing.
LEMMA ElementsFew == /\ ToSet(<< >>) = {} /\ Len(<< >>) = 0
                     /\ \A x : ToSet(<<x>>) = {x} /\ Len(<<x>>) = 1
  BY DEF ToSet

-----------------------------------------------------------------------------
(* Where the buffers are *)

\* A thread that has counted and not yet unqueued has the mutex.
Unqueuing == \A t \in Threads :
               old[t] > 0 => mutex = t /\ pc[t] \in {"drain", "poll"}

\* What it has counted is still there to be unqueued, for the source is not
\* started meanwhile.
CountedIsPlayed ==
  \A t \in Threads : old[t] > 0 => \/ old[t] <= played
                                   \/ state = "stopped" /\ old[t] <= Len(source)

\* Free buffers f, one in the hands of the filling thread, h, and those of the
\* source, s: together they are all, and no one twice.
Whole(f, h, s) == /\ Len(f) + Len(h) + Len(s) = Cardinality(Buffers)
                  /\ ToSet(f) \cup ToSet(h) \cup ToSet(s) = Buffers

BuffersInv ==
  /\ Unqueuing
  /\ ~raced => /\ CountedIsPlayed
               /\ Whole(free, InHand, source)
               /\ queued = Len(InHand) + Len(source)

LEMMA UnqueuingStep ==
  ASSUME StreamTypeOK, Unqueuing, Next \/ UNCHANGED vars
  PROVE  Unqueuing'
<1>a. /\ pc \in [Threads -> Positions] /\ old \in [Threads -> Nat]
      /\ "filler" \in Threads /\ "video" \in Threads /\ Nobody \notin Threads
      /\ \A t \in Threads : t = "filler" \/ t = "video"
  BY DEF StreamTypeOK, Threads, Nobody
<1>1. ASSUME NEW t \in Threads, CountOld(t) PROVE Unqueuing'
  <2>1. \A u \in Threads : old[u] = 0
    BY <1>1, <1>a DEF CountOld, Unqueuing
  <2>2. PICK n \in Processed :
          IF n = 0 THEN /\ pc' = [pc EXCEPT ![t] = AfterUnqueue(t)]
                        /\ UNCHANGED <<mutex, old>>
                   ELSE /\ mutex' = t /\ old' = [old EXCEPT ![t] = n]
                        /\ UNCHANGED pc
    BY <1>1 DEF CountOld
  <2> QED
    BY <1>1, <1>a, <2>1, <2>2 DEF CountOld, Unqueuing
<1>2. ASSUME NEW t \in Threads, UnqueueOld(t) PROVE Unqueuing'
  <2>1. \A u \in Threads : u # t => old[u] = 0
    BY <1>2, <1>a DEF UnqueueOld, Unqueuing
  <2> QED
    BY <1>2, <1>a, <2>1 DEF UnqueueOld, Unqueuing
<1>3. CASE \/ CallQueue \/ Pop \/ DropData \/ QueueBuffer \/ CheckState
           \/ Play \/ Return \/ CdLoop \/ Look \/ PlayPiece \/ SkipTurn
           \/ LeaveLoop \/ EndCd
  <2>1. UNCHANGED <<mutex, old>> /\ pc["filler"] \notin {"drain", "poll"}
    BY <1>3 DEF CallQueue, Pop, DropData, QueueBuffer, CheckState, Play,
       Return, CdLoop, Look, PlayPiece, SkipTurn, LeaveLoop, EndCd, Goes
  <2>2. pc'["video"] = pc["video"]
    BY <1>3, <1>a DEF CallQueue, Pop, DropData, QueueBuffer, CheckState, Play,
       Return, CdLoop, Look, PlayPiece, SkipTurn, LeaveLoop, EndCd, Goes
  <2> QED
    BY <1>a, <2>1, <2>2 DEF Unqueuing
<1>4. CASE Statistics
  <2>1. UNCHANGED <<mutex, old>> /\ pc["video"] \notin {"drain", "poll"}
    BY <1>4 DEF Statistics, Goes
  <2>2. pc'["filler"] = pc["filler"]
    BY <1>4, <1>a DEF Statistics, Goes
  <2> QED
    BY <1>a, <2>1, <2>2 DEF Unqueuing
<1>5. CASE StopCd \/ PlayBuffer \/ UNCHANGED vars
  <2>1. UNCHANGED <<mutex, old, pc>>
    BY <1>5 DEF StopCd, PlayBuffer, vars
  <2> QED
    BY <2>1 DEF Unqueuing
<1> QED
  BY <1>1, <1>2, <1>3, <1>4, <1>5, <1>a DEF Next, FillerRuns, VideoRuns

\* In what follows the source has not been started while a thread unqueued.
Kept == CountedIsPlayed /\ Whole(free, InHand, source)
        /\ queued = Len(InHand) + Len(source)

\* Unqueuing moves buffers from the source to the free ones.
LEMMA UnqueueKeeps ==
  ASSUME StreamTypeOK, Unqueuing, Kept, NEW t \in Threads, UnqueueOld(t)
  PROVE  Kept'
<1> DEFINE Names == Buffers \cup {NoBuffer}
           k == old[t]
           a == SubSeq(source, 1, k)
           b == SubSeq(source, k + 1, Len(source))
<1>a. /\ pc \in [Threads -> Positions] /\ old \in [Threads -> Nat]
      /\ free \in Seq(Names) /\ source \in Seq(Names)
      /\ played \in 0 .. Len(source)
  BY DEF StreamTypeOK
<1>1. k \in 0 .. Len(source) /\ k > 0 /\ \E n \in Processed : k <= n
  <2>1. k \in Nat /\ k > 0 /\ Len(source) \in Nat
    BY <1>a DEF UnqueueOld
  <2>2. k <= played \/ (state = "stopped" /\ k <= Len(source))
    BY <2>1 DEF Kept, CountedIsPlayed
  <2>3. /\ played \in Processed
        /\ state = "stopped" => Len(source) \in Processed
    BY DEF Processed
  <2>4. k <= Len(source)
    BY <1>a, <2>1, <2>2
  <2>5. \E n \in Processed : k <= n
    BY <2>2, <2>3
  <2> QED
    BY <2>1, <2>4, <2>5
<1>2. /\ a \in Seq(Names) /\ Len(a) = k
      /\ b \in Seq(Names) /\ Len(b) = Len(source) - k
      /\ ToSet(a) \cup ToSet(b) = ToSet(source)
  BY <1>1, <1>a, ElementsCut, SMTT(20)
<1>3. source' = b /\ free' = free \o a /\ queued' = queued - k
  BY <1>1 DEF UnqueueOld
<1>4. InHand' = InHand
  BY <1>a DEF UnqueueOld, InHand, Unqueuing, AfterUnqueue, callVars
<1> HIDE DEF k, a, b, Names
<1>5. /\ Len(free') = Len(free) + k /\ Len(source') = Len(source) - k
      /\ ToSet(free') = ToSet(free) \cup ToSet(a) /\ ToSet(source') = ToSet(b)
  <2>1. Len(free \o a) = Len(free) + Len(a)
    BY <1>2, <1>a, ConcatProperties
  <2>2. ToSet(free \o a) = ToSet(free) \cup ToSet(a)
    BY <1>2, <1>a, ElementsConcat
  <2> QED
    BY <1>2, <1>3, <2>1, <2>2
<1>6. Len(free) \in Nat /\ Len(source) \in Nat /\ k \in Nat
  BY <1>1, <1>a
<1>7. Len(InHand) \in Nat
  BY DEF InHand
<1>8. ToSet(free') \cup ToSet(InHand') \cup ToSet(source') = Buffers
  BY <1>2, <1>4, <1>5 DEF Kept, Whole
<1>9. Whole(free, InHand, source)'
  BY <1>4, <1>5, <1>6, <1>7, <1>8 DEF Kept, Whole
<1>10. queued' = Len(InHand') + Len(source')
  BY <1>3, <1>4, <1>5, <1>6, <1>7 DEF Kept
<1>11. CountedIsPlayed'
  <2>1. \A u \in Threads : old'[u] = 0
    BY <1>a DEF UnqueueOld, Unqueuing
  <2> QED
    BY <2>1 DEF CountedIsPlayed
<1> QED
  BY <1>9, <1>10, <1>11 DEF Kept

\* Taking a buffer out of the free ones.
LEMMA PopKeeps ==
  ASSUME StreamTypeOK, Kept, Pop
  PROVE  Kept'
<1> DEFINE Names == Buffers \cup {NoBuffer}
<1>a. /\ free \in Seq(Names) /\ source \in Seq(Names) /\ free # << >>
      /\ pc \in [Threads -> Positions] /\ "filler" \in Threads
  BY DEF StreamTypeOK, Pop, FirstFree, Threads
<1>1. hand' = Head(free) /\ free' = Tail(free) /\ queued' = queued + 1
  BY <1>a DEF Pop, FirstFree
<1>2. InHand = << >> /\ InHand' = <<hand'>>
  BY <1>a DEF Pop, Goes, InHand
<1>3. /\ Len(Tail(free)) = Len(free) - 1
      /\ {Head(free)} \cup ToSet(Tail(free)) = ToSet(free)
  BY <1>a, ElementsHead
<1>4. /\ Len(InHand) = 0 /\ ToSet(InHand) = {}
      /\ Len(InHand') = 1 /\ ToSet(InHand') = {hand'}
  BY <1>2, ElementsFew
<1>5. UNCHANGED <<source, old, played, state>>
  BY DEF Pop, sourceVars
<1>6. Len(free) \in Nat /\ Len(source) \in Nat
  BY <1>a
<1>7. Whole(free, InHand, source)'
  <2>1. ToSet(free') \cup ToSet(InHand') \cup ToSet(source') = Buffers
    BY <1>1, <1>3, <1>4, <1>5 DEF Kept, Whole
  <2>2. Len(free') + Len(InHand') + Len(source') = Cardinality(Buffers)
    BY <1>1, <1>3, <1>4, <1>5, <1>6 DEF Kept, Whole
  <2> QED
    BY <2>1, <2>2 DEF Whole
<1>8. queued' = Len(InHand') + Len(source')
  BY <1>1, <1>4, <1>5, <1>6 DEF Kept
<1>9. CountedIsPlayed'
  BY <1>5 DEF Kept, CountedIsPlayed
<1> QED
  BY <1>7, <1>8, <1>9 DEF Kept

\* Queuing the one in hand.
LEMMA QueueKeeps ==
  ASSUME StreamTypeOK, HandOK, Kept, QueueBuffer
  PROVE  Kept'
<1>a. /\ free \in Seq(Buffers \cup {NoBuffer}) /\ source \in Seq(Buffers)
      /\ pc \in [Threads -> Positions] /\ "filler" \in Threads
      /\ old \in [Threads -> Nat] /\ played \in Nat
  BY DEF StreamTypeOK, Threads
<1>1. pc["filler"] = "queue" /\ pc'["filler"] = "check" /\ hand \in Buffers
  BY <1>a DEF QueueBuffer, Goes, HandOK
<1>2. InHand = <<hand>> /\ InHand' = << >>
  BY <1>1 DEF InHand
<1>3. /\ UNCHANGED <<free, queued, old, played, state>>
      /\ source' = Append(source, hand)
  BY DEF QueueBuffer, bufferVars
<1>4. /\ Len(source') = Len(source) + 1
      /\ ToSet(source') = ToSet(source) \cup {hand}
  BY <1>1, <1>3, <1>a, AppendProperties, ElementsAppend
<1>5. /\ Len(InHand') = 0 /\ ToSet(InHand') = {}
      /\ Len(InHand) = 1 /\ ToSet(InHand) = {hand}
  BY <1>2, ElementsFew
<1>6. Len(free) \in Nat /\ Len(source) \in Nat
  BY <1>a
<1>7. Whole(free, InHand, source)'
  <2>1. ToSet(free') \cup ToSet(InHand') \cup ToSet(source') = Buffers
    BY <1>3, <1>4, <1>5 DEF Kept, Whole
  <2>2. Len(free') + Len(InHand') + Len(source') = Cardinality(Buffers)
    BY <1>3, <1>4, <1>5, <1>6 DEF Kept, Whole
  <2> QED
    BY <2>1, <2>2 DEF Whole
<1>8. queued' = Len(InHand') + Len(source')
  BY <1>3, <1>4, <1>5, <1>6 DEF Kept
<1>9. CountedIsPlayed'
  BY <1>3, <1>4, <1>6, <1>a DEF Kept, CountedIsPlayed
<1> QED
  BY <1>7, <1>8, <1>9 DEF Kept

\* No name is missing among the free ones: when there is none to take, the
\* queue is empty.
LEMMA DropKeeps ==
  ASSUME StreamTypeOK, Kept, DropData
  PROVE  Kept'
<1>a. /\ free \in Seq(Buffers \cup {NoBuffer}) /\ NoBuffer \notin Buffers
      /\ pc \in [Threads -> Positions] /\ "filler" \in Threads
  BY StreamAssumption DEF StreamTypeOK, Threads, NoBuffer
<1>1. ASSUME free # << >> PROVE FALSE
  <2>1. Head(free) \in ToSet(free)
    BY <1>1, <1>a, ElementsHead
  <2>2. Head(free) \in Buffers
    BY <2>1 DEF Kept, Whole
  <2> QED
    BY <1>1, <1>a, <2>2 DEF DropData, FirstFree
<1>2. UNCHANGED <<free, queued, source, old, played, state>>
  BY <1>1 DEF DropData, sourceVars
<1>3. InHand' = InHand
  BY <1>a DEF DropData, Goes, InHand
<1> QED
  BY <1>2, <1>3 DEF Kept, CountedIsPlayed, Whole

\* The actions that move no buffer: the source may be started, or have played
\* one more, or its played ones may be counted.
LEMMA RestKeeps ==
  ASSUME StreamTypeOK, Unqueuing, Kept, ~raced', Next \/ UNCHANGED vars,
         ~Pop, ~DropData, ~QueueBuffer, \A t \in Threads : ~UnqueueOld(t)
  PROVE  Kept'
<1>a. /\ pc \in [Threads -> Positions] /\ old \in [Threads -> Nat]
      /\ source \in Seq(Buffers) /\ played \in 0 .. Len(source)
      /\ Len(source) \in Nat
      /\ "filler" \in Threads /\ "video" \in Threads
      /\ \A t \in Threads : t = "filler" \/ t = "video"
  BY DEF StreamTypeOK, Threads
<1>1. UNCHANGED <<free, queued, source>>
  BY <1>a DEF Next, FillerRuns, VideoRuns, CallQueue, CountOld, CheckState, Play,
     Return, CdLoop, Look, PlayPiece, SkipTurn, LeaveLoop, EndCd, StopCd,
     Statistics, PlayBuffer, vars, bufferVars, sourceVars
<1>2. InHand' = InHand
  <2>1. ASSUME NEW t \in Threads, CountOld(t)
        PROVE  /\ pc["filler"] = "queue" <=> pc'["filler"] = "queue"
               /\ hand' = hand
    BY <2>1, <1>a DEF CountOld, AfterUnqueue, callVars
  <2>2. CASE \/ CallQueue \/ CheckState \/ Play \/ Return \/ CdLoop \/ Look
             \/ PlayPiece \/ SkipTurn \/ LeaveLoop \/ EndCd
    <3>1. pc["filler"] # "queue" /\ pc'["filler"] # "queue"
      BY <2>2, <1>a DEF CallQueue, CheckState, Play, Return, CdLoop, Look,
         PlayPiece, SkipTurn, LeaveLoop, EndCd, Goes
    <3> QED
      BY <3>1 DEF InHand
  <2>3. CASE Statistics \/ StopCd \/ PlayBuffer \/ UNCHANGED vars
    <3>1. pc'["filler"] = pc["filler"] /\ hand' = hand
      BY <2>3, <1>a DEF Statistics, StopCd, PlayBuffer, Goes, vars, callVars
    <3> QED
      BY <3>1 DEF InHand
  <2>4. ASSUME NEW t \in Threads, CountOld(t) PROVE InHand' = InHand
    BY <2>1, <2>4 DEF InHand
  <2> QED
    BY <2>2, <2>3, <2>4, <1>a DEF Next, FillerRuns, VideoRuns
<1>3. CountedIsPlayed'
  <2>1. ASSUME NEW t \in Threads, CountOld(t) PROVE CountedIsPlayed'
    <3>1. UNCHANGED <<source, played, state>>
      BY <2>1 DEF CountOld, sourceVars
    <3>2. PICK n \in Processed : old' = old \/ old' = [old EXCEPT ![t] = n]
      BY <2>1 DEF CountOld
    <3>3. n <= played \/ (state = "stopped" /\ n <= Len(source))
      BY <1>a DEF Processed
    <3>4. \A u \in Threads : old'[u] = old[u] \/ old'[u] = n
      BY <3>2, <1>a
    <3> QED
      BY <3>1, <3>3, <3>4 DEF Kept, CountedIsPlayed
  <2>2. CASE Play
    <3>1. old["filler"] = 0
      BY <2>2, <1>a DEF Play, Goes, Unqueuing
    <3>2. ~(old["video"] > 0)
      BY <2>2, Zenon DEF Play
    <3>3. old' = old /\ old["video"] = 0
      BY <2>2, <3>2, <1>a DEF Play
    <3> QED
      BY <3>1, <3>3, <1>a DEF CountedIsPlayed
  <2>3. CASE PlayBuffer
    <3>1. /\ state = "playing" /\ played' = played + 1
          /\ UNCHANGED <<source, old>>
      BY <2>3 DEF PlayBuffer
    <3>2. \A u \in Threads : old[u] > 0 => old[u] <= played
      BY <3>1 DEF Kept, CountedIsPlayed
    <3>3. \A u \in Threads : old'[u] > 0 => old'[u] <= played'
      BY <3>1, <3>2, <1>a
    <3> QED
      BY <3>3 DEF CountedIsPlayed
  <2>4. CASE \/ CallQueue \/ CheckState \/ Return \/ CdLoop \/ Look
             \/ PlayPiece \/ SkipTurn \/ LeaveLoop \/ EndCd \/ Statistics
             \/ StopCd \/ UNCHANGED vars
    <3>1. UNCHANGED <<source, old, played, state>>
      BY <2>4 DEF CallQueue, CheckState, Return, CdLoop, Look, PlayPiece,
         SkipTurn, LeaveLoop, EndCd, Statistics, StopCd, vars, sourceVars
    <3> QED
      BY <3>1 DEF Kept, CountedIsPlayed
  <2> QED
    BY <2>1, <2>2, <2>3, <2>4, <1>a DEF Next, FillerRuns, VideoRuns
<1> QED
  BY <1>1, <1>2, <1>3 DEF Kept, Whole

LEMMA BuffersStep ==
  ASSUME StreamTypeOK, HandOK, BuffersInv, Next \/ UNCHANGED vars
  PROVE  BuffersInv'
<1>1. Unqueuing'
  BY UnqueuingStep DEF BuffersInv
<1>2. ASSUME ~raced' PROVE Kept'
  <2>1. ~raced
    BY <1>2 DEF Next, FillerRuns, VideoRuns, CallQueue, CountOld, UnqueueOld,
       Pop, DropData, QueueBuffer, CheckState, Play, Return, CdLoop, Look,
       PlayPiece, SkipTurn, LeaveLoop, EndCd, StopCd, Statistics, PlayBuffer,
       vars
  <2>2. Unqueuing /\ Kept
    BY <2>1 DEF BuffersInv, Kept
  <2>3. CASE \E t \in Threads : UnqueueOld(t)
    BY <2>2, <2>3, UnqueueKeeps
  <2>4. CASE Pop
    BY <2>2, <2>4, PopKeeps
  <2>5. CASE DropData
    BY <2>2, <2>5, DropKeeps
  <2>6. CASE QueueBuffer
    BY <2>2, <2>6, QueueKeeps
  <2>7. CASE /\ ~Pop /\ ~DropData /\ ~QueueBuffer
             /\ \A t \in Threads : ~UnqueueOld(t)
    BY <1>2, <2>2, <2>7, RestKeeps
  <2> QED
    BY <2>3, <2>4, <2>5, <2>6, <2>7
<1> QED
  BY <1>1, <1>2 DEF BuffersInv, Kept

\* At first all are free.
LEMMA BuffersStart == Init => BuffersInv
<1> SUFFICES ASSUME Init PROVE BuffersInv
  OBVIOUS
<1> DEFINE n == Cardinality(Buffers)
           Order(f) == f \in [1 .. n -> Buffers] /\ IsInjective(f)
<1>1. n \in Nat /\ IsFiniteSet(Buffers) /\ ExistsBijection(1 .. n, Buffers)
  BY StreamAssumption, FS_CardinalityType
<1>2. PICK f \in Bijection(1 .. n, Buffers) : TRUE
  BY <1>1 DEF ExistsBijection
<1>3. Order(f)
  BY <1>2 DEF Bijection, Injection, IsInjective
<1>4. Order(SetToSeq(Buffers))
  BY <1>3 DEF SetToSeq
<1>5. free = SetToSeq(Buffers)
  BY DEF Init
<1>6. free \in [1 .. n -> Buffers] /\ IsInjective(free)
  BY <1>4, <1>5
<1>7. Len(free) = n
  BY <1>1, <1>6
<1>8. ToSet(free) = Buffers
  <2>1. free \in Injection(1 .. n, Buffers)
    BY <1>6 DEF Injection, IsInjective
  <2>2. IsFiniteSet(1 .. n) /\ Cardinality(1 .. n) = n
    BY <1>1, FS_Interval
  <2>3. free \in Surjection(1 .. n, Buffers)
    BY <1>1, <2>1, <2>2, FS_Injection, FS_Surjection
  <2> QED
    BY <1>6, <2>3 DEF ToSet, Surjection
<1>9. Unqueuing
  BY DEF Init, Unqueuing
<1>10. CountedIsPlayed
  BY DEF Init, CountedIsPlayed
<1>11. InHand = << >> /\ source = << >> /\ queued = 0
  BY DEF Init, InHand
<1>12. Whole(free, InHand, source) /\ queued = Len(InHand) + Len(source)
  BY <1>1, <1>7, <1>8, <1>11, ElementsFew DEF Whole
<1> QED
  BY <1>9, <1>10, <1>12 DEF BuffersInv

\* What the filling thread has in hand is a sequence of names.
LEMMA InHandSeq ==
  ASSUME HandOK
  PROVE  InHand \in Seq(Buffers \cup {NoBuffer})
<1> DEFINE Names == Buffers \cup {NoBuffer}
<1>1. CASE pc["filler"] = "queue"
  <2>1. InHand = <<hand>> /\ hand \in Names
    BY <1>1 DEF InHand, HandOK
  <2> HIDE DEF Names
  <2>2. InHand \in Seq(Names)
    BY <2>1
  <2> QED
    BY <2>2 DEF Names
<1>2. CASE pc["filler"] # "queue"
  <2>1. InHand = << >>
    BY <1>2 DEF InHand
  <2> HIDE DEF Names
  <2>2. InHand \in Seq(Names)
    BY <2>1
  <2> QED
    BY <2>2 DEF Names
<1> QED
  BY <1>1, <1>2

LEMMA WholeIsOnePlace ==
  ASSUME StreamTypeOK, HandOK, BuffersInv
  PROVE  BuffersWhole
<1> DEFINE Names == Buffers \cup {NoBuffer}
<1>1. free \in Seq(Names) /\ source \in Seq(Names)
  BY DEF StreamTypeOK
<1>2. InHand \in Seq(Names)
  BY InHandSeq
<1> HIDE DEF Names
<1>3. free \o InHand \in Seq(Names)
  BY <1>1, <1>2, ConcatProperties
<1>4. ToSet(free \o InHand \o source)
        = ToSet(free) \cup ToSet(InHand) \cup ToSet(source)
  <2>1. ToSet((free \o InHand) \o source)
          = ToSet(free \o InHand) \cup ToSet(source)
    <3> DEFINE w == free \o InHand
    <3>1. w \in Seq(Names)
      BY <1>3
    <3> HIDE DEF w
    <3>2. ToSet(w \o source) = ToSet(w) \cup ToSet(source)
      BY <1>1, <3>1, ElementsConcat
    <3> QED
      BY <3>2 DEF w
  <2>2. ToSet(free \o InHand) = ToSet(free) \cup ToSet(InHand)
    BY <1>1, <1>2, ElementsConcat
  <2> QED
    BY <2>1, <2>2
<1> QED
  BY <1>4 DEF BuffersInv, Whole, BuffersWhole

\* Every OpenAL buffer is in one place - free, in the hands of the filling
\* thread, or queued at the source - and buffers_queued counts those that are
\* not free, whichever thread unqueues; so long as alSourcePlay did not come
\* between the two OpenAL calls of an unqueue of the video thread.
THEOREM BuffersInOnePlace == Spec => []BuffersWhole
<1> DEFINE Inv == StatsInv /\ StreamTypeOK /\ HandOK /\ BuffersInv
<1>1. Init => Inv
  BY Start, BuffersStart
<1>2. Inv /\ [Next]_vars => Inv'
  BY Step, BuffersStep
<1>3. Inv => BuffersWhole
  BY WholeIsOnePlace
<1> QED
  BY <1>1, <1>2, <1>3, PTL DEF Spec

-----------------------------------------------------------------------------
(* The two buffers of the CD *)

\* A sequence holds no more names than it is long.
LEMMA ElementsCount ==
  ASSUME NEW S, NEW s \in Seq(S)
  PROVE  /\ IsFiniteSet(ToSet(s))
         /\ Cardinality(ToSet(s)) \in Nat
         /\ Cardinality(ToSet(s)) <= Len(s)
<1> DEFINE n == Len(s)
<1>1. n \in Nat /\ \A i \in 1 .. n : s[i] \in ToSet(s)
  BY Elements
<1>2. s \in [1 .. n -> ToSet(s)]
  BY <1>1
<1>3. \A x \in ToSet(s) : \E i \in 1 .. n : s[i] = x
  BY Elements
<1>4. s \in Surjection(1 .. n, ToSet(s))
  BY <1>2, <1>3 DEF Surjection
<1>5. IsFiniteSet(1 .. n) /\ Cardinality(1 .. n) = n
  <2>1. n \in Nat
    BY <1>1
  <2> HIDE DEF n
  <2>2. /\ IsFiniteSet(1 .. n)
        /\ Cardinality(1 .. n) = IF 1 > n THEN 0 ELSE n - 1 + 1
    BY <2>1, FS_Interval
  <2> QED
    BY <2>1, <2>2
<1>6. IsFiniteSet(ToSet(s)) /\ Cardinality(ToSet(s)) <= n
  BY <1>4, <1>5, FS_Surjection
<1> QED
  BY <1>6, FS_CardinalityType

\* Among sequences that are whole no name is both free and at the source.
LEMMA FreeIsNotQueued ==
  ASSUME StreamTypeOK, HandOK, Whole(free, InHand, source),
         NEW x, x \in ToSet(free), x \in ToSet(source)
  PROVE  FALSE
<1> DEFINE F == ToSet(free)
           H == ToSet(InHand)
           S == ToSet(source)
<1>1. /\ free \in Seq(Buffers \cup {NoBuffer})
      /\ source \in Seq(Buffers \cup {NoBuffer})
      /\ InHand \in Seq(Buffers \cup {NoBuffer})
  BY InHandSeq DEF StreamTypeOK
<1>2. /\ IsFiniteSet(F) /\ Cardinality(F) \in Nat
      /\ Cardinality(F) <= Len(free)
  BY <1>1, ElementsCount
<1>3. /\ IsFiniteSet(H) /\ Cardinality(H) \in Nat
      /\ Cardinality(H) <= Len(InHand)
  BY <1>1, ElementsCount
<1>4. /\ IsFiniteSet(S) /\ Cardinality(S) \in Nat
      /\ Cardinality(S) <= Len(source)
  BY <1>1, ElementsCount
<1>5. /\ F \cup H \cup S = Buffers
      /\ Len(free) + Len(InHand) + Len(source) = Cardinality(Buffers)
      /\ Len(free) \in Nat /\ Len(InHand) \in Nat /\ Len(source) \in Nat
  BY <1>1 DEF Whole
<1>6. x \in F \cap S
  OBVIOUS
<1> HIDE DEF F, H, S
<1>7. /\ IsFiniteSet(F \cup S)
      /\ Cardinality(F \cup S)
           = Cardinality(F) + Cardinality(S) - Cardinality(F \cap S)
  BY <1>2, <1>4, FS_Union
<1>8. Cardinality(F \cap S) \in Nat /\ Cardinality(F \cap S) >= 1
  <2>1. {x} \subseteq F \cap S /\ F \cap S \subseteq F
    BY <1>6
  <2>2. IsFiniteSet(F \cap S)
    BY <1>2, <2>1, FS_Subset
  <2>3. Cardinality({x}) = 1
    BY FS_Singleton
  <2>4. Cardinality({x}) <= Cardinality(F \cap S)
    BY <2>1, <2>2, FS_Subset
  <2>5. Cardinality(F \cap S) \in Nat
    BY <2>2, FS_CardinalityType
  <2> QED
    BY <2>3, <2>4, <2>5
<1>9. Cardinality((F \cup S) \cup H)
        = Cardinality(F \cup S) + Cardinality(H)
            - Cardinality((F \cup S) \cap H)
  BY <1>3, <1>7, FS_Union
<1>10. Cardinality((F \cup S) \cap H) \in Nat
  <2>1. (F \cup S) \cap H \subseteq H
    OBVIOUS
  <2>2. IsFiniteSet((F \cup S) \cap H)
    BY <1>3, <2>1, FS_Subset
  <2> QED
    BY <2>2, FS_CardinalityType
<1>11. Cardinality((F \cup S) \cup H) = Cardinality(Buffers)
  <2>1. (F \cup S) \cup H = Buffers
    BY <1>5
  <2> QED
    BY <2>1
<1>12. Len(free) + Len(InHand) + Len(source)
         <= Cardinality(F) + Cardinality(S) - 1 + Cardinality(H)
  BY <1>2, <1>3, <1>4, <1>5, <1>7, <1>8, <1>9, <1>10, <1>11, SMTT(20)
<1> QED
  BY <1>2, <1>3, <1>4, <1>5, <1>12

\* What the source may still hold of a CD: always the other of its two buffers;
\* during a call also the one in hand; and the one whose turn it is only until
\* the thread has waited for it.
Waited ==
  client = "cd" /\ ~raced =>
    \A b \in ToSet(source) :
      \/ b = ids[1 - bufnum]
      \/ /\ pc["filler"] \in {"queue", "check", "play", "drain", "return"}
         /\ b = hand
      \/ /\ pc["filler"] \in {"idle", "poll", "look", "over"}
         /\ b = ids[bufnum]

LEMMA WaitedStart == Init => Waited
  BY ElementsFew DEF Init, Waited

\* Unqueuing takes names away from the source, and leaves the rest alone.
LEMMA WaitedUnqueue ==
  ASSUME StreamTypeOK, Unqueuing, Waited, ~raced => Kept,
         NEW t \in Threads, UnqueueOld(t)
  PROVE  Waited'
<1> SUFFICES ASSUME client = "cd", ~raced PROVE Waited'
  BY DEF UnqueueOld, Waited
<1>a. /\ pc \in [Threads -> Positions] /\ "filler" \in Threads
      /\ source \in Seq(Buffers) /\ played \in 0 .. Len(source)
      /\ old \in [Threads -> Nat]
  BY DEF StreamTypeOK, Threads
<1>1. ToSet(source') \subseteq ToSet(source)
  <2>1. CASE \E n \in Processed : old[t] <= n
    <3>1. old[t] \in 0 .. Len(source)
      BY <1>a, <2>1, ProcessedType
    <3>2. source' = SubSeq(source, old[t] + 1, Len(source))
      BY <2>1 DEF UnqueueOld
    <3> QED
      BY <1>a, <3>1, <3>2, ElementsCut
  <2>2. CASE ~\E n \in Processed : old[t] <= n
    BY <2>2 DEF UnqueueOld
  <2> QED
    BY <2>1, <2>2
<1>2. UNCHANGED <<client, raced, ids, bufnum, hand>>
  BY DEF UnqueueOld, callVars, cdVars
<1>3. \/ pc'["filler"] = pc["filler"]
      \/ pc["filler"] = "drain" /\ pc'["filler"] = "return"
      \/ pc["filler"] = "poll" /\ pc'["filler"] = "look"
  <2>1. pc[t] \in {"drain", "poll"}
    BY <1>a DEF Unqueuing, UnqueueOld
  <2> QED
    BY <1>a, <2>1 DEF UnqueueOld, AfterUnqueue
<1> QED
  BY <1>1, <1>2, <1>3 DEF Waited

\* The other steps: a buffer is only queued from the hand, and the turn only
\* comes when the source does not hold the buffer any more.
LEMMA WaitedStep ==
  ASSUME StreamTypeOK, HandOK, BuffersInv, Waited, Next \/ UNCHANGED vars
  PROVE  Waited'
<1>1. UNCHANGED client
  BY DEF Next, FillerRuns, VideoRuns, CallQueue, CountOld, UnqueueOld,
     Pop, DropData, QueueBuffer, CheckState, Play, Return, CdLoop, Look,
     PlayPiece, SkipTurn, LeaveLoop, EndCd, StopCd, Statistics, PlayBuffer,
     vars
<1> SUFFICES ASSUME client = "cd", ~raced' PROVE Waited'
  BY <1>1 DEF Waited
<1>d. ~raced
  BY DEF Next, FillerRuns, VideoRuns, CallQueue, CountOld, UnqueueOld,
     Pop, DropData, QueueBuffer, CheckState, Play, Return, CdLoop, Look,
     PlayPiece, SkipTurn, LeaveLoop, EndCd, StopCd, Statistics, PlayBuffer,
     vars
<1>a. /\ pc \in [Threads -> Positions]
      /\ "filler" \in Threads /\ "video" \in Threads
      /\ \A t \in Threads : t = "filler" \/ t = "video"
      /\ ids \in [Turns -> Buffers \cup {NoBuffer}]
      /\ bufnum \in Turns /\ 1 - bufnum \in Turns
      /\ bufnum = 0 \/ bufnum = 1
      /\ 1 - (1 - bufnum) = bufnum
  BY TurnsTaken DEF StreamTypeOK, Threads, Turns
<1>b. Unqueuing /\ Kept
  BY <1>d DEF BuffersInv, Kept
<1>c. ASSUME NEW b \in ToSet(source)
      PROVE  \/ b = ids[1 - bufnum]
             \/ /\ pc["filler"] \in {"queue", "check", "play", "drain",
                                     "return"}
                /\ b = hand
             \/ /\ pc["filler"] \in {"idle", "poll", "look", "over"}
                /\ b = ids[bufnum]
  BY <1>d DEF Waited
<1>2. CASE CallQueue
  BY <1>2 DEF CallQueue
<1>3. ASSUME NEW t \in Threads, CountOld(t) PROVE Waited'
  <2>1. \/ pc'["filler"] = pc["filler"]
        \/ pc["filler"] = "drain" /\ pc'["filler"] = "return"
        \/ pc["filler"] = "poll" /\ pc'["filler"] = "look"
    BY <1>3, <1>a DEF CountOld, AfterUnqueue
  <2>2. UNCHANGED <<source, hand, ids, bufnum>>
    BY <1>3 DEF CountOld, sourceVars, callVars, cdVars
  <2> QED
    BY <1>c, <2>1, <2>2 DEF Waited
<1>4. ASSUME NEW t \in Threads, UnqueueOld(t) PROVE Waited'
  BY <1>4, <1>b, WaitedUnqueue
<1>5. CASE Pop
  <2>1. /\ pc["filler"] = "pop" /\ pc'["filler"] = "queue"
        /\ UNCHANGED <<source, ids, bufnum>>
    BY <1>5, <1>a DEF Pop, Goes, sourceVars, cdVars
  <2> QED
    BY <1>c, <2>1 DEF Waited
<1>6. CASE DropData
  <2>1. /\ pc["filler"] = "pop" /\ pc'["filler"] = "return"
        /\ UNCHANGED <<source, ids, bufnum>>
    BY <1>6, <1>a DEF DropData, Goes, sourceVars, cdVars
  <2> QED
    BY <1>c, <2>1 DEF Waited
<1>7. CASE QueueBuffer
  <2>1. /\ pc["filler"] = "queue" /\ pc'["filler"] = "check"
        /\ UNCHANGED <<hand, ids, bufnum>>
        /\ source' = Append(source, hand)
    BY <1>7, <1>a DEF QueueBuffer, Goes, callVars, cdVars
  <2>2. source \in Seq(Buffers) /\ hand \in Buffers
    BY <2>1 DEF StreamTypeOK, HandOK
  <2>3. ToSet(source') = ToSet(source) \cup {hand}
    BY <2>1, <2>2, ElementsAppend
  <2> QED
    BY <1>c, <2>1, <2>3 DEF Waited
<1>8. CASE CheckState \/ Play
  <2>1. /\ pc["filler"] \in {"check", "play"}
        /\ pc'["filler"] \in {"play", "drain"}
        /\ UNCHANGED <<source, hand, ids, bufnum>>
    BY <1>8, <1>a DEF CheckState, Play, Goes, sourceVars, callVars, cdVars
  <2> QED
    BY <1>c, <2>1 DEF Waited
<1>9. CASE Return
  <2>1. /\ pc["filler"] = "return" /\ pc'["filler"] = "idle"
        /\ ids' = [ids EXCEPT ![bufnum] = hand] /\ bufnum' = 1 - bufnum
        /\ UNCHANGED source
    BY <1>9, <1>a DEF Return, Goes, sourceVars
  <2>2. /\ ids'[1 - bufnum'] = hand /\ ids'[bufnum'] = ids[1 - bufnum]
    BY <2>1, <1>a
  <2> QED
    BY <1>c, <2>1, <2>2 DEF Waited
<1>10. CASE CdLoop
  <2>1. /\ pc["filler"] = "idle" /\ UNCHANGED <<source, hand, ids>>
    BY <1>10 DEF CdLoop, sourceVars, callVars
  <2>2. CASE cddaPlay > 0 \/ ending
    <3>1. /\ bufnum' = bufnum
          /\ pc'["filler"] = IF MustAsk THEN "poll" ELSE "turn"
      BY <1>10, <1>a, <2>2 DEF CdLoop
    <3>2. ~MustAsk => ids[bufnum] \notin ToSet(source)
      <4>1. ToSet(source) \subseteq Buffers
        BY <1>b DEF Kept, Whole
      <4> QED
        BY <4>1, StreamAssumption DEF MustAsk, NoBuffer
    <3> QED
      BY <1>c, <2>1, <3>1, <3>2 DEF Waited
  <2>3. CASE ~(cddaPlay > 0 \/ ending)
    <3>1. bufnum' = 0 /\ pc' = pc
      BY <1>10, <2>3 DEF CdLoop
    <3> QED
      BY <1>a, <1>c, <2>1, <3>1 DEF Waited
  <2> QED
    BY <2>2, <2>3
<1>11. CASE Look
  <2>1. /\ pc["filler"] = "look"
        /\ pc'["filler"] = IF ids[bufnum] \in ToSet(free) THEN "turn"
                                                          ELSE "poll"
        /\ UNCHANGED <<source, hand, ids, bufnum>>
    BY <1>11, <1>a DEF Look, Goes, sourceVars, callVars, cdVars
  <2>2. ids[bufnum] \in ToSet(free) => ids[bufnum] \notin ToSet(source)
    BY <1>b, FreeIsNotQueued DEF Kept
  <2> QED
    BY <1>c, <2>1, <2>2 DEF Waited
<1>12. CASE PlayPiece
  <2>1. /\ pc["filler"] = "turn" /\ pc'["filler"] = "pop"
        /\ UNCHANGED <<source, hand, ids, bufnum>>
    BY <1>12, <1>a DEF PlayPiece, Goes, sourceVars, cdVars
  <2> QED
    BY <1>c, <2>1 DEF Waited
<1>13. CASE SkipTurn \/ LeaveLoop \/ EndCd
  <2>1. /\ pc["filler"] = "turn" /\ pc'["filler"] \in {"idle", "over"}
        /\ UNCHANGED <<source, ids>> /\ bufnum' \in {0, 1}
    BY <1>13, <1>a DEF SkipTurn, LeaveLoop, EndCd, Goes, sourceVars
  <2>2. \A b \in ToSet(source) : b = ids'[bufnum'] \/ b = ids'[1 - bufnum']
    BY <1>a, <1>c, <2>1
  <2> QED
    BY <2>1, <2>2 DEF Waited
<1>14. CASE StopCd \/ Statistics \/ PlayBuffer \/ UNCHANGED vars
  <2>1. /\ pc'["filler"] = pc["filler"]
        /\ UNCHANGED <<source, hand, ids, bufnum>>
    BY <1>14, <1>a DEF StopCd, Statistics, PlayBuffer, Goes, vars, sourceVars,
       callVars, cdVars
  <2> QED
    BY <1>c, <2>1 DEF Waited
<1> QED
  BY <1>2, <1>3, <1>4, <1>5, <1>6, <1>7, <1>8, <1>9, <1>10, <1>11, <1>12,
     <1>13, <1>14, <1>a DEF Next, FillerRuns, VideoRuns

\* When the thread is about to take a buffer, the source holds the other one of
\* the CD at most, so that all the rest are free.
LEMMA OneAtTheSource ==
  ASSUME StreamTypeOK, HandOK, BuffersInv, Waited
  PROVE  CdNeverDrops
<1> SUFFICES ASSUME client = "cd", ~raced, pc["filler"] = "pop"
             PROVE  Len(free) >= Cardinality(Buffers) - 1
  BY DEF CdNeverDrops
<1> DEFINE F == ToSet(free)
           other == {ids[1 - bufnum]}
<1>1. free \in Seq(Buffers \cup {NoBuffer})
  BY DEF StreamTypeOK
<1>2. /\ IsFiniteSet(F) /\ Cardinality(F) \in Nat
      /\ Cardinality(F) <= Len(free) /\ Len(free) \in Nat
  BY <1>1, ElementsCount
<1>3. InHand = << >>
  BY DEF InHand
<1>4. ToSet(source) \subseteq other
  BY DEF Waited
<1>5. Buffers \subseteq F \cup other
  BY <1>3, <1>4, ElementsFew DEF BuffersInv, Whole
<1> HIDE DEF F
<1>6. IsFiniteSet(other) /\ Cardinality(other) = 1
  BY FS_Singleton
<1> HIDE DEF other
<1>7. /\ IsFiniteSet(F \cup other)
      /\ Cardinality(F \cup other)
           = Cardinality(F) + Cardinality(other) - Cardinality(F \cap other)
  BY <1>2, <1>6, FS_Union
<1>8. Cardinality(F \cap other) \in Nat
  <2>1. F \cap other \subseteq F
    OBVIOUS
  <2>2. IsFiniteSet(F \cap other)
    BY <1>2, <2>1, FS_Subset
  <2> QED
    BY <2>2, FS_CardinalityType
<1>9. Cardinality(Buffers) <= Cardinality(F \cup other)
  BY <1>5, <1>7, FS_Subset
<1>10. Cardinality(Buffers) \in Nat
  BY StreamAssumption, FS_CardinalityType
<1> QED
  BY <1>2, <1>6, <1>7, <1>8, <1>9, <1>10

\* The data of a CD are never dropped for want of a buffer: its thread waits
\* for the buffer whose turn it is, and when it then queues a piece at most one
\* other is still with the source; however many pieces are played, however the
\* CD is stopped, and whichever thread takes the played buffers back.
THEOREM CdIsNotDropped == Spec => []CdNeverDrops
<1> DEFINE Inv == StatsInv /\ StreamTypeOK /\ HandOK /\ BuffersInv /\ Waited
<1>1. Init => Inv
  BY Start, BuffersStart, WaitedStart
<1>2. Inv /\ [Next]_vars => Inv'
  BY Step, BuffersStep, WaitedStep
<1>3. Inv => CdNeverDrops
  BY OneAtTheSource
<1> QED
  BY <1>1, <1>2, <1>3, PTL DEF Spec
=============================================================================
