--------------------------- MODULE TaskQueueProofs ---------------------------
(***************************************************************************)
(* The lists, the queue and the statistics agree, for every table.         *)
(***************************************************************************)
EXTENDS TaskQueue, SerialTasksProofs

-----------------------------------------------------------------------------
(* The order of texts.                                                      *)

(* The powers of ten are defined.                                           *)
LEMMA TenToDef ==
    \A n \in Nat : TenTo[n] = IF n = 0 THEN 1 ELSE 10 * TenTo[n - 1]
<1> DEFINE UpTo(a, n) == /\ a \in [0 .. n -> Nat] /\ a[0] = 1
                         /\ \A k \in 1 .. n : a[k] = 10 * a[k - 1]
           power == [n \in Nat |-> (CHOOSE a : UpTo(a, n))[n]]
<1>1. ASSUME NEW m \in Nat PROVE \E a : UpTo(a, m)
  <2> DEFINE Bad == {n \in Nat : ~ \E a : UpTo(a, n)}
  <2> SUFFICES ASSUME Bad # {} PROVE FALSE
    OBVIOUS
  <2>1. PICK n \in Bad : \A k \in Bad : n <= k
    <3>1. Bad \subseteq Nat
      OBVIOUS
    <3> HIDE DEF Bad
    <3> QED  BY <3>1, LeastOf
  <2>2. n # 0
    <3> DEFINE one == [k \in 0 .. 0 |-> 1]
    <3>1. one \in [0 .. 0 -> Nat] /\ one[0] = 1 /\ \A k \in 1 .. 0 : one[k] = 10 * one[k - 1]
      <4>1. ~ \E k \in 1 .. 0 : TRUE
        OBVIOUS
      <4> QED  BY <4>1
    <3> HIDE DEF one
    <3>2. \E a : UpTo(a, 0)
      BY <3>1
    <3>3. ~ \E a : UpTo(a, n)
      BY <2>1
    <3> HIDE DEF UpTo, Bad
    <3> QED  BY <3>2, <3>3
  <2>3. PICK a : UpTo(a, n - 1)
    <3>1. n \in Nat
      BY <2>1
    <3>2. n - 1 \in Nat /\ n - 1 \notin Bad
      <4> HIDE DEF Bad
      <4> QED  BY <2>1, <2>2, <3>1
    <3>3. \E a : UpTo(a, n - 1)
      <4> HIDE DEF UpTo
      <4> QED  BY <3>2
    <3> HIDE DEF UpTo
    <3> QED  BY <3>3
  <2>4. UpTo([k \in 0 .. n |-> IF k = n THEN 10 * a[n - 1] ELSE a[k]], n)
    BY <2>1, <2>2, <2>3
  <2> HIDE DEF UpTo
  <2> QED  BY <2>1, <2>4
<1>2. ASSUME NEW m \in Nat, NEW n \in Nat, m <= n, NEW a, NEW b, UpTo(a, m), UpTo(b, n),
             NEW j \in 0 .. m
      PROVE  a[j] = b[j]
  <2> DEFINE Bad == {k \in 0 .. m : a[k] # b[k]}
  <2> SUFFICES ASSUME Bad # {} PROVE FALSE
    OBVIOUS
  <2>1. PICK k \in Bad : \A i \in Bad : k <= i
    <3>1. Bad \subseteq Nat
      OBVIOUS
    <3> HIDE DEF Bad
    <3> QED  BY <3>1, LeastOf
  <2>2. k # 0
    BY <1>2, <2>1
  <2>3. k - 1 \notin Bad /\ k - 1 \in 0 .. m
    BY <2>1, <2>2
  <2>4. a[k] = 10 * a[k - 1] /\ b[k] = 10 * b[k - 1]
    BY <1>2, <2>1, <2>2
  <2> QED  BY <2>1, <2>3, <2>4
<1>3. \A n \in Nat : UpTo(CHOOSE a : UpTo(a, n), n)
  <2> HIDE DEF UpTo
  <2> QED  BY <1>1
<1>4. ASSUME NEW n \in Nat PROVE power[n] = IF n = 0 THEN 1 ELSE 10 * power[n - 1]
  <2> DEFINE a == CHOOSE x : UpTo(x, n)
             b == CHOOSE x : UpTo(x, n - 1)
  <2>1. UpTo(a, n) /\ power[n] = a[n]
    BY <1>3
  <2>2. CASE n = 0
    BY <2>1, <2>2
  <2>3. CASE n # 0
    <3>1. n - 1 \in Nat /\ UpTo(b, n - 1) /\ power[n - 1] = b[n - 1]
      <4>1. n - 1 \in Nat
        BY <2>3
      <4> HIDE DEF UpTo
      <4> QED  BY <1>3, <4>1
    <3> HIDE DEF a, b, power
    <3>2. b[n - 1] = a[n - 1]
      <4> HIDE DEF UpTo
      <4> QED  BY <1>2, <2>1, <3>1
    <3>3. a[n] = 10 * a[n - 1]
      BY <2>1, <2>3
    <3> QED  BY <2>1, <2>3, <3>1, <3>2, <3>3
  <2> QED  BY <2>2, <2>3
<1>5. power = [n \in Nat |-> IF n = 0 THEN 1 ELSE 10 * power[n - 1]]
  <2>1. power = [n \in Nat |-> power[n]]
    OBVIOUS
  <2> HIDE DEF power
  <2> QED  BY <1>4, <2>1
<1> HIDE DEF power
<1>6. TenTo = [n \in Nat |-> IF n = 0 THEN 1 ELSE 10 * TenTo[n - 1]]
  BY <1>5 DEF TenTo
<1> QED  BY <1>6

(* They are positive numbers.                                               *)
LEMMA TenToPositive == \A n \in Nat : TenTo[n] \in Nat \ {0}
<1> DEFINE Bad == {n \in Nat : TenTo[n] \notin Nat \ {0}}
<1> SUFFICES ASSUME Bad # {} PROVE FALSE
  OBVIOUS
<1>1. PICK n \in Bad : \A k \in Bad : n <= k
  <2>1. Bad \subseteq Nat
    OBVIOUS
  <2> HIDE DEF Bad
  <2> QED  BY <2>1, LeastOf
<1>2. n # 0
  BY <1>1, TenToDef
<1>3. n - 1 \in Nat /\ n - 1 \notin Bad
  BY <1>1, <1>2
<1>4. TenTo[n] = 10 * TenTo[n - 1]
  BY <1>1, <1>2, TenToDef
<1> QED  BY <1>1, <1>3, <1>4

(* Powers of sums are products.                                             *)
LEMMA TenToAdds ==
    ASSUME NEW m \in Nat, NEW n \in Nat
    PROVE  TenTo[m + n] = TenTo[m] * TenTo[n]
<1> DEFINE Bad == {k \in Nat : TenTo[m + k] # TenTo[m] * TenTo[k]}
<1> SUFFICES ASSUME Bad # {} PROVE FALSE
  OBVIOUS
<1>1. PICK k \in Bad : \A j \in Bad : k <= j
  <2>1. Bad \subseteq Nat
    OBVIOUS
  <2> HIDE DEF Bad
  <2> QED  BY <2>1, LeastOf
<1>2. k # 0
  <2>1. TenTo[0] = 1 /\ TenTo[m] \in Nat
    BY TenToDef, TenToPositive
  <2> QED  BY <1>1, <2>1
<1>3. k - 1 \in Nat /\ k - 1 \notin Bad
  BY <1>1, <1>2
<1>4. PICK x \in Nat, y \in Nat : x = TenTo[m] /\ y = TenTo[k - 1]
  BY <1>3, TenToPositive
<1>5. TenTo[m + (k - 1)] = x * y
  BY <1>3, <1>4
<1>6. TenTo[k] = 10 * y /\ TenTo[m + k] = 10 * (x * y)
  <2>1. m + k \in Nat /\ m + k # 0 /\ (m + k) - 1 = m + (k - 1)
    BY <1>1, <1>2
  <2> QED  BY <1>1, <1>2, <1>4, <1>5, <2>1, TenToDef
<1>7. 10 * (x * y) = x * (10 * y)
  OBVIOUS
<1> QED  BY <1>1, <1>4, <1>6, <1>7

(* Multiplying two numbers by a third neither swaps nor joins them.         *)
LEMMA TimesKeepsOrder ==
    ASSUME NEW x \in Nat, NEW y \in Nat, NEW c \in Nat \ {0}
    PROVE  /\ x < y <=> x * c < y * c
           /\ x = y <=> x * c = y * c
<1>1. ASSUME NEW u \in Nat, NEW v \in Nat, u < v PROVE u * c < v * c
  <2>1. PICK d \in Nat : v = u + d /\ d # 0
    <3>1. v - u \in Nat /\ v = u + (v - u) /\ v - u # 0
      BY <1>1
    <3> QED  BY <3>1
  <2>2. v * c = u * c + d * c
    BY <2>1
  <2>3. d * c > 0
    BY <2>1
  <2>4. u * c \in Nat /\ d * c \in Nat
    BY <2>1
  <2> QED  BY <2>2, <2>3, <2>4
<1>2. x * c \in Nat /\ y * c \in Nat
  OBVIOUS
<1>3. x < y => x * c < y * c
  BY <1>1
<1>4. y < x => y * c < x * c
  BY <1>1
<1>5. x < y \/ y < x \/ x = y
  OBVIOUS
<1> QED  BY <1>2, <1>3, <1>4, <1>5

(* How two texts compare does not depend on the width they are written out  *)
(* to, if it is enough for both.                                            *)
LEMMA AnyWidth ==
    ASSUME NEW a \in Id, NEW b \in Id, NEW V \in Nat, a.width <= V, b.width <= V
    PROVE  /\ Scaled(a, V) \in Nat
           /\ DigitsBefore(a, b) <=>
                  \/ Scaled(a, V) < Scaled(b, V)
                  \/ Scaled(a, V) = Scaled(b, V) /\ a.width < b.width
<1>1. \A id \in Id : id.num \in Nat /\ id.width \in Nat
  BY DEF Id
<1>2. PICK W \in Nat : /\ W = IF a.width > b.width THEN a.width ELSE b.width
                       /\ a.width <= W /\ b.width <= W /\ W <= V
  <2>1. a.width \in Nat /\ b.width \in Nat
    BY <1>1
  <2> QED  BY <2>1
<1>3. PICK c \in Nat \ {0} : c = TenTo[V - W]
  <2>1. V - W \in Nat
    BY <1>2
  <2> QED  BY <2>1, TenToPositive
<1>4. ASSUME NEW id \in {a, b}
      PROVE  Scaled(id, W) \in Nat /\ Scaled(id, V) = Scaled(id, W) * c
  <2>1. PICK n \in Nat, w \in Nat : n = id.num /\ w = id.width /\ w <= W
    BY <1>1, <1>2
  <2>2. W - w \in Nat /\ V - W \in Nat /\ (W - w) + (V - W) = V - w
    BY <1>2, <2>1
  <2>3. PICK t \in Nat : t = TenTo[W - w]
    BY <2>2, TenToPositive
  <2>4. TenTo[(W - w) + (V - W)] = TenTo[W - w] * TenTo[V - W]
    BY <2>2, TenToAdds
  <2>5. TenTo[V - w] = t * c
    BY <1>3, <2>2, <2>3, <2>4
  <2>6. Scaled(id, W) = n * t /\ Scaled(id, V) = n * (t * c)
    BY <2>1, <2>3, <2>5 DEF Scaled
  <2>7. n * (t * c) = (n * t) * c
    <3>1. \A i, j, k \in Nat : i * (j * k) = (i * j) * k
      OBVIOUS
    <3> QED  BY <1>3, <2>1, <2>3, <3>1
  <2>8. n * t \in Nat
    BY <2>1, <2>3
  <2> QED  BY <2>6, <2>7, <2>8
<1>5. PICK x \in Nat, y \in Nat : /\ x = Scaled(a, W) /\ y = Scaled(b, W)
                                  /\ Scaled(a, V) = x * c /\ Scaled(b, V) = y * c
  BY <1>4
<1>6. /\ x < y <=> x * c < y * c
      /\ x = y <=> x * c = y * c
      /\ x * c \in Nat
  BY <1>3, TimesKeepsOrder
<1>7. DigitsBefore(a, b) <=> x < y \/ (x = y /\ a.width < b.width)
  BY <1>2, <1>5 DEF DigitsBefore
<1>8. (x < y \/ (x = y /\ a.width < b.width)) <=>
          \/ Scaled(a, V) < Scaled(b, V)
          \/ Scaled(a, V) = Scaled(b, V) /\ a.width < b.width
  BY <1>5, <1>6
<1>9. Scaled(a, V) \in Nat
  BY <1>5, <1>6
<1> QED  BY <1>7, <1>8, <1>9, Zenon

(* The digits of ids of one form are in a strict total order.               *)
LEMMA DigitsAreOrdered ==
    ASSUME NEW a \in Id, NEW b \in Id
    PROVE  /\ ~ DigitsBefore(a, a)
           /\ \A c \in Id : DigitsBefore(a, b) /\ DigitsBefore(b, c) => DigitsBefore(a, c)
           /\ \/ DigitsBefore(a, b) \/ DigitsBefore(b, a)
              \/ a.num = b.num /\ a.width = b.width
<1>1. \A id \in Id : id.num \in Nat /\ id.width \in Nat
  BY DEF Id
<1>2. \A c \in Id : \E V \in Nat : a.width <= V /\ b.width <= V /\ c.width <= V
  <2> SUFFICES ASSUME NEW c \in Id PROVE \E V \in Nat : a.width <= V /\ b.width <= V /\ c.width <= V
    OBVIOUS
  <2>1. /\ a.width + b.width + c.width \in Nat
        /\ a.width <= a.width + b.width + c.width
        /\ b.width <= a.width + b.width + c.width
        /\ c.width <= a.width + b.width + c.width
    BY <1>1
  <2> QED  BY <2>1
<1>3. ASSUME NEW c \in Id, DigitsBefore(a, b), DigitsBefore(b, c) PROVE DigitsBefore(a, c)
  <2>1. PICK V \in Nat : a.width <= V /\ b.width <= V /\ c.width <= V
    BY <1>2
  <2>2. /\ Scaled(a, V) \in Nat /\ Scaled(b, V) \in Nat /\ Scaled(c, V) \in Nat
        /\ \/ Scaled(a, V) < Scaled(b, V)
           \/ Scaled(a, V) = Scaled(b, V) /\ a.width < b.width
        /\ \/ Scaled(b, V) < Scaled(c, V)
           \/ Scaled(b, V) = Scaled(c, V) /\ b.width < c.width
    BY <1>3, <2>1, AnyWidth, Zenon
  <2>3. \/ Scaled(a, V) < Scaled(c, V)
        \/ Scaled(a, V) = Scaled(c, V) /\ a.width < c.width
    BY <1>1, <2>2
  <2> QED  BY <2>1, <2>3, AnyWidth, Zenon
<1>4. PICK V \in Nat : a.width <= V /\ b.width <= V
  BY <1>2
<1>5. PICK x \in Nat, y \in Nat : x = Scaled(a, V) /\ y = Scaled(b, V)
  BY <1>4, AnyWidth
<1>6. ASSUME DigitsBefore(a, a) PROVE FALSE
  <2>1. x < x \/ (x = x /\ a.width < a.width)
    BY <1>4, <1>5, <1>6, AnyWidth, Zenon
  <2> QED  BY <1>1, <2>1
<1>7. ASSUME ~ DigitsBefore(a, b), ~ DigitsBefore(b, a)
      PROVE  a.num = b.num /\ a.width = b.width
  <2>1. /\ ~ (x < y \/ (x = y /\ a.width < b.width))
        /\ ~ (y < x \/ (y = x /\ b.width < a.width))
    BY <1>4, <1>5, <1>7, AnyWidth, Zenon
  <2>2. x = y /\ a.width = b.width
    BY <1>1, <2>1
  <2>3. PICK m \in Nat, n \in Nat : m = a.num /\ n = b.num
    BY <1>1
  <2>4. PICK c \in Nat \ {0} : c = TenTo[V - a.width]
    <3>1. V - a.width \in Nat
      BY <1>1, <1>4
    <3> QED  BY <3>1, TenToPositive
  <2>5. m * c = n * c
    BY <1>5, <2>2, <2>3, <2>4 DEF Scaled
  <2> QED  BY <2>2, <2>3, <2>4, <2>5, TimesKeepsOrder
<1> QED  BY <1>3, <1>6, <1>7

(* The texts of any set of ids are in a strict total order: ORDER BY id     *)
(* leaves no order of two rows open.                                        *)
LEMMA TextIsOrder ==
    ASSUME NEW ids \in SUBSET Id
    PROVE  IsStrictTotalOrder(TextOrder(ids), ids)
<1>1. \A id \in ids : /\ id \in Id /\ id.prefixes \in Nat /\ id.family \in Families
                      /\ FamilyOrder[id.family] \in Nat
  BY TaskQueueAssumption DEF Id
<1>2. \A a, b \in ids : <<a, b>> \in TextOrder(ids) <=> TextBefore(a, b)
  BY DEF TextOrder
<1>3. ASSUME NEW a \in ids PROVE ~ TextBefore(a, a)
  BY <1>1, DigitsAreOrdered DEF TextBefore
<1>4. ASSUME NEW a \in ids, NEW b \in ids, NEW c \in ids, TextBefore(a, b), TextBefore(b, c)
      PROVE  TextBefore(a, c)
  <2>1. DigitsBefore(a, b) /\ DigitsBefore(b, c) => DigitsBefore(a, c)
    BY <1>1, DigitsAreOrdered
  <2> QED  BY <1>1, <1>4, <2>1 DEF TextBefore
<1>5. ASSUME NEW a \in ids, NEW b \in ids PROVE a = b \/ TextBefore(a, b) \/ TextBefore(b, a)
  <2>1. DigitsBefore(a, b) \/ DigitsBefore(b, a) \/ (a.num = b.num /\ a.width = b.width)
    BY <1>1, DigitsAreOrdered
  <2>2. FamilyOrder[a.family] = FamilyOrder[b.family] => a.family = b.family
    BY <1>1, TaskQueueAssumption DEF IsInjective
  <2>3. /\ a.prefixes = b.prefixes /\ a.family = b.family
        /\ a.num = b.num /\ a.width = b.width
        => a = b
    BY <1>1 DEF Id
  <2> QED  BY <1>1, <2>1, <2>2, <2>3 DEF TextBefore
<1> QED  BY <1>2, <1>3, <1>4, <1>5 DEF IsStrictTotalOrder

-----------------------------------------------------------------------------
(* Lists and their parts.                                                   *)

(* What comes before all others is first in the order.                      *)
LEMMA FirstInOrder ==
    ASSUME NEW S, IsFiniteSet(S), NEW before, IsStrictTotalOrder(before, S),
           NEW x \in S, \A y \in S : y = x \/ <<x, y>> \in before
    PROVE  1 \in DOMAIN InOrder(S, before) /\ InOrder(S, before)[1] = x
<1> DEFINE list == InOrder(S, before)
           size == Cardinality(S)
<1>1. /\ size \in Nat
      /\ list \in [1 .. size -> S]
      /\ \A y \in S : \E n \in DOMAIN list : list[n] = y
      /\ \A m, n \in DOMAIN list : <<list[m], list[n]>> \in before <=> m < n
  BY InOrderSorts
<1> HIDE DEF list, size
<1>2. PICK n \in 1 .. size : list[n] = x
  BY <1>1
<1>3. 1 \in 1 .. size /\ DOMAIN list = 1 .. size /\ list[1] \in S
  BY <1>1, <1>2
<1>4. ~ (n < 1)
  BY <1>1, <1>2
<1>5. <<x, list[1]>> \notin before
  BY <1>1, <1>2, <1>3, <1>4
<1>6. list[1] = x
  BY <1>3, <1>5
<1> QED  BY <1>3, <1>6 DEF list

(* The indices of a list are a finite set of numbers, and so are some of    *)
(* them.                                                                    *)
LEMMA ListIndices ==
    ASSUME NEW T, NEW list \in Seq(T)
    PROVE  /\ Len(list) \in Nat /\ DOMAIN list = 1 .. Len(list)
           /\ DOMAIN list \subseteq Int
           /\ \A indices \in SUBSET DOMAIN list : IsFiniteSet(indices)
<1>1. Len(list) \in Nat /\ DOMAIN list = 1 .. Len(list) /\ DOMAIN list \subseteq Int
  OBVIOUS
<1>2. \A n \in Nat : IsFiniteSet(1 .. n)
  BY FS_Interval
<1> QED  BY <1>1, <1>2, FS_Subset

(* The first of the retained elements is the one of the least index.        *)
LEMMA FirstRetained ==
    ASSUME NEW T, NEW list \in Seq(T), NEW indices \in SUBSET DOMAIN list
    PROVE  /\ indices = {} => FirstOf(Subsequence(list, indices)) = <<>>
           /\ \A k \in indices :
                 (\A j \in indices : k <= j) =>
                     FirstOf(Subsequence(list, indices)) = <<list[k]>>
<1> DEFINE before == {p \in indices \X indices : p[1] < p[2]}
           kept == InOrder(indices, before)
           sub == Subsequence(list, indices)
<1>1. indices \subseteq Int /\ IsFiniteSet(indices)
  BY ListIndices
<1>2. IsStrictTotalOrder(before, indices)
  <2>1. \A x, y \in indices : <<x, y>> \in before <=> x < y
    OBVIOUS
  <2> HIDE DEF before
  <2> QED  BY <1>1, <2>1 DEF IsStrictTotalOrder
<1>3. sub = [n \in DOMAIN kept |-> list[kept[n]]]
  BY DEF Subsequence
<1>4. sub \in Seq(T)
  BY SubsequenceRetains
<1>5. ASSUME indices = {} PROVE FirstOf(sub) = <<>>
  <2>1. \A n \in DOMAIN sub : \E k \in indices : sub[n] = list[k]
    BY SubsequenceRetains
  <2> HIDE DEF sub
  <2>2. sub = <<>>
    <3>1. \A n \in DOMAIN sub : FALSE
      BY <1>5, <2>1
    <3>2. Len(sub) \in Nat /\ DOMAIN sub = 1 .. Len(sub)
      BY <1>4
    <3>3. Len(sub) = 0
      <4>1. 1 \notin 1 .. Len(sub)
        BY <3>1, <3>2
      <4> QED  BY <3>2, <4>1
    <3> QED  BY <1>4, <3>3
  <2> QED  BY <2>2 DEF FirstOf
<1>6. ASSUME NEW k \in indices, \A j \in indices : k <= j PROVE FirstOf(sub) = <<list[k]>>
  <2>1. \A j \in indices : j = k \/ <<k, j>> \in before
    BY <1>1, <1>6
  <2> HIDE DEF before
  <2>2. 1 \in DOMAIN kept /\ kept[1] = k
    BY <1>1, <1>2, <2>1, FirstInOrder
  <2> HIDE DEF kept
  <2>3. 1 \in DOMAIN sub /\ sub[1] = list[k]
    BY <1>3, <2>2
  <2> HIDE DEF sub
  <2>4. sub # <<>> /\ Head(sub) = list[k]
    BY <1>4, <2>3
  <2> QED  BY <2>4 DEF FirstOf
<1> QED  BY <1>5, <1>6

(* The rank of a priority, known or not.                                    *)
LEMMA RankIsNumber == \A priority : PriorityRank(priority) \in 0 .. 4
BY DEF PriorityRank

(* The tasks of a list are in a strict total order by rank and place.       *)
LEMMA RankIsOrder ==
    ASSUME NEW T, NEW tasks \in Seq(T)
    PROVE  /\ IsFiniteSet(DOMAIN tasks)
           /\ IsStrictTotalOrder(RankOrder(tasks), DOMAIN tasks)
           /\ \A j, k \in DOMAIN tasks :
                 <<j, k>> \in RankOrder(tasks) <=>
                     \/ PriorityRank(tasks[j].priority) > PriorityRank(tasks[k].priority)
                     \/ /\ PriorityRank(tasks[j].priority) = PriorityRank(tasks[k].priority)
                        /\ j < k
<1> DEFINE rank == [k \in DOMAIN tasks |-> PriorityRank(tasks[k].priority)]
<1>1. rank \in [DOMAIN tasks -> Int] /\ DOMAIN tasks \subseteq Int /\ IsFiniteSet(DOMAIN tasks)
  <2>1. \A k \in DOMAIN tasks : PriorityRank(tasks[k].priority) \in Int
    BY RankIsNumber
  <2> QED  BY <2>1, ListIndices
<1>2. \A j, k \in DOMAIN tasks : <<j, k>> \in RankOrder(tasks) <=>
          rank[j] > rank[k] \/ (rank[j] = rank[k] /\ j < k)
  BY DEF RankOrder
<1>3. \A k \in DOMAIN tasks : rank[k] = PriorityRank(tasks[k].priority)
  OBVIOUS
<1> HIDE DEF rank
<1>4. IsStrictTotalOrder(RankOrder(tasks), DOMAIN tasks)
  <2>1. \A k \in DOMAIN tasks : k \in Int /\ rank[k] \in Int
    BY <1>1
  <2>2. \A k \in DOMAIN tasks : <<k, k>> \notin RankOrder(tasks)
    BY <1>2, <2>1
  <2>3. ASSUME NEW j \in DOMAIN tasks, NEW k \in DOMAIN tasks, NEW l \in DOMAIN tasks,
               <<j, k>> \in RankOrder(tasks), <<k, l>> \in RankOrder(tasks)
        PROVE  <<j, l>> \in RankOrder(tasks)
    <3>1. rank[j] > rank[l] \/ (rank[j] = rank[l] /\ j < l)
      BY <1>2, <2>1, <2>3
    <3> QED  BY <1>2, <3>1
  <2>4. ASSUME NEW j \in DOMAIN tasks, NEW k \in DOMAIN tasks
        PROVE  j = k \/ <<j, k>> \in RankOrder(tasks) \/ <<k, j>> \in RankOrder(tasks)
    BY <1>2, <2>1
  <2> QED  BY <2>2, <2>3, <2>4 DEF IsStrictTotalOrder
<1> QED  BY <1>1, <1>2, <1>3, <1>4

(* A list by priority is the list in another order.                         *)
LEMMA ByRankPermutes ==
    ASSUME NEW T, NEW tasks \in Seq(T)
    PROVE  LET order == InOrder(DOMAIN tasks, RankOrder(tasks))
           IN  /\ ByRank(tasks) \in Seq(T)
               /\ DOMAIN ByRank(tasks) = DOMAIN order
               /\ \A n \in DOMAIN order : /\ order[n] \in DOMAIN tasks
                                          /\ ByRank(tasks)[n] = tasks[order[n]]
               /\ \A k \in DOMAIN tasks : \E n \in DOMAIN order : order[n] = k
               /\ \A m, n \in DOMAIN order :
                     <<order[m], order[n]>> \in RankOrder(tasks) <=> m < n
<1> DEFINE order == InOrder(DOMAIN tasks, RankOrder(tasks))
           size == Cardinality(DOMAIN tasks)
           ranked == ByRank(tasks)
<1>1. /\ size \in Nat /\ order \in [1 .. size -> DOMAIN tasks]
      /\ \A k \in DOMAIN tasks : \E n \in DOMAIN order : order[n] = k
      /\ \A m, n \in DOMAIN order : <<order[m], order[n]>> \in RankOrder(tasks) <=> m < n
  BY RankIsOrder, InOrderSorts
<1>2. ranked = [n \in DOMAIN order |-> tasks[order[n]]]
  BY DEF ByRank
<1> HIDE DEF order, size, ranked
<1>3. DOMAIN order = 1 .. size /\ DOMAIN ranked = DOMAIN order
  BY <1>1, <1>2
<1>4. \A n \in DOMAIN order : order[n] \in DOMAIN tasks /\ ranked[n] = tasks[order[n]]
  BY <1>1, <1>2, <1>3
<1>5. \A k \in DOMAIN tasks : tasks[k] \in T
  OBVIOUS
<1>6. ranked \in Seq(T)
  <2>1. ranked \in [1 .. size -> T]
    BY <1>2, <1>3, <1>4, <1>5
  <2> QED  BY <1>1, <2>1
<1> QED  BY <1>1, <1>3, <1>4, <1>6 DEF order, ranked

(* The views of a list are as many, in the same places.                     *)
LEMMA ViewsInPlace ==
    ASSUME NEW T, NEW tasks \in Seq(T)
    PROVE  /\ Views(tasks) \in Seq({SubjectView(t) : t \in T})
           /\ DOMAIN Views(tasks) = DOMAIN tasks
           /\ Len(Views(tasks)) = Len(tasks)
           /\ \A k \in DOMAIN tasks : Views(tasks)[k] = SubjectView(tasks[k])
<1> DEFINE V == {SubjectView(t) : t \in T}
           view == [k \in DOMAIN tasks |-> SubjectView(tasks[k])]
<1>1. DOMAIN tasks = 1 .. Len(tasks) /\ Len(tasks) \in Nat
      /\ \A k \in DOMAIN tasks : tasks[k] \in T
  OBVIOUS
<1>2. \A k \in DOMAIN tasks : SubjectView(tasks[k]) \in V
  BY <1>1
<1>3. Views(tasks) = view
  BY DEF Views
<1> HIDE DEF V
<1>4. view \in [1 .. Len(tasks) -> V]
  BY <1>1, <1>2
<1>5. DOMAIN view = 1 .. Len(tasks) /\ \A k \in DOMAIN tasks : view[k] = SubjectView(tasks[k])
  BY <1>1
<1> HIDE DEF view
<1>6. view \in Seq(V) /\ Len(view) = Len(tasks)
  BY <1>1, <1>4, <1>5
<1> QED  BY <1>1, <1>3, <1>5, <1>6 DEF V

-----------------------------------------------------------------------------
(* next and list_prioritized.                                               *)

(* Of any list, the open task of highest rank is the first open one of the  *)
(* list by rank: filtering before and after the sort comes to the same.     *)
LEMMA FirstOpenByRank ==
    ASSUME NEW T, NEW tasks \in Seq(T), \A k \in DOMAIN tasks : tasks[k].status # NoStatus
    PROVE  LET queue == Views(ByRank(tasks))
               open  == Subsequence(queue, {k \in DOMAIN queue : queue[k].native_status \in Open})
           IN  Views(FirstOf(ByRank(OpenTasks(tasks)))) = FirstOf(open)
<1> DEFINE V == {SubjectView(t) : t \in T}
           ranked == ByRank(tasks)
           order == InOrder(DOMAIN tasks, RankOrder(tasks))
           queue == Views(ranked)
           shown == {k \in DOMAIN queue : queue[k].native_status \in Open}
           wanted == {k \in DOMAIN tasks : tasks[k].status \in Open}
           kept == InOrder(wanted, {p \in wanted \X wanted : p[1] < p[2]})
           size == Cardinality(wanted)
           part == OpenTasks(tasks)
<1>1. /\ ranked \in Seq(T) /\ DOMAIN ranked = DOMAIN order
      /\ \A n \in DOMAIN order : order[n] \in DOMAIN tasks /\ ranked[n] = tasks[order[n]]
      /\ \A k \in DOMAIN tasks : \E n \in DOMAIN order : order[n] = k
      /\ \A m, n \in DOMAIN order : <<order[m], order[n]>> \in RankOrder(tasks) <=> m < n
  BY ByRankPermutes
<1>2. wanted \in SUBSET DOMAIN tasks /\ wanted \subseteq Int /\ IsFiniteSet(wanted)
  <2>1. wanted \in SUBSET DOMAIN tasks
    OBVIOUS
  <2> HIDE DEF wanted
  <2> QED  BY <2>1, ListIndices
<1>3. /\ size \in Nat /\ kept \in [1 .. size -> wanted]
      /\ \A k \in wanted : \E n \in 1 .. size : kept[n] = k
      /\ \A m, n \in 1 .. size : kept[m] < kept[n] <=> m < n
  <2> HIDE DEF wanted
  <2> QED  BY <1>2, IndicesInOrder
<1>4. part = [n \in DOMAIN kept |-> tasks[kept[n]]] /\ part \in Seq(T)
  <2>1. part = Subsequence(tasks, wanted)
    BY DEF OpenTasks
  <2> HIDE DEF part, wanted
  <2> QED  BY <1>2, <2>1, SubsequenceRetains DEF Subsequence
<1>5. \A k \in DOMAIN tasks : SubjectView(tasks[k]).native_status = tasks[k].status
  BY DEF SubjectView
<1> HIDE DEF ranked, order, kept, size, part, V
<1>6. /\ queue \in Seq(V) /\ DOMAIN queue = DOMAIN order
      /\ \A n \in DOMAIN order : queue[n] = SubjectView(tasks[order[n]])
  <2>1. /\ queue \in Seq(V) /\ DOMAIN queue = DOMAIN ranked
        /\ \A n \in DOMAIN ranked : queue[n] = SubjectView(ranked[n])
    BY <1>1, ViewsInPlace DEF V
  <2> HIDE DEF queue
  <2> QED  BY <1>1, <2>1
<1> HIDE DEF queue
<1>7. \A n \in DOMAIN order : n \in shown <=> order[n] \in wanted
  BY <1>1, <1>5, <1>6
<1>8. shown \in SUBSET DOMAIN queue /\ wanted \subseteq DOMAIN tasks
  OBVIOUS
<1> HIDE DEF shown, wanted
<1>9. CASE wanted = {}
  <2>1. shown = {}
    BY <1>6, <1>7, <1>8, <1>9
  <2>2. FirstOf(Subsequence(queue, shown)) = <<>>
    BY <1>6, <1>8, <2>1, FirstRetained
  <2>3. part = <<>>
    <3>1. size = 0
      <4>1. \A n \in 1 .. size : FALSE
        BY <1>3, <1>9
      <4>2. 1 \notin 1 .. size
        BY <4>1
      <4> QED  BY <1>3, <4>2
    <3>2. DOMAIN kept = 1 .. 0
      BY <1>3, <3>1
    <3>3. part = [n \in 1 .. 0 |-> tasks[kept[n]]]
      BY <1>4, <3>2
    <3>4. Len(part) = 0
      BY <1>4, <3>3
    <3> QED  BY <1>4, <3>4
  <2>4. ByRank(part) = <<>>
    <3>1. ByRank(part) \in Seq(T)
      BY <1>4, ByRankPermutes
    <3>2. \A n \in DOMAIN ByRank(part) :
              InOrder(DOMAIN part, RankOrder(part))[n] \in DOMAIN part
      BY <1>4, ByRankPermutes
    <3>3. \A n \in DOMAIN part : FALSE
      BY <2>3
    <3>4. Len(ByRank(part)) \in Nat /\ DOMAIN ByRank(part) = 1 .. Len(ByRank(part))
      BY <3>1
    <3>5. 1 \notin 1 .. Len(ByRank(part))
      BY <3>2, <3>3, <3>4
    <3>6. Len(ByRank(part)) = 0
      BY <3>4, <3>5
    <3> QED  BY <3>1, <3>6
  <2>5. Views(FirstOf(ByRank(part))) = <<>>
    BY <2>4 DEF FirstOf, Views
  <2> QED  BY <2>2, <2>5 DEF part, queue, shown, ranked
<1>10. CASE wanted # {}
  <2>1. PICK j \in shown : \A i \in shown : j <= i
    <3>1. shown # {}
      BY <1>1, <1>7, <1>8, <1>10
    <3>2. shown \subseteq Nat
      BY <1>6, <1>8
    <3> QED  BY <3>1, <3>2, LeastOf
  <2> DEFINE k == order[j]
  <2>2. j \in DOMAIN order /\ k \in wanted /\ k \in DOMAIN tasks
    BY <1>1, <1>6, <1>7, <1>8, <2>1
  <2>3. FirstOf(Subsequence(queue, shown)) = <<SubjectView(tasks[k])>>
    BY <1>6, <1>8, <2>1, <2>2, FirstRetained
  <2>4. ASSUME NEW l \in wanted PROVE l = k \/ <<k, l>> \in RankOrder(tasks)
    <3>1. PICK n \in DOMAIN order : order[n] = l
      BY <1>1, <1>8
    <3>2. n \in shown /\ j <= n /\ j \in Int /\ n \in Int
      BY <1>6, <1>7, <2>1, <2>2, <3>1
    <3>3. j = n \/ j < n
      BY <3>2
    <3> QED  BY <1>1, <2>2, <3>1, <3>3
  <2> HIDE DEF k
  <2>5. PICK m \in 1 .. size : kept[m] = k
    BY <1>3, <2>2
  <2>6. DOMAIN part = 1 .. size /\ \A n \in 1 .. size : part[n] = tasks[kept[n]] /\ kept[n] \in wanted
    BY <1>3, <1>4
  <2>7. ASSUME NEW n \in DOMAIN part PROVE n = m \/ <<m, n>> \in RankOrder(part)
    <3>1. kept[n] = k \/ <<k, kept[n]>> \in RankOrder(tasks)
      BY <2>4, <2>6
    <3>2. kept[n] \in DOMAIN tasks /\ kept[m] < kept[n] <=> m < n
      BY <1>3, <1>8, <2>5, <2>6
    <3>3. CASE kept[n] = k
      <4>1. ~ (kept[m] < kept[n]) /\ ~ (kept[n] < kept[m])
        BY <1>2, <1>3, <2>2, <2>5, <3>3
      <4>2. ~ (m < n) /\ ~ (n < m)
        BY <1>3, <2>5, <2>6, <4>1
      <4> QED  BY <1>3, <2>5, <2>6, <4>2
    <3>4. CASE <<k, kept[n]>> \in RankOrder(tasks)
      <4>1. \/ PriorityRank(tasks[k].priority) > PriorityRank(tasks[kept[n]].priority)
            \/ /\ PriorityRank(tasks[k].priority) = PriorityRank(tasks[kept[n]].priority)
               /\ k < kept[n]
        BY <2>2, <1>8, <2>6, <3>4, RankIsOrder
      <4>2. \/ PriorityRank(part[m].priority) > PriorityRank(part[n].priority)
            \/ PriorityRank(part[m].priority) = PriorityRank(part[n].priority) /\ m < n
        BY <1>3, <2>5, <2>6, <4>1
      <4> QED  BY <1>4, <2>5, <2>6, <4>2, RankIsOrder
    <3> QED  BY <3>1, <3>3, <3>4
  <2>8. 1 \in DOMAIN InOrder(DOMAIN part, RankOrder(part))
        /\ InOrder(DOMAIN part, RankOrder(part))[1] = m
    <3>1. /\ IsFiniteSet(DOMAIN part)
          /\ IsStrictTotalOrder(RankOrder(part), DOMAIN part)
      BY <1>4, RankIsOrder
    <3>2. m \in DOMAIN part
      BY <2>5, <2>6
    <3> QED  BY <2>7, <3>1, <3>2, FirstInOrder
  <2>9. 1 \in DOMAIN ByRank(part) /\ ByRank(part)[1] = tasks[k] /\ ByRank(part) \in Seq(T)
    BY <1>4, <2>5, <2>6, <2>8, ByRankPermutes
  <2>10. FirstOf(ByRank(part)) = <<tasks[k]>>
    <3>1. ByRank(part) # <<>> /\ Head(ByRank(part)) = tasks[k]
      BY <2>9
    <3> QED  BY <3>1 DEF FirstOf
  <2>11. Views(<<tasks[k]>>) = <<SubjectView(tasks[k])>>
    <3> DEFINE t == tasks[k]
    <3> HIDE DEF t
    <3>1. Views(<<t>>) = <<SubjectView(t)>>
      BY DEF Views
    <3> QED  BY <3>1 DEF t
  <2> QED  BY <2>3, <2>10, <2>11 DEF part, queue, shown, ranked
<1> QED  BY <1>9, <1>10

-----------------------------------------------------------------------------
(* The table as a list.                                                     *)

Finite == IsFiniteSet(DOMAIN rows)

RowIds == InOrder(DOMAIN rows, TextOrder(DOMAIN rows))

(* No sequence of commands makes the table infinite.                        *)
THEOREM TableIsFinite == Spec => []Finite
<1>1. Init => Finite
  BY TaskQueueAssumption DEF Init, Finite
<1>2. ASSUME Finite, [Next]_rows PROVE Finite'
  <2>1. ASSUME NEW t, rows' = Put(rows, t) PROVE Finite'
    <3>1. DOMAIN rows' = DOMAIN rows \cup {t.id}
      BY <2>1 DEF Put
    <3>2. IsFiniteSet(DOMAIN rows \cup {t.id})
      BY <1>2, FS_AddElement DEF Finite
    <3> QED  BY <3>1, <3>2 DEF Finite
  <2>2. ASSUME NEW c \in Commands, Create(c) \/ Modify(c) \/ Replace(c) PROVE Finite'
    BY <2>1, <2>2 DEF Create, Modify, Replace
  <2>3. ASSUME NEW c \in Commands, Delete(c) PROVE Finite'
    <3>1. DOMAIN rows' \in SUBSET DOMAIN rows
      BY <2>3 DEF Delete, Drop
    <3> QED  BY <1>2, <3>1, FS_Subset DEF Finite
  <2>4. CASE UNCHANGED rows
    BY <1>2, <2>4 DEF Finite
  <2> QED  BY <1>2, <2>2, <2>3, <2>4 DEF Next
<1> QED  BY <1>1, <1>2, PTL DEF Spec

(* The list of all tasks is every row once, in the order of their ids.      *)
LEMMA ListOfRows ==
    ASSUME Keyed, Finite
    PROVE  /\ ListAll \in Seq({rows[i] : i \in DOMAIN rows})
           /\ Cardinality(DOMAIN rows) \in Nat
           /\ DOMAIN ListAll = 1 .. Cardinality(DOMAIN rows)
           /\ Len(ListAll) = Cardinality(DOMAIN rows)
           /\ RowIds \in [1 .. Cardinality(DOMAIN rows) -> DOMAIN rows]
           /\ \A k \in DOMAIN ListAll : ListAll[k] = rows[RowIds[k]]
           /\ \A i \in DOMAIN rows : \E k \in DOMAIN ListAll : RowIds[k] = i
           /\ \A j, k \in DOMAIN ListAll : TextBefore(RowIds[j], RowIds[k]) <=> j < k
<1> DEFINE size == Cardinality(DOMAIN rows)
           T == {rows[i] : i \in DOMAIN rows}
           ids == RowIds
           all == ListAll
<1>1. IsStrictTotalOrder(TextOrder(DOMAIN rows), DOMAIN rows)
  BY TextIsOrder DEF Keyed, WellKeyed
<1>2. /\ size \in Nat /\ ids \in [1 .. size -> DOMAIN rows]
      /\ \A i \in DOMAIN rows : \E k \in DOMAIN ids : ids[k] = i
      /\ \A j, k \in DOMAIN ids : <<ids[j], ids[k]>> \in TextOrder(DOMAIN rows) <=> j < k
  BY <1>1, InOrderSorts DEF Finite, RowIds
<1>3. all = [k \in DOMAIN ids |-> rows[ids[k]]]
  BY DEF ListAll, RowIds
<1> HIDE DEF size, ids, all
<1>4. DOMAIN ids = 1 .. size /\ DOMAIN all = 1 .. size
  BY <1>2, <1>3
<1>5. \A k \in 1 .. size : ids[k] \in DOMAIN rows /\ all[k] = rows[ids[k]]
  BY <1>2, <1>3, <1>4
<1>6. \A k \in 1 .. size : rows[ids[k]] \in T
  BY <1>5
<1> HIDE DEF T
<1>7. all \in [1 .. size -> T]
  BY <1>3, <1>4, <1>6
<1>8. all \in Seq(T) /\ Len(all) = size
  BY <1>2, <1>7
<1>9. \A j, k \in 1 .. size : TextBefore(ids[j], ids[k]) <=> j < k
  BY <1>2, <1>4, <1>5 DEF TextOrder
<1> QED  BY <1>2, <1>4, <1>5, <1>8, <1>9 DEF T, size, ids, all

(* next answers the first open task of list_prioritized, whatever the table *)
(* holds.                                                                   *)
THEOREM NextIsHeadOfQueue == Spec => []NextHeadsQueue
<1>1. ASSUME Keyed, Finite PROVE NextHeadsQueue
  <2> DEFINE all == ListAll
  <2> SUFFICES ASSUME \A i \in DOMAIN rows : rows[i].status # NoStatus
               PROVE  LET queue == Views(ByRank(all))
                          open  == Subsequence(queue, {k \in DOMAIN queue : queue[k].native_status \in Open})
                      IN  Views(FirstOf(ByRank(OpenTasks(all)))) = FirstOf(open)
    BY DEF NextHeadsQueue, NextTask, ListPrioritized
  <2>1. all \in Seq({rows[i] : i \in DOMAIN rows})
    BY <1>1, ListOfRows
  <2>2. \A k \in DOMAIN all : all[k].status # NoStatus
    <3> HIDE DEF all
    <3>1. \A k \in DOMAIN all : all[k] \in {rows[i] : i \in DOMAIN rows}
      BY <2>1
    <3> QED  BY <3>1
  <2> HIDE DEF all
  <2> QED  BY <2>1, <2>2, FirstOpenByRank
<1> QED  BY <1>1, RowsAreKeyed, TableIsFinite, PTL

(* Of ids of one family and width the smaller number comes first.           *)
LEMMA TextBeforeByNumber ==
    ASSUME NEW x \in Id, NEW y \in Id, TextBefore(x, y),
           x.prefixes = y.prefixes, x.family = y.family, x.width = y.width
    PROVE  x.num < y.num
<1>1. /\ x.width \in Nat /\ y.width \in Nat /\ x.num \in Nat /\ y.num \in Nat
      /\ x.prefixes \in Nat /\ FamilyOrder[x.family] \in Nat
  BY TaskQueueAssumption DEF Id
<1>2. DigitsBefore(x, y)
  BY <1>1 DEF TextBefore
<1>3. Scaled(x, x.width) < Scaled(y, x.width)
  <2>1. /\ Scaled(x, x.width) \in Nat /\ Scaled(y, x.width) \in Nat
        /\ \/ Scaled(x, x.width) < Scaled(y, x.width)
           \/ Scaled(x, x.width) = Scaled(y, x.width) /\ x.width < y.width
    <3>1. x.width <= x.width /\ y.width <= x.width
      BY <1>1
    <3> QED  BY <1>1, <1>2, <3>1, AnyWidth, Zenon
  <2> QED  BY <1>1, <2>1
<1>4. x.width - x.width = 0 /\ x.width - y.width = 0
  BY <1>1
<1>5. Scaled(x, x.width) = x.num * 1 /\ Scaled(y, x.width) = y.num * 1
  BY <1>4, TenToDef DEF Scaled
<1> QED  BY <1>1, <1>3, <1>5

(* list_prioritized is in the order that its answers show, of tables whose  *)
(* ids are bare: of two tasks with known priorities the one shown with the  *)
(* greater comes first, and of two with the same, whose ids are of one      *)
(* family and width, the one with the smaller number.                       *)
THEOREM QueueAlwaysShowsItsOrder == ASSUME BareCallers PROVE Spec => []QueueShowsItsOrder
<1>1. ASSUME Keyed, Finite, Bare, ListedIdsReachable PROVE QueueShowsItsOrder
  <2> DEFINE all == ListAll
             ranked == ByRank(all)
             queue == Views(ranked)
             order == InOrder(DOMAIN all, RankOrder(all))
             At(n) == RowIds[order[n]]
  <2>1. /\ all \in Seq({rows[i] : i \in DOMAIN rows})
        /\ \A k \in DOMAIN all : all[k] = rows[RowIds[k]] /\ RowIds[k] \in DOMAIN rows
        /\ \A j, k \in DOMAIN all : TextBefore(RowIds[j], RowIds[k]) <=> j < k
    BY <1>1, ListOfRows
  <2> HIDE DEF all
  <2>2. /\ ranked \in Seq({rows[i] : i \in DOMAIN rows}) /\ DOMAIN ranked = DOMAIN order
        /\ \A n \in DOMAIN order : order[n] \in DOMAIN all /\ ranked[n] = all[order[n]]
        /\ \A m, n \in DOMAIN order : <<order[m], order[n]>> \in RankOrder(all) <=> m < n
    BY <2>1, ByRankPermutes
  <2> HIDE DEF order, ranked
  <2>3. /\ DOMAIN queue = DOMAIN ranked
        /\ \A n \in DOMAIN ranked : queue[n] = SubjectView(ranked[n])
    BY <2>2, ViewsInPlace
  <2> HIDE DEF queue
  <2>4. \A n \in DOMAIN queue :
            /\ order[n] \in DOMAIN all /\ At(n) \in DOMAIN rows /\ all[order[n]] = rows[At(n)]
            /\ queue[n] = SubjectView(rows[At(n)])
            /\ StripKindPrefix(queue[n].id) = At(n)
    BY <1>1, <2>1, <2>2, <2>3 DEF ListedIdsReachable
  <2>5. \A p : PriorityRank(p) > 0 => PriorityBucket(p) = PriorityRank(p)
    BY DEF PriorityRank, PriorityBucket
  <2>6. \A n \in DOMAIN queue : queue[n].priority = PriorityBucket(rows[At(n)].priority)
    BY <2>4 DEF SubjectView
  <2> SUFFICES ASSUME NEW j \in DOMAIN queue, NEW k \in DOMAIN queue, j < k,
                      KnownPriority(At(j)), KnownPriority(At(k))
               PROVE  /\ queue[j].priority >= queue[k].priority
                      /\ /\ queue[j].priority = queue[k].priority
                         /\ At(j).family = At(k).family /\ At(j).width = At(k).width
                         => At(j).num < At(k).num
    BY <2>4 DEF QueueShowsItsOrder, ListPrioritized, queue, ranked, all
  <2>7. PICK x \in DOMAIN rows, y \in DOMAIN rows : x = At(j) /\ y = At(k)
    BY <2>4
  <2>8. PICK r \in Nat, s \in Nat :
            /\ r = PriorityRank(rows[x].priority) /\ s = PriorityRank(rows[y].priority)
            /\ r = queue[j].priority /\ s = queue[k].priority
    <3>1. PriorityRank(rows[x].priority) > 0 /\ PriorityRank(rows[y].priority) > 0
      BY <2>7 DEF KnownPriority
    <3> QED  BY <2>5, <2>6, <2>7, <3>1, RankIsNumber
  <2>9. <<order[j], order[k]>> \in RankOrder(all)
    BY <2>2, <2>3
  <2>10. r > s \/ (r = s /\ order[j] < order[k])
    <3>1. \/ PriorityRank(all[order[j]].priority) > PriorityRank(all[order[k]].priority)
          \/ /\ PriorityRank(all[order[j]].priority) = PriorityRank(all[order[k]].priority)
             /\ order[j] < order[k]
      BY <2>1, <2>4, <2>9, RankIsOrder
    <3> QED  BY <2>4, <2>7, <2>8, <3>1
  <2>11. ASSUME r = s, x.family = y.family, x.width = y.width PROVE x.num < y.num
    <3>1. order[j] < order[k]
      BY <2>8, <2>10, <2>11
    <3>2. TextBefore(x, y)
      BY <2>1, <2>4, <2>7, <3>1
    <3>3. x \in Id /\ y \in Id /\ x.prefixes = 0 /\ y.prefixes = 0
      BY <1>1 DEF Keyed, WellKeyed, Bare
    <3> QED  BY <2>11, <3>2, <3>3, TextBeforeByNumber
  <2> QED  BY <2>7, <2>8, <2>10, <2>11
<1> QED  BY <1>1, RowsAreKeyed, TableIsFinite, IdsStayBare, ListedIdsAreReachable, PTL

-----------------------------------------------------------------------------
(* The two dialects.                                                        *)

(* Filtering the views of a list by index is viewing what is left of it.    *)
LEMMA ViewsOfPart ==
    ASSUME NEW T, NEW tasks \in Seq(T), NEW indices \in SUBSET DOMAIN tasks
    PROVE  Subsequence(Views(tasks), indices) = Views(Subsequence(tasks, indices))
<1> DEFINE kept == InOrder(indices, {p \in indices \X indices : p[1] < p[2]})
           size == Cardinality(indices)
           sub == Subsequence(tasks, indices)
<1>1. indices \subseteq Int /\ IsFiniteSet(indices)
  BY ListIndices
<1>2. size \in Nat /\ kept \in [1 .. size -> indices]
  BY <1>1, IndicesInOrder
<1>3. /\ sub = [n \in DOMAIN kept |-> tasks[kept[n]]]
      /\ Subsequence(Views(tasks), indices) = [n \in DOMAIN kept |-> Views(tasks)[kept[n]]]
  BY DEF Subsequence
<1> HIDE DEF kept, size, sub
<1>4. \A n \in DOMAIN kept : kept[n] \in DOMAIN tasks
  BY <1>2
<1>5. \A n \in DOMAIN kept : Views(tasks)[kept[n]] = SubjectView(tasks[kept[n]])
  BY <1>4, ViewsInPlace
<1>6. Views(sub) = [n \in DOMAIN kept |-> SubjectView(tasks[kept[n]])]
  BY <1>3 DEF Views
<1> QED  BY <1>3, <1>5, <1>6 DEF sub

(* Cutting the views of a list is viewing what is cut off it.               *)
LEMMA ViewsOfLimited ==
    ASSUME NEW T, NEW tasks \in Seq(T),
           NEW params, "limit" \in DOMAIN params => params["limit"] \in Nat
    PROVE  Limited(Views(tasks), params) = Views(Limited(tasks, params))
<1>1. PICK n \in Nat : /\ n <= Len(tasks)
                       /\ n = IF "limit" \in DOMAIN params /\ params["limit"] < Len(tasks)
                              THEN params["limit"] ELSE Len(tasks)
  <2>1. Len(tasks) \in Nat
    OBVIOUS
  <2> QED  BY <2>1
<1>2. Limited(tasks, params) = SubSeq(tasks, 1, n)
  BY <1>1 DEF Limited
<1>3. Limited(Views(tasks), params) = SubSeq(Views(tasks), 1, n)
  <2>1. Len(Views(tasks)) = Len(tasks)
    BY ViewsInPlace
  <2> QED  BY <1>1, <2>1 DEF Limited
<1> DEFINE V == {SubjectView(t) : t \in T}
           views == Views(tasks)
<1>4. views \in Seq(V) /\ Len(views) = Len(tasks)
      /\ \A k \in DOMAIN tasks : views[k] = SubjectView(tasks[k])
  BY ViewsInPlace
<1> HIDE DEF V, views
<1>5. SubSeq(tasks, 1, n) = [k \in 1 .. n |-> tasks[k]]
  BY <1>1
<1>6. SubSeq(views, 1, n) = [k \in 1 .. n |-> views[k]]
  BY <1>1, <1>4
<1>7. \A k \in 1 .. n : views[k] = SubjectView(tasks[k])
  BY <1>1, <1>4
<1>8. Views(SubSeq(tasks, 1, n)) = [k \in 1 .. n |-> SubjectView(tasks[k])]
  <2>1. Views([k \in 1 .. n |-> tasks[k]]) = [k \in 1 .. n |-> SubjectView(tasks[k])]
    BY DEF Views
  <2> QED  BY <1>5, <2>1
<1> QED  BY <1>2, <1>3, <1>6, <1>7, <1>8 DEF views

(* task/list and subject/list by native status answer the same.             *)
THEOREM DialectsAlwaysAgree == Spec => []DialectsAgree
<1>1. ASSUME Keyed, Finite PROVE DialectsAgree
  <2> SUFFICES ASSUME NEW s \in {rows[i].status : i \in DOMAIN rows}, NEW n \in 0 .. MaxRows,
                      \A i \in DOMAIN rows : Decodable(rows[i]) /\ rows[i].status # NoStatus
               PROVE  SubjectList([native_status |-> s, limit |-> n]).subjects
                          = List([shorthand |-> s, limit |-> n])
    BY DEF DialectsAgree
  <2> DEFINE filter == [native_status |-> s, limit |-> n]
             params == [shorthand |-> s, limit |-> n]
             T == {rows[i] : i \in DOMAIN rows}
             all == ListAll
             shown == Views(all)
             wanted == {k \in DOMAIN all : all[k].status = s}
  <2>1. all \in Seq(T) /\ \A k \in DOMAIN all : all[k].status # NoStatus
    <3>1. all \in Seq(T)
      BY <1>1, ListOfRows
    <3> HIDE DEF all
    <3>2. \A k \in DOMAIN all : all[k] \in T
      BY <3>1
    <3> QED  BY <3>1, <3>2
  <2> HIDE DEF T, all
  <2>2. /\ shown \in Seq({SubjectView(t) : t \in T}) /\ DOMAIN shown = DOMAIN all
        /\ \A k \in DOMAIN all : shown[k] = SubjectView(all[k])
    BY <2>1, ViewsInPlace
  <2> HIDE DEF shown
  <2>3. {k \in DOMAIN shown : Keeps(filter, shown[k])} = wanted
    <3>1. \A v : Keeps(filter, v) <=> v.native_status = s
      BY DEF Keeps
    <3>2. \A k \in DOMAIN all : shown[k].native_status = all[k].status
      BY <2>1, <2>2 DEF SubjectView
    <3> QED  BY <2>2, <3>1, <3>2
  <2>4. SubjectList(filter).subjects = Limited(Subsequence(shown, wanted), filter)
    <3>1. SubjectFilter(filter) = filter
      BY DEF SubjectFilter
    <3>2. DOMAIN filter \cap NeverEmitted = {}
      BY DEF NeverEmitted
    <3> HIDE DEF filter, wanted
    <3>3. SubjectList(filter) = [kind |-> "list", subjects |-> Limited(Subsequence(shown, wanted), filter)]
      BY <2>3, <3>1, <3>2 DEF SubjectList, shown, all
    <3> QED  BY <3>3
  <2>5. List(params) = Views(Limited(Subsequence(all, wanted), params))
    <3>1. FirstStatus(params) = <<s>>
      BY DEF FirstStatus
    <3>2. Wanted(all, <<s>>) = wanted
      BY DEF Wanted
    <3> HIDE DEF params, wanted
    <3> QED  BY <3>1, <3>2 DEF List, all
  <2>6. Limited(Subsequence(all, wanted), params) = Limited(Subsequence(all, wanted), filter)
    BY DEF Limited
  <2>7. wanted \in SUBSET DOMAIN all
    OBVIOUS
  <2>8. "limit" \in DOMAIN filter => filter["limit"] \in Nat
    OBVIOUS
  <2> HIDE DEF wanted, filter, params
  <2>9. Subsequence(all, wanted) \in Seq(T)
    BY <2>1, <2>7, SubsequenceRetains
  <2>10. Subsequence(shown, wanted) = Views(Subsequence(all, wanted))
    BY <2>1, <2>7, ViewsOfPart DEF shown
  <2>11. Limited(Views(Subsequence(all, wanted)), filter) = Views(Limited(Subsequence(all, wanted), filter))
    BY <2>8, <2>9, ViewsOfLimited
  <2> QED  BY <2>4, <2>5, <2>6, <2>10, <2>11 DEF filter, params
<1> QED  BY <1>1, RowsAreKeyed, TableIsFinite, PTL

-----------------------------------------------------------------------------
(* statistics.                                                              *)

(* What is retained of a list is as long as there are indices retained.     *)
LEMMA PartLength ==
    ASSUME NEW T, NEW list \in Seq(T), NEW indices \in SUBSET DOMAIN list
    PROVE  Len(Subsequence(list, indices)) = Cardinality(indices)
<1> DEFINE kept == InOrder(indices, {p \in indices \X indices : p[1] < p[2]})
           size == Cardinality(indices)
           sub == Subsequence(list, indices)
<1>1. indices \subseteq Int /\ IsFiniteSet(indices)
  BY ListIndices
<1>2. size \in Nat /\ kept \in [1 .. size -> indices]
  BY <1>1, IndicesInOrder
<1>3. sub = [n \in DOMAIN kept |-> list[kept[n]]]
  BY DEF Subsequence
<1>4. sub \in Seq(T)
  BY SubsequenceRetains
<1> HIDE DEF kept, size, sub
<1>5. DOMAIN sub = 1 .. size
  BY <1>2, <1>3
<1>6. Len(sub) = size
  BY <1>2, <1>4, <1>5
<1> QED  BY <1>6 DEF size, sub

(* The places of some rows in the list of all are as many as the rows.      *)
LEMMA PlacesOfRows ==
    ASSUME Keyed, Finite, NEW some \in SUBSET DOMAIN rows
    PROVE  Cardinality({k \in DOMAIN ListAll : RowIds[k] \in some}) = Cardinality(some)
<1> DEFINE size == Cardinality(DOMAIN rows)
           places == {k \in 1 .. size : RowIds[k] \in some}
           place == [k \in places |-> RowIds[k]]
<1>1. /\ size \in Nat /\ DOMAIN ListAll = 1 .. size
      /\ RowIds \in [1 .. size -> DOMAIN rows]
      /\ \A i \in DOMAIN rows : \E k \in 1 .. size : RowIds[k] = i
      /\ \A j, k \in 1 .. size : TextBefore(RowIds[j], RowIds[k]) <=> j < k
  BY ListOfRows
<1>2. IsFiniteSet(places)
  <2>1. IsFiniteSet(1 .. size)
    <3>1. \A n \in Nat : IsFiniteSet(1 .. n)
      BY FS_Interval
    <3> HIDE DEF size
    <3> QED  BY <1>1, <3>1
  <2> QED  BY <2>1, FS_Subset
<1> HIDE DEF size
<1>3. \A j, k \in 1 .. size : RowIds[j] = RowIds[k] => j = k
  <2> SUFFICES ASSUME NEW j \in 1 .. size, NEW k \in 1 .. size, RowIds[j] = RowIds[k]
               PROVE  j = k
    OBVIOUS
  <2>1. /\ TextBefore(RowIds[j], RowIds[k]) <=> j < k
        /\ TextBefore(RowIds[k], RowIds[j]) <=> k < j
        /\ TextBefore(RowIds[j], RowIds[j]) <=> j < j
    BY <1>1, Zenon
  <2>2. ~ (j < k) /\ ~ (k < j)
    BY <2>1
  <2> QED  BY <1>1, <2>2
<1>4. place \in [places -> some] /\ \A k \in places : place[k] = RowIds[k]
  OBVIOUS
<1> HIDE DEF place
<1>5. place \in Injection(places, some)
  BY <1>3, <1>4 DEF Injection, IsInjective
<1>6. \A i \in some : \E k \in places : place[k] = i
  BY <1>1, <1>4
<1>7. place \in Bijection(places, some)
  BY <1>4, <1>5, <1>6 DEF Bijection, Surjection
<1> HIDE DEF places
<1>8. Cardinality(some) = Cardinality(places)
  BY <1>2, <1>7, FS_Bijection DEF ExistsBijection
<1> QED  BY <1>1, <1>8 DEF places

(* An unlimited subject/list is as long as there are rows its filter keeps. *)
LEMMA ShownLength ==
    ASSUME Keyed, Finite, \A i \in DOMAIN rows : Decodable(rows[i]),
           NEW filter, SubjectFilter(filter) = filter,
           (NeverEmitted \cup {"limit"}) \cap DOMAIN filter = {}
    PROVE  Len(SubjectList(filter).subjects)
               = Cardinality({i \in DOMAIN rows : Keeps(filter, SubjectView(rows[i]))})
<1> DEFINE T == {rows[i] : i \in DOMAIN rows}
           V == {SubjectView(t) : t \in T}
           all == ListAll
           shown == Views(all)
           some == {i \in DOMAIN rows : Keeps(filter, SubjectView(rows[i]))}
           wanted == {k \in DOMAIN shown : Keeps(filter, shown[k])}
           part == Subsequence(shown, wanted)
<1>1. /\ all \in Seq(T)
      /\ \A k \in DOMAIN all : all[k] = rows[RowIds[k]] /\ RowIds[k] \in DOMAIN rows
  BY ListOfRows
<1> HIDE DEF T, all
<1>2. /\ shown \in Seq(V) /\ DOMAIN shown = DOMAIN all
      /\ \A k \in DOMAIN all : shown[k] = SubjectView(all[k])
  BY <1>1, ViewsInPlace
<1> HIDE DEF V, shown
<1>3. wanted = {k \in DOMAIN all : RowIds[k] \in some}
  BY <1>1, <1>2
<1>4. Cardinality(wanted) = Cardinality(some)
  <2>1. some \in SUBSET DOMAIN rows
    OBVIOUS
  <2> HIDE DEF some, wanted
  <2> QED  BY <1>3, <2>1, PlacesOfRows DEF all
<1>5. wanted \in SUBSET DOMAIN shown
  OBVIOUS
<1>6. SubjectList(filter) = [kind |-> "list", subjects |-> Limited(part, filter)]
  BY DEF SubjectList, shown, all
<1> HIDE DEF wanted, some
<1>7. part \in Seq(V) /\ Len(part) = Cardinality(wanted)
  BY <1>2, <1>5, PartLength, SubsequenceRetains
<1> HIDE DEF part
<1>8. Limited(part, filter) = part
  <2>1. Limited(part, filter) = SubSeq(part, 1, Len(part))
    BY DEF Limited
  <2> QED  BY <1>7, <2>1
<1> QED  BY <1>4, <1>6, <1>7, <1>8 DEF some

(* By status and by native status, that is as many as show it.              *)
LEMMA ShownByStatus ==
    ASSUME Keyed, Finite, \A i \in DOMAIN rows : Decodable(rows[i])
    PROVE  /\ \A s \in ProtocolStatuses :
                  Len(SubjectList([status |-> <<s>>]).subjects)
                      = Cardinality({i \in DOMAIN rows : SubjectView(rows[i]).status = s})
           /\ \A s :
                  Len(SubjectList([native_status |-> s]).subjects)
                      = Cardinality({i \in DOMAIN rows : SubjectView(rows[i]).native_status = s})
<1>1. ASSUME NEW s \in ProtocolStatuses
      PROVE  Len(SubjectList([status |-> <<s>>]).subjects)
                 = Cardinality({i \in DOMAIN rows : SubjectView(rows[i]).status = s})
  <2> DEFINE filter == [status |-> <<s>>]
  <2>1. SubjectFilter(filter) = filter
    <3>1. ToSet(<<s>>) \subseteq ProtocolStatuses
      BY DEF ToSet
    <3> QED  BY <3>1 DEF SubjectFilter
  <2>2. (NeverEmitted \cup {"limit"}) \cap DOMAIN filter = {}
    BY DEF NeverEmitted
  <2>3. \A v : Keeps(filter, v) <=> v.status = s
    <3>1. \A x : Contains(<<s>>, x) <=> x = s
      BY DEF Contains
    <3>2. <<s>> # <<>>
      OBVIOUS
    <3> QED  BY <3>1, <3>2 DEF Keeps
  <2> HIDE DEF filter
  <2>4. {i \in DOMAIN rows : Keeps(filter, SubjectView(rows[i]))}
            = {i \in DOMAIN rows : SubjectView(rows[i]).status = s}
    BY <2>3
  <2> QED  BY <2>1, <2>2, <2>4, ShownLength DEF filter
<1>2. ASSUME NEW s
      PROVE  Len(SubjectList([native_status |-> s]).subjects)
                 = Cardinality({i \in DOMAIN rows : SubjectView(rows[i]).native_status = s})
  <2> DEFINE filter == [native_status |-> s]
  <2>1. SubjectFilter(filter) = filter
    BY DEF SubjectFilter
  <2>2. (NeverEmitted \cup {"limit"}) \cap DOMAIN filter = {}
    BY DEF NeverEmitted
  <2>3. \A v : Keeps(filter, v) <=> v.native_status = s
    BY DEF Keeps
  <2> HIDE DEF filter
  <2>4. {i \in DOMAIN rows : Keeps(filter, SubjectView(rows[i]))}
            = {i \in DOMAIN rows : SubjectView(rows[i]).native_status = s}
    BY <2>3
  <2> QED  BY <2>1, <2>2, <2>4, ShownLength DEF filter
<1> QED  BY <1>1, <1>2

(* The unfiltered task/list is as long as the table.                        *)
LEMMA ListIsWhole ==
    ASSUME Keyed, Finite
    PROVE  Len(List(<<>>)) = Cardinality(DOMAIN rows)
<1> DEFINE T == {rows[i] : i \in DOMAIN rows}
           size == Cardinality(DOMAIN rows)
           all == ListAll
           part == Subsequence(all, DOMAIN all)
<1>1. all \in Seq(T) /\ size \in Nat /\ DOMAIN all = 1 .. size
  BY ListOfRows
<1> HIDE DEF T, all, size
<1>2. {"shorthand", "status", "limit"} \cap DOMAIN << >> = {}
  <2>1. DOMAIN << >> = 1 .. 0
    BY SMT
  <2>2. {"shorthand", "status", "limit"} \cap 1 .. 0 = {}
    BY SMT
  <2> QED  BY <2>1, <2>2
<1>3. FirstStatus(<<>>) = <<>>
  BY <1>2 DEF FirstStatus
<1>4. Wanted(all, <<>>) = DOMAIN all
  BY DEF Wanted
<1>5. part \in Seq(T) /\ Len(part) = Cardinality(DOMAIN all)
  BY <1>1, PartLength, SubsequenceRetains
<1>6. Cardinality(DOMAIN all) = size
  <2>1. \A n \in Nat : Cardinality(1 .. n) = n
    <3>1. \A a, b \in Int : Cardinality(a .. b) = IF a > b THEN 0 ELSE b - a + 1
      BY FS_Interval
    <3> QED  BY <3>1
  <2> QED  BY <1>1, <2>1
<1> HIDE DEF part
<1>7. Limited(part, <<>>) = SubSeq(part, 1, Len(part))
  BY <1>2 DEF Limited
<1>8. Limited(part, <<>>) = part
  BY <1>5, <1>7
<1>9. List(<<>>) = Views(part)
  BY <1>3, <1>4, <1>8 DEF List, all, part
<1>10. Len(Views(part)) = Len(part)
  BY <1>5, ViewsInPlace
<1> QED  BY <1>5, <1>6, <1>9, <1>10 DEF size

(* The numbers of task/statistics are the lengths of the lists.             *)
THEOREM StatisticsAlwaysMatch == Spec => []StatisticsMatchLists
<1>1. ASSUME Keyed, Finite PROVE StatisticsMatchLists
  <2> DEFINE Shown(s) == Len(SubjectList([status |-> <<s>>]).subjects)
             With(s) == {i \in DOMAIN rows : SubjectView(rows[i]).status = s}
             Native(i) == SubjectView(rows[i]).native_status
  <2> SUFFICES ASSUME \A i \in DOMAIN rows : Decodable(rows[i])
               PROVE  /\ Statistics.total = Len(List(<<>>))
                      /\ Statistics.in_progress = Shown("in-progress")
                      /\ Statistics.blocked = Shown("blocked")
                      /\ Statistics.completed = Shown("done") + Shown("cancelled")
                      /\ \A s \in DOMAIN Statistics.by_status :
                            Statistics.by_status[s] = Len(SubjectList([native_status |-> s]).subjects)
    BY DEF StatisticsMatchLists
  <2>1. \A s \in ProtocolStatuses : Shown(s) = Cardinality(With(s))
    BY <1>1, ShownByStatus
  <2>2. \A i \in DOMAIN rows : SubjectView(rows[i]).status = NormalizeStatus(Native(i))
    BY DEF SubjectView
  <2>3. Statistics.total = Len(List(<<>>))
    BY <1>1, ListIsWhole DEF Statistics
  <2>4. Statistics.in_progress = Shown("in-progress")
    <3>1. With("in-progress") = {i \in DOMAIN rows : Native(i) \in {"in-progress", "in_progress"}}
      BY <2>2 DEF NormalizeStatus, Finished
    <3>2. Statistics.in_progress
              = Cardinality({i \in DOMAIN rows : Native(i) \in {"in-progress", "in_progress"}})
      BY DEF Statistics, Count
    <3> HIDE DEF Shown, With
    <3> QED  BY <2>1, <3>1, <3>2 DEF ProtocolStatuses
  <2>5. Statistics.blocked = Shown("blocked")
    <3>1. With("blocked") = {i \in DOMAIN rows : Native(i) = "blocked"}
      BY <2>2 DEF NormalizeStatus, Finished
    <3>2. Statistics.blocked = Cardinality({i \in DOMAIN rows : Native(i) = "blocked"})
      BY DEF Statistics, Count
    <3> HIDE DEF Shown, With
    <3> QED  BY <2>1, <3>1, <3>2 DEF ProtocolStatuses
  <2>6. Statistics.completed = Shown("done") + Shown("cancelled")
    <3>1. {i \in DOMAIN rows : Native(i) \in Finished \cup {"cancelled"}}
              = With("done") \cup With("cancelled")
      BY <2>2 DEF NormalizeStatus, Finished
    <3>2. Statistics.completed
              = Cardinality({i \in DOMAIN rows : Native(i) \in Finished \cup {"cancelled"}})
      BY DEF Statistics, Count
    <3>3. With("done") \cap With("cancelled") = {}
      OBVIOUS
    <3>4. With("done") \in SUBSET DOMAIN rows /\ With("cancelled") \in SUBSET DOMAIN rows
      OBVIOUS
    <3> HIDE DEF Shown, With
    <3>5. IsFiniteSet(With("done")) /\ IsFiniteSet(With("cancelled"))
      BY <1>1, <3>4, FS_Subset DEF Finite
    <3>6. /\ Cardinality(With("done")) \in Nat /\ Cardinality(With("cancelled")) \in Nat
          /\ Cardinality({}) = 0
      BY <3>5, FS_CardinalityType, FS_EmptySet
    <3>7. Cardinality(With("done") \cup With("cancelled"))
              = Cardinality(With("done")) + Cardinality(With("cancelled")) - 0
      BY <3>3, <3>5, <3>6, FS_Union
    <3>8. Shown("done") = Cardinality(With("done")) /\ Shown("cancelled") = Cardinality(With("cancelled"))
      BY <2>1 DEF ProtocolStatuses
    <3>9. Statistics.completed = Cardinality(With("done") \cup With("cancelled"))
      BY <3>1, <3>2
    <3>10. \A m, n \in Nat : m + n - 0 = m + n
      OBVIOUS
    <3> QED  BY <3>6, <3>7, <3>8, <3>9, <3>10
  <2>7. ASSUME NEW s \in DOMAIN Statistics.by_status
        PROVE  Statistics.by_status[s] = Len(SubjectList([native_status |-> s]).subjects)
    <3> DEFINE natives == {Native(i) : i \in DOMAIN rows}
               Number(v) == Cardinality({i \in DOMAIN rows : Native(i) = v})
    <3>1. Statistics.by_status = [v \in natives |-> Number(v)]
      BY DEF Statistics, Tally
    <3>2. Number(s) = Len(SubjectList([native_status |-> s]).subjects)
      BY <1>1, ShownByStatus
    <3> HIDE DEF natives, Number
    <3> QED  BY <2>7, <3>1, <3>2
  <2> QED  BY <2>3, <2>4, <2>5, <2>6, <2>7
<1> QED  BY <1>1, RowsAreKeyed, TableIsFinite, PTL

=============================================================================
