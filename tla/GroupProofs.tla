------------------------------ MODULE GroupProofs ------------------------------
(***************************************************************************)
(* The groups of a page of transactions.  The recursive function of        *)
(* ToGroupViews cuts the page: cut k is where the k-th group begins, and   *)
(* the last cut is behind the page.  What is to be shown of the groups     *)
(* follows from the cuts.                                                  *)
(***************************************************************************)
EXTENDS ListingProofs, SequenceTheorems

-----------------------------------------------------------------------------
(* Induction upwards and downwards; Good is the set of the numbers of      *)
(* which the fact holds.                                                   *)

LEMMA Upwards ==
    ASSUME NEW n \in Nat, NEW a \in Nat, NEW Good, a \in Good,
           \A k \in a .. n : k < n /\ k \in Good => k + 1 \in Good
    PROVE  \A k \in a .. n : k \in Good
<1> DEFINE Bad == {k \in a .. n : k \notin Good}
<1>1. IsFiniteSet(Bad) /\ Bad \subseteq Nat
  <2>1. IsFiniteSet(a .. n) /\ Bad \subseteq a .. n
    BY FS_Interval
  <2> QED
    BY <2>1, FS_Subset
<1>2. ASSUME Bad # {} PROVE FALSE
  <2>1. Min(Bad) \in Bad /\ \A k \in Bad : Min(Bad) <= k
    <3> HIDE DEF Bad
    <3> QED
      BY <1>1, <1>2, MinFound
  <2> DEFINE m == Min(Bad)
  <2>2. m \in a .. n /\ m \notin Good /\ \A k \in a .. n : k \notin Good => m <= k
    BY <2>1
  <2> HIDE DEF m
  <2>3. m - 1 \in a .. n /\ m - 1 < n /\ m - 1 \in Good
    BY <2>2
  <2> QED
    BY <2>2, <2>3
<1> QED
  BY <1>2

LEMMA Downwards ==
    ASSUME NEW n \in Nat, NEW a \in Nat, NEW Good,
           \A k \in a .. n : (\A j \in a .. n : j > k => j \in Good) => k \in Good
    PROVE  \A k \in a .. n : k \in Good
<1> DEFINE Bad == {k \in a .. n : k \notin Good}
<1>1. IsFiniteSet(Bad) /\ Bad \subseteq Nat
  <2>1. IsFiniteSet(a .. n) /\ Bad \subseteq a .. n
    BY FS_Interval
  <2> QED
    BY <2>1, FS_Subset
<1>2. ASSUME Bad # {} PROVE FALSE
  <2>1. Max(Bad) \in Bad /\ \A k \in Bad : Max(Bad) >= k
    <3> HIDE DEF Bad
    <3> QED
      BY <1>1, <1>2, MaxFound
  <2> DEFINE m == Max(Bad)
  <2>2. m \in a .. n /\ m \notin Good /\ \A k \in a .. n : k \notin Good => m >= k
    BY <2>1
  <2> HIDE DEF m
  <2> QED
    BY <2>2
<1> QED
  BY <1>2

-----------------------------------------------------------------------------
(***************************************************************************)
(* Chains: g[i] is the sequence of the items at i, next[i], next[next[i]]  *)
(* and so on up to the end.                                                *)
(***************************************************************************)
IsChain(n, next, item, g) ==
    g = [i \in 1 .. n + 1 |-> IF i > n THEN <<>> ELSE <<item[i]>> \o g[next[i]]]

Advances(n, next) == \A i \in 1 .. n : next[i] \in i + 1 .. n + 1

LEMMA ChainExists ==
    ASSUME NEW n \in Nat, NEW next, NEW item, Advances(n, next)
    PROVE  \E g : IsChain(n, next, item, g)
<1> DEFINE Part(k, g) ==
             g = [i \in k .. n + 1 |-> IF i > n THEN <<>> ELSE <<item[i]>> \o g[next[i]]]
           Good == {k \in 1 .. n + 1 : \E g : Part(k, g)}
<1>1. ASSUME NEW k \in 1 .. n + 1, \A j \in 1 .. n + 1 : j > k => j \in Good
      PROVE  k \in Good
  <2>1. CASE k = n + 1
    <3> DEFINE g == [i \in k .. n + 1 |-> <<>>]
    <3>1. Part(k, g)
      BY <2>1
    <3> HIDE DEF g
    <3> QED
      BY <3>1
  <2>2. CASE k # n + 1
    <3>1. k + 1 \in 1 .. n + 1 /\ k + 1 > k /\ k \in 1 .. n
      BY <2>2
    <3>2. k + 1 \in Good
      BY <1>1, <3>1
    <3> HIDE DEF Part
    <3>3. PICK g : Part(k + 1, g)
      BY <3>2
    <3> DEFINE h == [i \in k .. n + 1 |->
                       IF i = k THEN <<item[k]>> \o g[next[k]] ELSE g[i]]
    <3>4. \A i \in k + 1 .. n + 1 :
            g[i] = IF i > n THEN <<>> ELSE <<item[i]>> \o g[next[i]]
      BY <3>3 DEF Part
    <3>5. \A i \in k .. n : next[i] \in i + 1 .. n + 1
      BY DEF Advances
    <3>6. \A i \in k + 1 .. n + 1 : h[i] = g[i]
      BY <3>1
    <3>7. \A i \in k .. n : h[next[i]] = g[next[i]]
      <4> HIDE DEF h
      <4> QED
        BY <3>1, <3>5, <3>6
    <3>8. h = [i \in k .. n + 1 |-> h[i]] /\ h[k] = <<item[k]>> \o g[next[k]]
      BY <3>1
    <3> HIDE DEF h
    <3>9. ASSUME NEW i \in k .. n + 1
          PROVE  h[i] = IF i > n THEN <<>> ELSE <<item[i]>> \o h[next[i]]
      <4>1. CASE i = k
        <5>1. k \in k .. n /\ ~(k > n)
          BY <3>1
        <5>2. h[next[k]] = g[next[k]]
          BY <3>7, <5>1
        <5> QED
          BY <3>8, <4>1, <5>1, <5>2
      <4>2. CASE i # k
        <5>1. i \in k + 1 .. n + 1
          BY <4>2
        <5> QED
          BY <3>4, <3>6, <3>7, <5>1
      <4> QED
        BY <4>1, <4>2
    <3>10. Part(k, h)
      BY <3>8, <3>9 DEF Part
    <3> QED
      BY <3>10
  <2> QED
    BY <2>1, <2>2
<1>2. \A k \in 1 .. n + 1 : k \in Good
  <2> HIDE DEF Good
  <2>1. n + 1 \in Nat /\ 1 \in Nat
    OBVIOUS
  <2> QED
    BY <1>1, <2>1, Downwards
<1>3. 1 \in Good
  <2>1. 1 \in 1 .. n + 1
    OBVIOUS
  <2> HIDE DEF Good
  <2> QED
    BY <1>2, <2>1
<1> QED
  BY <1>3 DEF IsChain

(* Where the items of a chain from a to the end are. *)
Cuts(n, next, a, m, cut) ==
    /\ m \in Nat /\ cut \in [1 .. m + 1 -> a .. n + 1]
    /\ cut[1] = a /\ cut[m + 1] = n + 1
    /\ \A k \in 1 .. m : cut[k] <= n /\ cut[k + 1] = next[cut[k]]

Items(item, m, cut) == [k \in 1 .. m |-> item[cut[k]]]

LEMMA ChainIsCut ==
    ASSUME NEW n \in Nat, NEW next, NEW item, NEW g, Advances(n, next),
           IsChain(n, next, item, g)
    PROVE  \E m, cut : Cuts(n, next, 1, m, cut) /\ g[1] = Items(item, m, cut)
<1> DEFINE Shown(a, m, cut) == /\ Cuts(n, next, a, m, cut)
                               /\ g[a] = Items(item, m, cut)
           Good == {a \in 1 .. n + 1 : \E m, cut : Shown(a, m, cut)}
<1>1. ASSUME NEW a \in 1 .. n + 1, \A b \in 1 .. n + 1 : b > a => b \in Good
      PROVE  a \in Good
  <2>1. g[a] = IF a > n THEN <<>> ELSE <<item[a]>> \o g[next[a]]
    BY DEF IsChain
  <2>2. CASE a = n + 1
    <3> DEFINE cut == [k \in 1 .. 1 |-> n + 1]
    <3>1. Shown(a, 0, cut)
      <4>1. Cuts(n, next, a, 0, cut)
        BY <2>2 DEF Cuts
      <4>2. g[a] = <<>> /\ <<>> = [k \in 1 .. 0 |-> item[cut[k]]]
        BY <2>1, <2>2
      <4> QED
        BY <4>1, <4>2 DEF Items
    <3> HIDE DEF Shown, cut
    <3> QED
      BY <3>1
  <2>3. CASE a # n + 1
    <3>1. a \in 1 .. n /\ next[a] \in a + 1 .. n + 1
      BY <2>3 DEF Advances
    <3> DEFINE b == next[a]
    <3>2. b \in Good
      <4>1. b \in 1 .. n + 1 /\ b > a
        BY <3>1
      <4> HIDE DEF Good, b
      <4> QED
        BY <1>1, <4>1
    <3>3. PICK m, cut : Shown(b, m, cut)
      <4> HIDE DEF Shown
      <4> QED
        BY <3>2
    <3> DEFINE longer == [k \in 1 .. m + 2 |-> IF k = 1 THEN a ELSE cut[k - 1]]
    <3>4. /\ m \in Nat /\ cut \in [1 .. m + 1 -> b .. n + 1]
          /\ cut[1] = b /\ cut[m + 1] = n + 1
          /\ \A k \in 1 .. m : cut[k] <= n /\ cut[k + 1] = next[cut[k]]
      BY <3>3 DEF Cuts
    <3>5. longer[1] = a /\ \A k \in 2 .. m + 2 : longer[k] = cut[k - 1]
      BY <3>4
    <3>6. longer \in [1 .. m + 2 -> a .. n + 1]
      BY <3>1, <3>4
    <3>7. (m + 1) + 1 = m + 2 /\ m + 1 \in Nat
      BY <3>4
    <3>8. Cuts(n, next, a, m + 1, longer)
      <4> HIDE DEF longer
      <4>1. ASSUME NEW k \in 1 .. m + 1 PROVE longer[k] <= n /\ longer[k + 1] = next[longer[k]]
        <5>1. CASE k = 1
          <6>1. longer[2] = cut[1] /\ 1 + 1 = 2
            BY <3>4, <3>5
          <6> QED
            BY <3>1, <3>4, <3>5, <5>1, <6>1
        <5>2. CASE k # 1
          <6>1. k - 1 \in 1 .. m /\ k \in 2 .. m + 2 /\ k + 1 \in 2 .. m + 2 /\ (k + 1) - 1 = k
                /\ (k - 1) + 1 = k
            BY <3>4, <5>2
          <6>2. longer[k] = cut[k - 1] /\ longer[k + 1] = cut[k]
            BY <3>5, <6>1
          <6>3. cut[k - 1] <= n /\ cut[k] = next[cut[k - 1]]
            BY <3>4, <6>1
          <6> QED
            BY <6>2, <6>3
        <5> QED
          BY <5>1, <5>2
      <4>2. longer[m + 2] = cut[m + 1]
        <5>1. m + 2 \in 2 .. m + 2 /\ (m + 2) - 1 = m + 1
          BY <3>4
        <5> QED
          BY <3>5, <5>1
      <4> QED
        BY <3>4, <3>5, <3>6, <3>7, <4>1, <4>2 DEF Cuts
    <3>9. g[a] = [k \in 1 .. m + 1 |-> item[longer[k]]]
      <4> DEFINE S == {item[i] : i \in 1 .. n}
                 rest == [k \in 1 .. m |-> item[cut[k]]]
                 all == [k \in 1 .. m + 1 |-> item[longer[k]]]
      <4>1. g[b] = rest /\ g[a] = <<item[a]>> \o g[b]
        <5>1. g[b] = rest
          BY <3>3 DEF Items
        <5>2. ~(a > n)
          BY <3>1
        <5> QED
          BY <2>1, <5>1, <5>2
      <4>2. \A k \in 1 .. m : cut[k] \in 1 .. n
        BY <3>1, <3>4
      <4>3. rest \in Seq(S) /\ Len(rest) = m /\ <<item[a]>> \in Seq(S)
        <5>1. \A k \in 1 .. m : item[cut[k]] \in S
          BY <4>2
        <5>2. item[a] \in S
          BY <3>1
        <5> HIDE DEF S
        <5> QED
          BY <3>4, <5>1, <5>2
      <4>4. \A k \in 1 .. m + 1 : item[longer[k]] = IF k = 1 THEN item[a] ELSE item[cut[k - 1]]
        <5>1. \A k \in 1 .. m + 1 : k # 1 => k \in 2 .. m + 2
          BY <3>4
        <5> HIDE DEF longer
        <5> QED
          BY <3>5, <5>1
      <4>5. /\ <<item[a]>> \o rest \in Seq(S)
            /\ Len(<<item[a]>> \o rest) = 1 + m
            /\ \A k \in 1 .. 1 + m : (<<item[a]>> \o rest)[k] =
                  IF k <= 1 THEN <<item[a]>>[k] ELSE rest[k - 1]
        <5>1. Len(<<item[a]>>) = 1
          OBVIOUS
        <5> HIDE DEF S, rest
        <5> QED
          BY <4>3, <5>1, ConcatProperties
      <4>6. \A k \in 2 .. 1 + m : rest[k - 1] = item[cut[k - 1]]
        BY <3>4
      <4>7. \A k \in 1 .. m + 1 : (<<item[a]>> \o rest)[k] = item[longer[k]]
        <5> HIDE DEF rest, longer
        <5>1. ASSUME NEW k \in 1 .. m + 1 PROVE (<<item[a]>> \o rest)[k] = item[longer[k]]
          <6>1. CASE k = 1
            BY <3>4, <4>4, <4>5, <6>1
          <6>2. CASE k # 1
            <7>1. k \in 2 .. 1 + m /\ k \in 1 .. 1 + m /\ ~(k <= 1)
              BY <3>4, <6>2
            <7>2. (<<item[a]>> \o rest)[k] = rest[k - 1]
              BY <4>5, <7>1
            <7> QED
              BY <4>4, <4>6, <6>2, <7>1, <7>2
          <6> QED
            BY <6>1, <6>2
        <5> QED
          BY <5>1
      <4>8. <<item[a]>> \o rest = [k \in 1 .. m + 1 |-> (<<item[a]>> \o rest)[k]]
        <5> HIDE DEF rest, S
        <5> QED
          BY <3>4, <4>5
      <4> HIDE DEF rest, longer
      <4> QED
        BY <4>1, <4>7, <4>8
    <3>10. Shown(a, m + 1, longer)
      BY <3>8, <3>9 DEF Items
    <3> HIDE DEF Shown, longer
    <3> QED
      BY <3>10
  <2> QED
    BY <2>2, <2>3
<1>2. \A a \in 1 .. n + 1 : a \in Good
  <2> HIDE DEF Good
  <2>1. n + 1 \in Nat /\ 1 \in Nat
    OBVIOUS
  <2> QED
    BY <1>1, <2>1, Downwards
<1>3. 1 \in Good
  <2>1. 1 \in 1 .. n + 1
    OBVIOUS
  <2> HIDE DEF Good
  <2> QED
    BY <1>2, <2>1
<1> QED
  BY <1>3
-----------------------------------------------------------------------------
(***************************************************************************)
(* Partitions of 1 .. n into the intervals between m + 1 cuts              *)
(***************************************************************************)
IsPartition(n, m, cut) ==
    /\ n \in Nat /\ m \in Nat /\ cut \in [1 .. m + 1 -> 1 .. n + 1]
    /\ cut[1] = 1 /\ cut[m + 1] = n + 1
    /\ \A k \in 1 .. m : cut[k] < cut[k + 1]

LEMMA CutsRise ==
    ASSUME NEW n, NEW m, NEW cut, IsPartition(n, m, cut),
           NEW j \in 1 .. m + 1, NEW k \in 1 .. m + 1, j <= k
    PROVE  cut[j] <= cut[k]
<1> DEFINE Good == {h \in j .. m + 1 : cut[j] <= cut[h]}
<1>1. /\ m \in Nat /\ m + 1 \in Nat /\ j \in Nat
      /\ \A h \in 1 .. m + 1 : cut[h] \in Nat
      /\ \A h \in 1 .. m : cut[h] < cut[h + 1]
  BY DEF IsPartition
<1>2. j \in Good
  BY <1>1
<1>3. ASSUME NEW h \in j .. m + 1, h < m + 1, h \in Good PROVE h + 1 \in Good
  <2>1. h \in 1 .. m /\ h + 1 \in j .. m + 1 /\ h + 1 \in 1 .. m + 1 /\ h \in 1 .. m + 1
    BY <1>1, <1>3
  <2>2. cut[h] < cut[h + 1] /\ cut[j] <= cut[h]
    BY <1>1, <1>3, <2>1
  <2>3. cut[j] \in Nat /\ cut[h] \in Nat /\ cut[h + 1] \in Nat
    BY <1>1, <2>1
  <2> QED
    BY <2>1, <2>2, <2>3
<1>4. \A h \in j .. m + 1 : h \in Good
  <2> HIDE DEF Good
  <2> QED
    BY <1>1, <1>2, <1>3, Upwards
<1> QED
  BY <1>1, <1>4

(* The interval i is in. *)
LEMMA PartFound ==
    ASSUME NEW n, NEW m, NEW cut, IsPartition(n, m, cut), NEW i \in 1 .. n,
           NEW found, found = {h \in 1 .. m : cut[h + 1] - 1 >= i}
    PROVE  /\ Min(found) \in 1 .. m
           /\ \A h \in 1 .. m : Min(found) = h <=> cut[h] <= i /\ i < cut[h + 1]
<1>1. /\ n \in Nat /\ m \in Nat /\ cut[1] = 1 /\ cut[m + 1] = n + 1
      /\ \A h \in 1 .. m + 1 : cut[h] \in Nat
  BY DEF IsPartition
<1>2. m \in found
  <2>1. m # 0
    BY <1>1
  <2> QED
    BY <1>1, <2>1
<1>3. IsFiniteSet(found) /\ found \subseteq Nat
  <2>1. IsFiniteSet(1 .. m)
    BY <1>1, FS_Interval
  <2>2. found \in SUBSET (1 .. m)
    OBVIOUS
  <2>3. 1 .. m \subseteq Nat
    BY <1>1
  <2>4. IsFiniteSet(found)
    BY <2>1, <2>2, FS_Subset
  <2> QED
    BY <2>2, <2>3, <2>4
<1>4. Min(found) \in found /\ \A h \in found : Min(found) <= h
  BY <1>2, <1>3, MinFound
<1> DEFINE g == Min(found)
<1>5. g \in 1 .. m /\ cut[g + 1] - 1 >= i
      /\ \A h \in 1 .. m : cut[h + 1] - 1 >= i => g <= h
  BY <1>4
<1> HIDE DEF g
<1>6. cut[g] <= i
  <2>1. CASE g = 1
    BY <1>1, <2>1
  <2>2. CASE g # 1
    <3>1. g - 1 \in 1 .. m /\ (g - 1) + 1 = g /\ g \in 1 .. m + 1
      BY <1>1, <1>5, <2>2
    <3>2. ~(cut[g] - 1 >= i)
      BY <1>5, <3>1
    <3> QED
      BY <1>1, <3>1, <3>2
  <2> QED
    BY <2>1, <2>2
<1>7. i < cut[g + 1]
  BY <1>1, <1>5
<1>8. ASSUME NEW h \in 1 .. m, cut[h] <= i, i < cut[h + 1] PROVE g = h
  <2>1. g <= h
    BY <1>1, <1>5, <1>8
  <2>2. CASE g < h
    <3>1. g + 1 \in 1 .. m + 1 /\ h \in 1 .. m + 1 /\ g + 1 <= h
      BY <1>1, <1>5, <2>2
    <3>2. cut[g + 1] <= cut[h]
      BY <3>1, CutsRise
    <3> QED
      BY <1>1, <1>7, <1>8, <3>1, <3>2
  <2> QED
    BY <1>5, <2>1, <2>2
<1> QED
  BY <1>5, <1>6, <1>7, <1>8 DEF g

(* Every i in an interval is one of 1 .. n. *)
LEMMA PartWithin ==
    ASSUME NEW n, NEW m, NEW cut, IsPartition(n, m, cut), NEW h \in 1 .. m
    PROVE  /\ cut[h] \in 1 .. n /\ cut[h + 1] \in 2 .. n + 1 /\ cut[h] < cut[h + 1]
           /\ cut[h] .. cut[h + 1] - 1 \subseteq 1 .. n
<1>1. /\ n \in Nat /\ m \in Nat /\ \A k \in 1 .. m + 1 : cut[k] \in 1 .. n + 1
      /\ cut[h] < cut[h + 1]
  BY DEF IsPartition
<1>2. h \in 1 .. m + 1 /\ h + 1 \in 1 .. m + 1
  BY <1>1
<1>3. cut[h] \in 1 .. n + 1 /\ cut[h + 1] \in 1 .. n + 1
  BY <1>1, <1>2
<1> QED
  BY <1>1, <1>3

LEMMA LengthsSum ==
    ASSUME NEW n, NEW m, NEW cut, IsPartition(n, m, cut),
           NEW sizes, \A h \in 1 .. m : sizes[h] = cut[h + 1] - cut[h],
           NEW k \in 1 .. m
    PROVE  SumFunctionOnSet(sizes, 1 .. k) = cut[k + 1] - 1
<1> DEFINE Good == {h \in 0 .. m : SumFunctionOnSet(sizes, 1 .. h) = cut[h + 1] - 1}
<1>1. /\ m \in Nat /\ cut[1] = 1 /\ \A h \in 1 .. m + 1 : cut[h] \in Nat
  BY DEF IsPartition
<1>2. 0 \in Good
  <2>1. 1 .. 0 = {} /\ 0 + 1 = 1 /\ 0 \in 0 .. m
    BY <1>1
  <2> QED
    BY <1>1, <2>1, SumEmpty
<1>3. ASSUME NEW h \in 0 .. m, h < m, h \in Good PROVE h + 1 \in Good
  <2>1. /\ h + 1 \in 1 .. m /\ h + 1 \in 0 .. m /\ h + 1 \in 1 .. m + 1
        /\ (h + 1) + 1 \in 1 .. m + 1 /\ h + 1 \in 1 .. h + 1
        /\ (1 .. h + 1) \ {h + 1} = 1 .. h
    BY <1>1, <1>3
  <2>2. IsFiniteSet(1 .. h + 1)
    BY <2>1, FS_Interval
  <2>3. \A x \in 1 .. h + 1 : sizes[x] \in Int
    <3>1. \A x \in 1 .. h + 1 : x \in 1 .. m /\ x \in 1 .. m + 1 /\ x + 1 \in 1 .. m + 1
      BY <1>1, <1>3
    <3> QED
      BY <1>1, <3>1
  <2>4. SumFunctionOnSet(sizes, 1 .. h + 1)
          = sizes[h + 1] + SumFunctionOnSet(sizes, (1 .. h + 1) \ {h + 1})
    BY <2>1, <2>2, <2>3, SumElement
  <2>5. SumFunctionOnSet(sizes, 1 .. h) = cut[h + 1] - 1
    BY <1>3
  <2>6. sizes[h + 1] = cut[(h + 1) + 1] - cut[h + 1]
    BY <2>1
  <2>7. cut[h + 1] \in Nat /\ cut[(h + 1) + 1] \in Nat
    BY <1>1, <2>1
  <2>8. SumFunctionOnSet(sizes, 1 .. h + 1)
          = (cut[(h + 1) + 1] - cut[h + 1]) + (cut[h + 1] - 1)
    BY <2>1, <2>4, <2>5, <2>6
  <2>9. (cut[(h + 1) + 1] - cut[h + 1]) + (cut[h + 1] - 1) = cut[(h + 1) + 1] - 1
    BY <2>7
  <2> QED
    BY <2>1, <2>8, <2>9
<1>4. \A h \in 0 .. m : h \in Good
  <2> HIDE DEF Good
  <2> QED
    BY <1>1, <1>2, <1>3, Upwards
<1> QED
  BY <1>1, <1>4

(* A sum does not depend on where its numbers are. *)
LEMMA SumShifted ==
    ASSUME NEW len \in Nat, NEW b \in Nat, NEW f, NEW h,
           \A j \in 1 .. len : f[j] = h[b + j - 1] /\ f[j] \in Int
    PROVE  SumFunctionOnSet(f, 1 .. len) = SumFunctionOnSet(h, b .. b + len - 1)
<1> DEFINE Good == {k \in 0 .. len :
             SumFunctionOnSet(f, 1 .. k) = SumFunctionOnSet(h, b .. b + k - 1)}
<1>1. 0 \in Good
  <2>1. 1 .. 0 = {} /\ b .. b + 0 - 1 = {}
    OBVIOUS
  <2> QED
    BY <2>1, SumEmpty
<1>2. ASSUME NEW k \in 0 .. len, k < len, k \in Good PROVE k + 1 \in Good
  <2> DEFINE S == 1 .. k + 1
             T == b .. b + (k + 1) - 1
  <2>1. /\ k + 1 \in 0 .. len /\ k + 1 \in S /\ b + (k + 1) - 1 \in T
        /\ S \ {k + 1} = 1 .. k /\ T \ {b + (k + 1) - 1} = b .. b + k - 1
    BY <1>2
  <2>2. IsFiniteSet(S) /\ IsFiniteSet(T)
    BY FS_Interval
  <2>3. \A x \in S : f[x] \in Int
    BY <1>2
  <2>4. \A x \in T : h[x] \in Int
    <3>1. ASSUME NEW x \in T PROVE h[x] \in Int
      <4>1. x - b + 1 \in 1 .. len /\ b + (x - b + 1) - 1 = x
        BY <1>2
      <4> QED
        BY <4>1
    <3> QED
      BY <3>1
  <2> HIDE DEF S, T
  <2>5. SumFunctionOnSet(f, S) = f[k + 1] + SumFunctionOnSet(f, S \ {k + 1})
    BY <2>1, <2>2, <2>3, SumElement
  <2> DEFINE last == b + (k + 1) - 1
  <2>6. SumFunctionOnSet(h, T) = h[last] + SumFunctionOnSet(h, T \ {last})
    <3>1. last \in T
      BY <2>1
    <3> HIDE DEF last
    <3> QED
      BY <2>2, <2>4, <3>1, SumElement
  <2>7. f[k + 1] = h[b + (k + 1) - 1]
    BY <1>2
  <2>8. SumFunctionOnSet(f, 1 .. k) = SumFunctionOnSet(h, b .. b + k - 1)
    BY <1>2
  <2> QED
    BY <2>1, <2>5, <2>6, <2>7, <2>8 DEF S, T
<1>3. \A k \in 0 .. len : k \in Good
  <2> HIDE DEF Good
  <2> QED
    BY <1>1, <1>2, Upwards
<1>4. len \in Good
  <2> HIDE DEF Good
  <2> QED
    BY <1>3
<1> QED
  BY <1>4

(* The parts of a sequence, one after the other, are the sequence. *)
Flattens(parts, g) ==
    g = [i \in 1 .. Len(parts) |-> IF i = 1 THEN parts[i] ELSE g[i - 1] \o parts[i]]

LEMMA FlattenIsChosen ==
    ASSUME NEW parts, Len(parts) # 0
    PROVE  FlattenSeq(parts) = (CHOOSE g : Flattens(parts, g))[Len(parts)]
BY DEF FlattenSeq, Flattens

Begin(whole, k) == [i \in 1 .. k |-> whole[i]]

Slice(whole, a, c) == [j \in 1 .. c |-> whole[a + j]]

LEMMA BeginExtends ==
    ASSUME NEW whole, NEW a \in Nat, NEW c \in Nat
    PROVE  Begin(whole, a) \o Slice(whole, a, c) = Begin(whole, a + c)
<1> DEFINE part == Slice(whole, a, c)
           S == {whole[i] : i \in 1 .. a + c}
<1>1. \A i \in 1 .. a + c : whole[i] \in S
  OBVIOUS
<1>2. \A j \in 1 .. c : a + j \in 1 .. a + c
  OBVIOUS
<1> HIDE DEF S
<1>3. Begin(whole, a) \in Seq(S) /\ Len(Begin(whole, a)) = a
  BY <1>1 DEF Begin
<1>a. part = [j \in 1 .. c |-> whole[a + j]]
  BY DEF Slice
<1> HIDE DEF part
<1>4. part \in Seq(S) /\ Len(part) = c
  BY <1>1, <1>2, <1>a
<1> DEFINE both == Begin(whole, a) \o part
<1>5. /\ both \in Seq(S) /\ Len(both) = a + c
      /\ \A i \in 1 .. a + c :
            both[i] = IF i <= a THEN Begin(whole, a)[i] ELSE part[i - a]
  <2> DEFINE begin == Begin(whole, a)
  <2>1. begin \in Seq(S) /\ Len(begin) = a
    BY <1>3
  <2> HIDE DEF begin
  <2>2. /\ begin \o part \in Seq(S) /\ Len(begin \o part) = Len(begin) + Len(part)
        /\ \A i \in 1 .. Len(begin) + Len(part) :
              (begin \o part)[i] = IF i <= Len(begin) THEN begin[i] ELSE part[i - Len(begin)]
    BY <1>4, <2>1, ConcatProperties
  <2> QED
    BY <1>4, <2>1, <2>2 DEF begin
<1> HIDE DEF both
<1>6. ASSUME NEW i \in 1 .. a + c PROVE both[i] = whole[i]
  <2>1. CASE i <= a
    BY <1>5, <2>1 DEF Begin
  <2>2. CASE ~(i <= a)
    <3>1. i - a \in 1 .. c /\ a + (i - a) = i
      BY <2>2
    <3> QED
      BY <1>5, <1>a, <2>2, <3>1
  <2> QED
    BY <2>1, <2>2
<1>7. both = [i \in 1 .. a + c |-> both[i]]
  BY <1>5
<1>8. both = Begin(whole, a + c)
  BY <1>6, <1>7 DEF Begin
<1> QED
  BY <1>8 DEF both, part

LEMMA PartsFlattened ==
    ASSUME NEW n, NEW m, NEW cut, IsPartition(n, m, cut), NEW whole, NEW parts,
           whole = Begin(whole, n),
           parts = [h \in 1 .. m |-> Slice(whole, cut[h] - 1, cut[h + 1] - cut[h])]
    PROVE  FlattenSeq(parts) = whole
<1>1. /\ n \in Nat /\ m \in Nat /\ cut[1] = 1 /\ cut[m + 1] = n + 1
      /\ \A h \in 1 .. m + 1 : cut[h] \in 1 .. n + 1
      /\ \A h \in 1 .. m : cut[h] < cut[h + 1]
  BY DEF IsPartition
<1>2. Len(parts) = m
  <2>1. DOMAIN parts = 1 .. m /\ parts = [h \in 1 .. m |-> parts[h]]
    OBVIOUS
  <2> QED
    BY <1>1, <2>1, SeqOfLength
<1> DEFINE Upto(k) == Begin(whole, cut[k + 1] - 1)
<1>3. ASSUME NEW k \in 1 .. m
      PROVE  /\ k = 1 => parts[k] = Upto(k)
             /\ k # 1 => Upto(k - 1) \o parts[k] = Upto(k)
  <2> DEFINE a == cut[k] - 1
             c == cut[k + 1] - cut[k]
  <2>1. cut[k] \in 1 .. n /\ cut[k + 1] \in 2 .. n + 1 /\ cut[k] < cut[k + 1]
    BY PartWithin
  <2>2. a \in Nat /\ c \in Nat /\ a + c = cut[k + 1] - 1
    <3>1. n \in Nat
      BY <1>1
    <3> QED
      BY <2>1, <3>1
  <2>3. parts[k] = Slice(whole, a, c)
    OBVIOUS
  <2>4. Begin(whole, a) \o parts[k] = Begin(whole, a + c)
    <3> HIDE DEF a, c
    <3> QED
      BY <2>2, <2>3, BeginExtends
  <2>5. CASE k = 1
    <3>1. a = 0
      BY <1>1, <2>5
    <3>2. parts[k] = [j \in 1 .. c |-> whole[j]]
      <4>1. \A j \in 1 .. c : a + j = j
        BY <3>1
      <4> HIDE DEF a, c
      <4> QED
        BY <2>3, <4>1 DEF Slice
    <3>3. c = cut[k + 1] - 1
      BY <2>2, <3>1
    <3> HIDE DEF c
    <3> QED
      BY <2>5, <3>2, <3>3 DEF Begin
  <2>6. CASE k # 1
    <3>1. (k - 1) + 1 = k
      OBVIOUS
    <3> QED
      BY <2>2, <2>4, <2>6, <3>1
  <2> QED
    BY <2>5, <2>6
<1>4. CASE m = 0
  <2>1. n = 0
    BY <1>1, <1>4
  <2>2. FlattenSeq(parts) = parts
    BY <1>2, <1>4 DEF FlattenSeq
  <2>3. DOMAIN parts = {} /\ DOMAIN whole = {} /\ whole = [i \in {} |-> whole[i]]
    <3>1. 1 .. 0 = {}
      OBVIOUS
    <3> QED
      BY <1>4, <2>1, <3>1 DEF Begin
  <2>4. parts = [h \in {} |-> parts[h]]
    BY <2>3
  <2>5. parts = whole
    BY <2>3, <2>4
  <2> QED
    BY <2>2, <2>5
<1>5. CASE m # 0
  <2> DEFINE g == CHOOSE f : Flattens(parts, f)
             w == [k \in 1 .. m |-> Upto(k)]
  <2>1. Flattens(parts, w)
    <3>1. ASSUME NEW k \in 1 .. m
          PROVE  Upto(k) = IF k = 1 THEN parts[k] ELSE w[k - 1] \o parts[k]
      <4>1. CASE k = 1
        BY <1>3, <4>1
      <4>2. CASE k # 1
        <5>1. k - 1 \in 1 .. m
          BY <1>1, <4>2
        <5>2. w[k - 1] = Upto(k - 1)
          BY <5>1
        <5> HIDE DEF w, Upto
        <5> QED
          BY <1>3, <4>2, <5>2
      <4> QED
        BY <4>1, <4>2
    <3>2. w = [k \in 1 .. m |-> IF k = 1 THEN parts[k] ELSE w[k - 1] \o parts[k]]
      <4>1. w = [k \in 1 .. m |-> w[k]] /\ \A k \in 1 .. m : w[k] = Upto(k)
        OBVIOUS
      <4> HIDE DEF w, Upto
      <4>2. \A k \in 1 .. m : w[k] = IF k = 1 THEN parts[k] ELSE w[k - 1] \o parts[k]
        BY <3>1, <4>1
      <4> QED
        BY <4>1, <4>2
    <3> HIDE DEF w
    <3> QED
      BY <1>2, <3>2 DEF Flattens
  <2>2. Flattens(parts, g)
    <3> HIDE DEF w
    <3> QED
      BY <2>1
  <2> HIDE DEF g
  <2>3. \A k \in 1 .. m : g[k] = IF k = 1 THEN parts[k] ELSE g[k - 1] \o parts[k]
    BY <1>2, <2>2 DEF Flattens
  <2> DEFINE Good == {k \in 1 .. m : g[k] = Upto(k)}
  <2>4. 1 \in Good
    <3>1. 1 \in 1 .. m
      BY <1>1, <1>5
    <3> QED
      BY <1>3, <2>3, <3>1
  <2>5. ASSUME NEW k \in 1 .. m, k < m, k \in Good PROVE k + 1 \in Good
    <3>1. k + 1 \in 1 .. m /\ k + 1 # 1 /\ (k + 1) - 1 = k
      BY <1>1, <2>5
    <3>2. g[k] = Upto(k)
      BY <2>5
    <3>3. g[k + 1] = g[k] \o parts[k + 1]
      BY <2>3, <3>1
    <3>4. Upto((k + 1) - 1) \o parts[k + 1] = Upto(k + 1)
      <4> HIDE DEF Upto
      <4> QED
        BY <1>3, <3>1
    <3> HIDE DEF Upto
    <3>5. g[k + 1] = Upto(k + 1)
      BY <3>1, <3>2, <3>3, <3>4
    <3> QED
      BY <3>1, <3>5
  <2>6. \A k \in 1 .. m : k \in Good
    <3> HIDE DEF Good
    <3> QED
      BY <1>1, <2>4, <2>5, Upwards
  <2>7. g[m] = Upto(m)
    <3>1. m \in 1 .. m
      BY <1>1, <1>5
    <3> HIDE DEF Upto
    <3> QED
      BY <2>6, <3>1
  <2>8. Upto(m) = whole
    BY <1>1
  <2>9. FlattenSeq(parts) = g[m]
    BY <1>2, <1>5, FlattenIsChosen DEF g
  <2> QED
    BY <2>7, <2>8, <2>9
<1> QED
  BY <1>4, <1>5
-----------------------------------------------------------------------------
(* Where a group ends *)

LEMMA NextGroupFound ==
    ASSUME NEW txs, NEW n \in Nat, Len(txs) = n, NEW i \in 1 .. n, NEW zone
    PROVE  /\ NextGroup(txs, i, zone) \in i + 1 .. n + 1
           /\ \A j \in i + 1 .. NextGroup(txs, i, zone) - 1 : ~OutOfGroup(txs[j], txs[i], zone)
           /\ NextGroup(txs, i, zone) <= n =>
                 OutOfGroup(txs[NextGroup(txs, i, zone)], txs[i], zone)
<1> DEFINE out == {j \in i + 1 .. n : OutOfGroup(txs[j], txs[i], zone)}
           ends == out \cup {n + 1}
<1>1. NextGroup(txs, i, zone) = Min(ends)
  BY DEF NextGroup
<1>2. IsFiniteSet(ends)
  <2>1. IsFiniteSet(i + 1 .. n + 1)
    BY FS_Interval
  <2>2. ends \in SUBSET (i + 1 .. n + 1)
    OBVIOUS
  <2> HIDE DEF ends
  <2> QED
    BY <2>1, <2>2, FS_Subset
<1>3. ends \subseteq Nat /\ ends # {} /\ ends \subseteq i + 1 .. n + 1
  OBVIOUS
<1>4. Min(ends) \in ends /\ \A j \in ends : Min(ends) <= j
  <2> HIDE DEF ends
  <2> QED
    BY <1>2, <1>3, MinFound
<1> DEFINE e == Min(ends)
<1>5. e \in i + 1 .. n + 1 /\ (e <= n => OutOfGroup(txs[e], txs[i], zone))
  BY <1>4
<1>6. ASSUME NEW j \in i + 1 .. e - 1 PROVE ~OutOfGroup(txs[j], txs[i], zone)
  <2>1. j \in i + 1 .. n /\ ~(e <= j)
    BY <1>5
  <2> QED
    BY <1>4, <2>1
<1> HIDE DEF e
<1> QED
  BY <1>1, <1>5, <1>6 DEF e

(* The recursive function of ToGroupViews. *)
GroupsFrom(txs, phone, rates, zone, g) ==
    g = [i \in 1 .. Len(txs) + 1 |->
            IF i > Len(txs) THEN <<>>
            ELSE <<GroupFrom(txs, i, phone, rates, zone)>> \o g[NextGroup(txs, i, zone)]]

LEMMA GroupsAreChosen ==
    ASSUME NEW txs, NEW phone, NEW rates, NEW zone
    PROVE  ToGroupViews(txs, phone, rates, zone)
             = (CHOOSE g : GroupsFrom(txs, phone, rates, zone, g))[1]
BY DEF ToGroupViews, GroupsFrom

GroupsAt(txs, m, cut, phone, rates, zone) ==
    [k \in 1 .. m |-> GroupFrom(txs, cut[k], phone, rates, zone)]

IsCutInto(txs, phone, rates, zone, m, cut) ==
    /\ IsPartition(Len(txs), m, cut)
    /\ \A k \in 1 .. m : cut[k + 1] = NextGroup(txs, cut[k], zone)
    /\ ToGroupViews(txs, phone, rates, zone) = GroupsAt(txs, m, cut, phone, rates, zone)

(* The groups of a page are those between its cuts. *)
LEMMA GroupsCut ==
    ASSUME NEW txs, Len(txs) \in Nat, NEW phone, NEW rates, NEW zone
    PROVE  \E m, cut : IsCutInto(txs, phone, rates, zone, m, cut)
<1> DEFINE n == Len(txs)
<1> HIDE DEF n
<1>0. n \in Nat /\ Len(txs) = n
  BY DEF n
<1> DEFINE next == [i \in 1 .. n |-> NextGroup(txs, i, zone)]
           item == [i \in 1 .. n |-> GroupFrom(txs, i, phone, rates, zone)]
<1>1. /\ \A i \in 1 .. n : next[i] = NextGroup(txs, i, zone)
      /\ \A i \in 1 .. n : item[i] = GroupFrom(txs, i, phone, rates, zone)
  OBVIOUS
<1> HIDE DEF next, item
<1>2. Advances(n, next)
  BY <1>0, <1>1, NextGroupFound DEF Advances
<1>3. ASSUME NEW g PROVE GroupsFrom(txs, phone, rates, zone, g) <=> IsChain(n, next, item, g)
  <2> DEFINE one == [i \in 1 .. n + 1 |-> IF i > n THEN <<>> ELSE <<item[i]>> \o g[next[i]]]
             two == [i \in 1 .. n + 1 |->
                       IF i > n THEN <<>>
                       ELSE <<GroupFrom(txs, i, phone, rates, zone)>> \o
                                g[NextGroup(txs, i, zone)]]
  <2>1. \A i \in 1 .. n + 1 : i > n \/ i \in 1 .. n
    BY <1>0
  <2>2. one = two
    BY <1>1, <2>1
  <2> QED
    BY <1>0, <2>2 DEF GroupsFrom, IsChain
<1> DEFINE g == CHOOSE f : GroupsFrom(txs, phone, rates, zone, f)
<1>4. IsChain(n, next, item, g)
  <2>1. PICK f : IsChain(n, next, item, f)
    BY <1>0, <1>2, ChainExists
  <2>2. GroupsFrom(txs, phone, rates, zone, f)
    BY <1>3, <2>1
  <2>3. GroupsFrom(txs, phone, rates, zone, g)
    BY <2>2
  <2> HIDE DEF g
  <2> QED
    BY <1>3, <2>3
<1>5. ToGroupViews(txs, phone, rates, zone) = g[1]
  BY GroupsAreChosen
<1> HIDE DEF g
<1>6. PICK m, cut : Cuts(n, next, 1, m, cut) /\ g[1] = Items(item, m, cut)
  BY <1>0, <1>2, <1>4, ChainIsCut
<1>7. /\ m \in Nat /\ cut \in [1 .. m + 1 -> 1 .. n + 1]
      /\ cut[1] = 1 /\ cut[m + 1] = n + 1
      /\ \A k \in 1 .. m : cut[k] <= n /\ cut[k + 1] = next[cut[k]]
  BY <1>6 DEF Cuts
<1>8. ASSUME NEW k \in 1 .. m
      PROVE  /\ cut[k] \in 1 .. n /\ cut[k] < cut[k + 1]
             /\ cut[k + 1] = NextGroup(txs, cut[k], zone)
             /\ item[cut[k]] = GroupFrom(txs, cut[k], phone, rates, zone)
  <2>1. k \in 1 .. m + 1
    BY <1>7
  <2>2. cut[k] \in 1 .. n + 1 /\ cut[k] <= n
    BY <1>7, <2>1
  <2>3. cut[k] \in 1 .. n
    BY <2>2
  <2>4. next[cut[k]] \in cut[k] + 1 .. n + 1
    BY <1>2, <2>3 DEF Advances
  <2> QED
    BY <1>1, <1>7, <2>3, <2>4
<1>9. IsPartition(n, m, cut)
  BY <1>0, <1>7, <1>8 DEF IsPartition
<1>10. ToGroupViews(txs, phone, rates, zone) = GroupsAt(txs, m, cut, phone, rates, zone)
  BY <1>5, <1>6, <1>8 DEF Items, GroupsAt
<1> QED
  BY <1>0, <1>8, <1>9, <1>10 DEF IsCutInto

-----------------------------------------------------------------------------
(* What is in a group *)

MovedIn(txs, f, len, phone, rates) ==
    [j \in 1 .. len |-> FiatMoved(txs[f + j - 1], phone, rates)]

LEMMA GroupIs ==
    ASSUME NEW txs, NEW n \in Nat, Len(txs) = n, DOMAIN txs = 1 .. n,
           NEW phone, NEW rates, NEW zone,
           NEW f \in 1 .. n, NEW e \in 2 .. n + 1, f < e, e = NextGroup(txs, f, zone),
           NEW views, views = ToAllView(txs, phone, rates),
           NEW group, group = GroupFrom(txs, f, phone, rates, zone)
    PROVE  /\ group.start = GroupStart(txs[f].created, zone)
           /\ group.end = GroupEnd(txs[f].created, zone)
           /\ group.items = Slice(views, f - 1, e - f)
           /\ group.total = SumFunctionOnSet(MovedIn(txs, f, e - f, phone, rates), 1 .. e - f)
<1> DEFINE part == SubSeq(txs, f, e - 1)
           S == {txs[i] : i \in 1 .. n}
<1>1. \A i \in f .. e - 1 : txs[i] \in S
  OBVIOUS
<1>2. f \in Int /\ e - 1 \in Int /\ f <= e - 1 /\ (e - 1) - f + 1 = e - f /\ e - f \in Nat
      /\ 1 \in 1 .. e - f
  OBVIOUS
<1>3. /\ part \in Seq(S) /\ Len(part) = (e - 1) - f + 1
      /\ \A i \in 1 .. (e - 1) - f + 1 : part[i] = txs[f + i - 1]
  <2> HIDE DEF S
  <2> QED
    BY <1>1, <1>2, SubSeqProperties
<1>4. DOMAIN part = 1 .. e - f /\ \A i \in 1 .. e - f : part[i] = txs[f + i - 1]
  <2> HIDE DEF part, S
  <2> QED
    BY <1>2, <1>3
<1>5. part[1] = txs[f]
  <2>1. f + 1 - 1 = f
    OBVIOUS
  <2> HIDE DEF part
  <2> QED
    BY <1>2, <1>4, <2>1
<1>6. group = Group(part, phone, rates, zone)
  BY DEF GroupFrom
<1> HIDE DEF part
<1>7. group.items = Slice(views, f - 1, e - f)
  <2>1. group.items = [i \in 1 .. e - f |-> ToView(part[i], phone, rates)]
    BY <1>4, <1>6 DEF Group, ToAllView
  <2>2. ASSUME NEW i \in 1 .. e - f PROVE ToView(part[i], phone, rates) = views[(f - 1) + i]
    <3>1. f + i - 1 = (f - 1) + i /\ (f - 1) + i \in 1 .. n
      OBVIOUS
    <3>2. views[(f - 1) + i] = ToView(txs[(f - 1) + i], phone, rates)
      BY <3>1 DEF ToAllView
    <3> QED
      BY <1>4, <3>1, <3>2
  <2> QED
    BY <2>1, <2>2 DEF Slice
<1>8. group.total = SumFunctionOnSet(MovedIn(txs, f, e - f, phone, rates), 1 .. e - f)
  <2>1. group.total = SumFunctionOnSet([j \in 1 .. e - f |->
                          FiatMoved(part[j], phone, rates)], 1 .. e - f)
    BY <1>4, <1>6 DEF Group, FiatTotal
  <2>2. [j \in 1 .. e - f |-> FiatMoved(part[j], phone, rates)]
          = [j \in 1 .. e - f |-> FiatMoved(txs[f + j - 1], phone, rates)]
    BY <1>4
  <2> QED
    BY <2>1, <2>2 DEF MovedIn
<1> QED
  BY <1>5, <1>6, <1>7, <1>8 DEF Group

(* Periods of times that descend. *)
LEMMA PeriodBounds ==
    ASSUME NEW t \in Nat, NEW zone \in Int
    PROVE  /\ GroupStart(t, zone) \in Int /\ GroupEnd(t, zone) \in Int
           /\ GroupStart(t, zone) <= t /\ t < GroupEnd(t, zone)
           /\ (t + zone) \div PeriodLength \in Int
BY DEF GroupStart, GroupEnd, PeriodLength

LEMMA SamePeriod ==
    ASSUME NEW t \in Nat, NEW u \in Nat, NEW zone \in Int, u <= t
    PROVE  /\ GroupStart(t, zone) <= u
                => (u + zone) \div PeriodLength = (t + zone) \div PeriodLength
           /\ u < GroupStart(t, zone)
                => (u + zone) \div PeriodLength < (t + zone) \div PeriodLength
BY DEF GroupStart, PeriodLength
-----------------------------------------------------------------------------
(* A committed row has a status, and so has a row of the page. *)

StatedInv ==
    /\ \A t \in Txs : place[t] = "committed" => status[t] # "absent"
    /\ \A i \in DOMAIN txPage : txPage[i].status # "absent"

LEMMA StatedInit == ASSUME TxInit PROVE StatedInv
BY RowsAssumption DEF TxInit, StatedInv

LEMMA StatedNext == ASSUME TxIInv, StatedInv, [TxNext]_txVars PROVE StatedInv'
<1>2. place \in [Txs -> {"none", "timed", "open", "committed", "gone"}]
      /\ status \in [Txs -> Lifecycle!Statuses]
  BY DEF TxIInv, TxTypes
<1>3. \A s, u \in Lifecycle!Statuses : <<s, u>> \in Lifecycle!Edges => u # "absent"
  BY DEF Lifecycle!Edges, Lifecycle!Statuses
<1>4. ASSUME NEW t \in Txs, TakeTime(t) \/ InsertTx(t) \/ RollBackTx(t) PROVE StatedInv'
  BY <1>2, <1>4 DEF TakeTime, InsertTx, RollBackTx, StatedInv, requestVars
<1>5. ASSUME NEW t \in Txs, CommitTx(t) PROVE StatedInv'
  <2>1. PICK s \in FirstStatus[t] : status' = [status EXCEPT ![t] = s]
    BY <1>5 DEF CommitTx
  <2>2. s # "absent"
    BY RowsAssumption
  <2> QED
    BY <1>2, <1>5, <2>1, <2>2 DEF CommitTx, StatedInv, requestVars
<1>6. ASSUME NEW t \in Txs, Settle(t) PROVE StatedInv'
  <2>1. PICK s \in Lifecycle!Statuses :
          <<status[t], s>> \in Lifecycle!Edges /\ status' = [status EXCEPT ![t] = s]
    BY <1>6 DEF Settle
  <2>2. s # "absent"
    BY <1>2, <1>3, <2>1
  <2> QED
    BY <1>2, <1>6, <2>1, <2>2 DEF Settle, StatedInv, requestVars
<1>7. CASE FindTxs
  <2>1. PICK p : /\ IsTxPage(p, asked.limit)
                 /\ txPage' = [i \in DOMAIN p |-> Row(p[i], status[p[i]])]
    BY <1>7 DEF FindTxs
  <2>2. ASSUME NEW i \in DOMAIN p PROVE status[p[i]] # "absent"
    <3>1. p[i] \in Txs /\ place[p[i]] = "committed"
      BY <2>1 DEF IsTxPage, Range, Listed1, InListing
    <3> QED
      BY <3>1 DEF StatedInv
  <2> QED
    BY <1>7, <2>1, <2>2 DEF FindTxs, StatedInv, Row, tableVars
<1>8. CASE GetTx \/ ReturnSent
  <2>1. UNCHANGED tableVars
    BY <1>8 DEF GetTx, ReturnSent
  <2>2. CASE txPage' = <<>>
    BY <2>1, <2>2 DEF StatedInv, tableVars
  <2>3. CASE \E t \in Txs : place[t] = "committed" /\ txPage' = <<Row(t, status[t])>>
    <3>1. PICK t \in Txs : place[t] = "committed" /\ txPage' = <<Row(t, status[t])>>
      BY <2>3
    <3>2. DOMAIN txPage' = 1 .. 1 /\ txPage'[1] = Row(t, status[t])
      BY <3>1
    <3>3. \A i \in 1 .. 1 : i = 1
      OBVIOUS
    <3>4. Row(t, status[t]).status # "absent"
      BY <3>1 DEF Row, StatedInv
    <3> QED
      BY <2>1, <3>2, <3>3, <3>4 DEF StatedInv, tableVars
  <2> QED
    BY <1>8, <2>2, <2>3 DEF GetTx, ReturnSent, InListing
<1>9. ASSUME UNCHANGED <<place, status, txPage>> \/ (UNCHANGED <<place, status>> /\ txPage' = <<>>)
      PROVE  StatedInv'
  BY <1>9 DEF StatedInv
<1>10. CASE SelectFirst \/ CountTxs
  BY <1>9, <1>10 DEF SelectFirst, CountTxs, tableVars
<1>11. ASSUME NEW conv, NEW fiat, NEW answers,
              RepresentTx(conv, fiat, answers) \/ RepresentTxs(conv, fiat, answers)
       PROVE  StatedInv'
  BY <1>9, <1>11 DEF RepresentTx, RepresentTxs, tableVars
<1>12. CASE AskTxs \/ NextTxs \/ FinishTxs
  BY <1>9, <1>12 DEF AskTxs, NextTxs, FinishTxs, TxCleared, tableVars
<1>13. CASE UNCHANGED txVars
  BY <1>9, <1>13 DEF txVars, tableVars, requestVars
<1> QED
  BY <1>4, <1>5, <1>6, <1>7, <1>8, <1>10, <1>11, <1>12, <1>13 DEF TxNext, ServeTxs, WalkTxs

LEMMA StatedHolds == TxSpec => [](TxIInv /\ StatedInv)
<1>1. TxInit => TxIInv /\ StatedInv
  BY TxInitInv, StatedInit
<1>2. TxIInv /\ StatedInv /\ [TxNext]_txVars => (TxIInv /\ StatedInv)'
  BY TxNextInv, StatedNext
<1> QED
  BY <1>1, <1>2, PTL DEF TxSpec

-----------------------------------------------------------------------------
(* The page, as its groups see it. *)

LEMMA PageRows ==
    ASSUME TxIInv, StatedInv, step = "answered", Grouped
    PROVE  /\ Len(txPage) \in Nat /\ DOMAIN txPage = 1 .. Len(txPage)
           /\ asked.zone \in Int
           /\ \A i \in DOMAIN txPage :
                 txPage[i].created \in Nat /\ txPage[i].amount \in Nat
           /\ \A i, j \in DOMAIN txPage : i <= j => txPage[j].created <= txPage[i].created
<1>1. asked \in TxRequests /\ asked.kind = "list"
  BY DEF TxIInv, StepInv, Grouped
<1>2. asked.zone \in Int
  BY <1>1, TxRequestsAssumption
<1>3. ASSUME NEW i \in DOMAIN txPage
      PROVE  /\ txPage[i].created = created[txPage[i].tx] /\ txPage[i].created \in Nat
             /\ txPage[i].amount \in Nat
  <2> DEFINE r == txPage[i]
  <2>1. r.tx \in Txs /\ r = Row(r.tx, r.status)
    BY DEF TxIInv, TxPageInv, IsRead
  <2> HIDE DEF r
  <2>2. r.created = created[r.tx] /\ r.amount = Sent[r.tx].amount
    BY <2>1 DEF Row
  <2>3. created[r.tx] \in Nat
    BY <2>1 DEF TxIInv, TxTypes
  <2> QED
    BY <2>1, <2>2, <2>3, RowsAssumption DEF r
<1>4. ASSUME NEW i \in DOMAIN txPage, NEW j \in DOMAIN txPage, i <= j
      PROVE  txPage[j].created <= txPage[i].created
  BY <1>3, <1>4 DEF TxIInv, TxPageInv
<1> QED
  BY <1>2, <1>3, <1>4 DEF TxIInv, TxPageInv

LEMMA FiatIsInt ==
    ASSUME NEW coin, NEW amount \in Nat, NEW rates
    PROVE  InFiat(coin, amount, rates) \in Int
<1>1. Price(coin) \in {1, 2, 3}
  BY DEF Price
<1>2. amount * 1 \in Int /\ amount * 2 \in Int /\ amount * 3 \in Int
  OBVIOUS
<1> QED
  BY <1>1, <1>2 DEF InFiat

LEMMA MovedAsShown ==
    ASSUME TxIInv, StatedInv, step = "answered", Grouped, NEW i \in DOMAIN txPage
    PROVE  FiatMoved(txPage[i], Me, txQuoted.rates) = Moved(i) /\ Moved(i) \in Int
<1> DEFINE r == txPage[i]
           fiat == InFiat(r.coin, r.amount, txQuoted.rates)
<1>1. Views[i].fiat = fiat
  BY DEF Views, ToAllView, ToView
<1>2. fiat \in Int /\ 0 - fiat \in Int
  BY PageRows, FiatIsInt
<1>3. IsOutgoingForSide(r, Me) <=> r.from = Me
  BY MeAssumption DEF IsOutgoingForSide
<1>4. Model!IsHoldsAmount(r) <=> r.status \notin {"decline", "cancel"}
  BY DEF Model!IsHoldsAmount, StatedInv
<1>5. Moved(i) = IF r.status \in {"decline", "cancel"} THEN 0
                 ELSE IF r.from = Me THEN 0 - fiat ELSE fiat
  BY <1>1 DEF Moved
<1>6. FiatMoved(r, Me, txQuoted.rates) = IF ~Model!IsHoldsAmount(r) THEN 0
                                         ELSE IF IsOutgoingForSide(r, Me) THEN 0 - fiat ELSE fiat
  BY DEF FiatMoved
<1> HIDE DEF fiat
<1> QED
  BY <1>2, <1>3, <1>4, <1>5, <1>6

(* The groups of a page between its cuts. *)
CutsOfPage(m, cut) ==
    IsCutInto(txPage, Me, txQuoted.rates, asked.zone, m, cut)

LEMMA PageCut ==
    ASSUME TxIInv, StatedInv, step = "answered", Grouped
    PROVE  \E m, cut : CutsOfPage(m, cut)
BY PageRows, GroupsCut DEF CutsOfPage

LEMMA PageGroup ==
    ASSUME TxIInv, StatedInv, step = "answered", Grouped,
           NEW m, NEW cut, CutsOfPage(m, cut), NEW k \in 1 .. m
    PROVE  /\ Groups[k].start = GroupStart(txPage[cut[k]].created, asked.zone)
           /\ Groups[k].end = GroupEnd(txPage[cut[k]].created, asked.zone)
           /\ Groups[k].items = Slice(Views, cut[k] - 1, cut[k + 1] - cut[k])
           /\ Len(Groups[k].items) = cut[k + 1] - cut[k]
           /\ Groups[k].total = SumFunctionOnSet([i \in DOMAIN txPage |-> Moved(i)],
                                                 cut[k] .. cut[k + 1] - 1)
<1> DEFINE n == Len(txPage)
           f == cut[k]
           e == cut[k + 1]
           group == Groups[k]
           views == Views
           all == [i \in DOMAIN txPage |-> Moved(i)]
           some == MovedIn(txPage, f, e - f, Me, txQuoted.rates)
<1>1. n \in Nat /\ DOMAIN txPage = 1 .. n
  BY PageRows
<1>2. f \in 1 .. n /\ e \in 2 .. n + 1 /\ f < e /\ f .. e - 1 \subseteq 1 .. n
  BY PartWithin DEF CutsOfPage, IsCutInto
<1>3. e = NextGroup(txPage, f, asked.zone)
  BY DEF CutsOfPage, IsCutInto
<1>4. group = GroupFrom(txPage, f, Me, txQuoted.rates, asked.zone)
  BY DEF CutsOfPage, IsCutInto, Groups, GroupsAt
<1>5. views = ToAllView(txPage, Me, txQuoted.rates)
  BY DEF Views
<1> HIDE DEF n, f, e, group, views
<1>6. /\ group.start = GroupStart(txPage[f].created, asked.zone)
      /\ group.end = GroupEnd(txPage[f].created, asked.zone)
      /\ group.items = Slice(views, f - 1, e - f)
      /\ group.total = SumFunctionOnSet(some, 1 .. e - f)
  BY <1>1, <1>2, <1>3, <1>4, <1>5, GroupIs DEF n
<1>7. e - f \in Nat /\ f \in Nat /\ f + (e - f) - 1 = e - 1
  BY <1>1, <1>2
<1>8. Len(group.items) = e - f
  <2> DEFINE items == group.items
  <2>1. items = [j \in 1 .. e - f |-> views[(f - 1) + j]]
    BY <1>6 DEF Slice
  <2>2. DOMAIN items = 1 .. e - f /\ items = [j \in 1 .. e - f |-> items[j]]
    BY <2>1
  <2> HIDE DEF items
  <2>3. Len(items) = e - f
    BY <1>7, <2>2, SeqOfLength
  <2> QED
    BY <2>3 DEF items
<1>9. ASSUME NEW j \in 1 .. e - f PROVE some[j] = all[f + j - 1] /\ some[j] \in Int
  <2>1. f + j - 1 \in 1 .. n
    BY <1>1, <1>2
  <2>2. f + j - 1 \in DOMAIN txPage
    BY <1>1, <2>1
  <2>3. FiatMoved(txPage[f + j - 1], Me, txQuoted.rates) = Moved(f + j - 1)
        /\ Moved(f + j - 1) \in Int
    BY <2>2, MovedAsShown
  <2> QED
    BY <2>2, <2>3 DEF MovedIn
<1>10. group.total = SumFunctionOnSet(all, f .. e - 1)
  <2> HIDE DEF some, all
  <2>1. SumFunctionOnSet(some, 1 .. e - f) = SumFunctionOnSet(all, f .. f + (e - f) - 1)
    BY <1>7, <1>9, SumShifted
  <2> QED
    BY <1>6, <1>7, <2>1
<1> QED
  BY <1>6, <1>8, <1>10 DEF f, e, group, views
-----------------------------------------------------------------------------
(* The groups of an answered page *)

LEMMA GroupFound ==
    ASSUME TxIInv, StatedInv, step = "answered", Grouped,
           NEW m, NEW cut, CutsOfPage(m, cut), NEW i \in DOMAIN txPage
    PROVE  /\ GroupOf(Groups)[i] \in 1 .. m
           /\ \A k \in 1 .. m : GroupOf(Groups)[i] = k <=> cut[k] <= i /\ i < cut[k + 1]
<1> DEFINE n == Len(txPage)
           sizes == [g \in DOMAIN Groups |-> Len(Groups[g].items)]
           found == {g \in DOMAIN Groups : SumFunctionOnSet(sizes, 1 .. g) >= i}
           past == {g \in 1 .. m : cut[g + 1] - 1 >= i}
<1>1. GroupOf(Groups)[i] = Min(found)
  BY DEF GroupOf
<1>2. DOMAIN Groups = 1 .. m /\ IsPartition(n, m, cut)
  BY DEF CutsOfPage, IsCutInto, Groups, GroupsAt
<1>3. \A k \in 1 .. m : sizes[k] = cut[k + 1] - cut[k]
  BY <1>2, PageGroup
<1>4. found = past
  <2>1. \A k \in 1 .. m : SumFunctionOnSet(sizes, 1 .. k) = cut[k + 1] - 1
    <3> HIDE DEF sizes
    <3> QED
      BY <1>2, <1>3, LengthsSum
  <2> HIDE DEF sizes
  <2> QED
    BY <1>2, <2>1
<1>5. i \in 1 .. n
  BY PageRows
<1> HIDE DEF n, found
<1>6. /\ Min(past) \in 1 .. m
      /\ \A k \in 1 .. m : Min(past) = k <=> cut[k] <= i /\ i < cut[k + 1]
  BY <1>2, <1>5, PartFound
<1> QED
  BY <1>1, <1>4, <1>6

(* A group is of one period: what comes later in it is not out of it. *)
LEMMA InPeriod ==
    ASSUME TxIInv, StatedInv, step = "answered", Grouped,
           NEW m, NEW cut, CutsOfPage(m, cut), NEW k \in 1 .. m,
           NEW i \in DOMAIN txPage, cut[k] <= i, i < cut[k + 1]
    PROVE  /\ GroupStart(txPage[cut[k]].created, asked.zone) <= txPage[i].created
           /\ txPage[i].created < GroupEnd(txPage[cut[k]].created, asked.zone)
           /\ Period(txPage[i]) = Period(txPage[cut[k]])
<1> DEFINE n == Len(txPage)
           f == cut[k]
           e == cut[k + 1]
           t == txPage[f].created
           u == txPage[i].created
           zone == asked.zone
<1>1. /\ n \in Nat /\ DOMAIN txPage = 1 .. n /\ f \in 1 .. n /\ e \in 2 .. n + 1
      /\ e = NextGroup(txPage, f, zone)
  BY PageRows, PartWithin DEF CutsOfPage, IsCutInto
<1>2. t \in Nat /\ u \in Nat /\ u <= t /\ zone \in Int
  BY <1>1, PageRows
<1>3. GroupStart(t, zone) \in Int /\ GroupEnd(t, zone) \in Int
      /\ GroupStart(t, zone) <= t /\ t < GroupEnd(t, zone)
  <2> HIDE DEF t, zone
  <2> QED
    BY <1>2, PeriodBounds
<1>4. GroupStart(t, zone) <= u
  <2>1. CASE i = f
    BY <1>3, <2>1
  <2>2. CASE i # f
    <3>1. i \in f + 1 .. NextGroup(txPage, f, zone) - 1
      BY <1>1, <2>2
    <3>2. ~OutOfGroup(txPage[i], txPage[f], zone)
      BY <1>1, <3>1, NextGroupFound
    <3> QED
      BY <1>2, <1>3, <3>2 DEF OutOfGroup
  <2> QED
    BY <2>1, <2>2
<1>5. u < GroupEnd(t, zone)
  <2> HIDE DEF t, u, zone
  <2> QED
    BY <1>2, <1>3
<1>6. (u + zone) \div PeriodLength = (t + zone) \div PeriodLength
  <2> HIDE DEF t, u, zone
  <2> QED
    BY <1>2, <1>4, SamePeriod
<1> QED
  BY <1>4, <1>5, <1>6 DEF Period

(* What comes after a group is of an earlier period. *)
LEMMA PastPeriod ==
    ASSUME TxIInv, StatedInv, step = "answered", Grouped,
           NEW m, NEW cut, CutsOfPage(m, cut), NEW k \in 1 .. m,
           NEW i \in DOMAIN txPage, cut[k + 1] <= i
    PROVE  Period(txPage[i]) < Period(txPage[cut[k]])
<1> DEFINE n == Len(txPage)
           f == cut[k]
           e == cut[k + 1]
           t == txPage[f].created
           v == txPage[e].created
           u == txPage[i].created
           zone == asked.zone
<1>1. /\ n \in Nat /\ DOMAIN txPage = 1 .. n /\ f \in 1 .. n /\ e \in 2 .. n + 1 /\ f < e
      /\ e = NextGroup(txPage, f, zone) /\ e <= i /\ i \in 1 .. n
  BY PageRows, PartWithin DEF CutsOfPage, IsCutInto
<1>2. e \in 1 .. n
  BY <1>1
<1>3. t \in Nat /\ u \in Nat /\ v \in Nat /\ u <= v /\ v <= t /\ u <= t /\ zone \in Int
  BY <1>1, <1>2, PageRows
<1>4. GroupStart(t, zone) \in Int /\ GroupEnd(t, zone) \in Int /\ t < GroupEnd(t, zone)
  <2> HIDE DEF t, zone
  <2> QED
    BY <1>3, PeriodBounds
<1>5. OutOfGroup(txPage[e], txPage[f], zone)
  BY <1>1, <1>2, NextGroupFound
<1>6. v < GroupStart(t, zone)
  <2>1. v > GroupEnd(t, zone) \/ v < GroupStart(t, zone)
    BY <1>5 DEF OutOfGroup
  <2> HIDE DEF t, u, v, zone
  <2> QED
    BY <1>3, <1>4, <2>1
<1>7. (u + zone) \div PeriodLength < (t + zone) \div PeriodLength
  <2> HIDE DEF t, u, v, zone
  <2>1. u < GroupStart(t, zone)
    BY <1>3, <1>4, <1>6
  <2> QED
    BY <1>3, <2>1, SamePeriod
<1> QED
  BY <1>7 DEF Period

LEMMA GroupsAreRight == ASSUME TxIInv, StatedInv PROVE GroupsCorrect
<1> SUFFICES ASSUME step = "answered", Grouped
             PROVE  /\ FlattenSeq([g \in DOMAIN Groups |-> Groups[g].items]) = Views
                    /\ \A i, j \in DOMAIN txPage :
                          GroupOf(Groups)[i] = GroupOf(Groups)[j]
                             <=> Period(txPage[i]) = Period(txPage[j])
                    /\ \A g \in DOMAIN Groups :
                         LET items == {i \in DOMAIN txPage : GroupOf(Groups)[i] = g}
                         IN  /\ Groups[g].total
                                   = SumFunctionOnSet([i \in items |-> Moved(i)], items)
                             /\ \A i \in items : /\ Groups[g].start <= txPage[i].created
                                                 /\ txPage[i].created < Groups[g].end
  BY DEF GroupsCorrect
<1> DEFINE n == Len(txPage)
<1>1. PICK m, cut : CutsOfPage(m, cut)
  BY PageCut
<1>2. n \in Nat /\ DOMAIN txPage = 1 .. n
  BY PageRows
<1>3. IsPartition(n, m, cut) /\ DOMAIN Groups = 1 .. m
  BY <1>1 DEF CutsOfPage, IsCutInto, Groups, GroupsAt
<1>4. FlattenSeq([g \in DOMAIN Groups |-> Groups[g].items]) = Views
  <2> DEFINE parts == [g \in DOMAIN Groups |-> Groups[g].items]
             views == Views
  <2>1. \A k \in 1 .. m : Groups[k].items = Slice(Views, cut[k] - 1, cut[k + 1] - cut[k])
    BY <1>1, PageGroup
  <2>2. parts = [k \in 1 .. m |-> Slice(views, cut[k] - 1, cut[k + 1] - cut[k])]
    BY <1>3, <2>1
  <2>3. views = Begin(views, n)
    BY <1>2 DEF Views, ToAllView, Begin
  <2> HIDE DEF parts, views, n
  <2>4. FlattenSeq(parts) = views
    BY <1>3, <2>2, <2>3, PartsFlattened
  <2> QED
    BY <2>4 DEF parts, views
<1>5. ASSUME NEW i \in DOMAIN txPage
      PROVE  /\ GroupOf(Groups)[i] \in 1 .. m
             /\ \A k \in 1 .. m : GroupOf(Groups)[i] = k <=> cut[k] <= i /\ i < cut[k + 1]
  BY <1>1, GroupFound
<1>6. ASSUME NEW i \in DOMAIN txPage, NEW j \in DOMAIN txPage, NEW g, NEW h,
             g = GroupOf(Groups)[i], h = GroupOf(Groups)[j], g < h
      PROVE  Period(txPage[j]) # Period(txPage[i])
  <2>1. /\ g \in 1 .. m /\ h \in 1 .. m /\ cut[g] <= i /\ i < cut[g + 1] /\ cut[h] <= j
    BY <1>5, <1>6
  <2>2. m \in Nat /\ \A k \in 1 .. m + 1 : cut[k] \in Nat
    BY <1>3 DEF IsPartition
  <2>3. g + 1 \in 1 .. m + 1 /\ h \in 1 .. m + 1 /\ g + 1 <= h
    BY <1>6, <2>1, <2>2
  <2>4. cut[g + 1] <= cut[h]
    BY <1>3, <2>3, CutsRise
  <2>5. cut[g + 1] <= j
    BY <1>2, <2>1, <2>2, <2>3, <2>4
  <2>6. Period(txPage[j]) < Period(txPage[cut[g]])
    BY <1>1, <2>1, <2>5, PastPeriod
  <2>7. Period(txPage[i]) = Period(txPage[cut[g]])
    BY <1>1, <2>1, InPeriod
  <2>8. Period(txPage[i]) \in Int /\ Period(txPage[j]) \in Int
    BY PageRows, PeriodBounds DEF Period
  <2> QED
    BY <2>6, <2>7, <2>8
<1>7. ASSUME NEW i \in DOMAIN txPage, NEW j \in DOMAIN txPage
      PROVE  GroupOf(Groups)[i] = GroupOf(Groups)[j] <=> Period(txPage[i]) = Period(txPage[j])
  <2> PICK g, h : g = GroupOf(Groups)[i] /\ h = GroupOf(Groups)[j]
    OBVIOUS
  <2>1. g \in 1 .. m /\ h \in 1 .. m
    BY <1>5
  <2>2. CASE g = h
    <3>1. /\ cut[g] <= i /\ i < cut[g + 1] /\ cut[g] <= j /\ j < cut[g + 1]
      BY <1>5, <2>1, <2>2
    <3>2. Period(txPage[i]) = Period(txPage[cut[g]]) /\ Period(txPage[j]) = Period(txPage[cut[g]])
      BY <1>1, <2>1, <3>1, InPeriod
    <3> QED
      BY <2>2, <3>2
  <2>3. CASE g < h
    BY <1>6, <2>1, <2>3
  <2>4. CASE h < g
    BY <1>6, <2>1, <2>4
  <2> QED
    BY <2>1, <2>2, <2>3, <2>4
<1>8. ASSUME NEW g \in DOMAIN Groups, NEW items,
             items = {i \in DOMAIN txPage : GroupOf(Groups)[i] = g}
      PROVE  /\ Groups[g].total = SumFunctionOnSet([i \in items |-> Moved(i)], items)
             /\ \A i \in items : /\ Groups[g].start <= txPage[i].created
                                 /\ txPage[i].created < Groups[g].end
  <2>1. g \in 1 .. m
    BY <1>3
  <2>2. /\ cut[g] \in 1 .. n /\ cut[g + 1] \in 2 .. n + 1
        /\ cut[g] .. cut[g + 1] - 1 \subseteq 1 .. n
    BY <1>3, <2>1, PartWithin
  <2>3. items = cut[g] .. cut[g + 1] - 1
    <3>1. ASSUME NEW i \in items PROVE i \in cut[g] .. cut[g + 1] - 1
      <4>1. i \in 1 .. n /\ cut[g] <= i /\ i < cut[g + 1]
        BY <1>2, <1>5, <1>8, <2>1
      <4> QED
        BY <1>2, <2>2, <4>1
    <3>2. ASSUME NEW i \in cut[g] .. cut[g + 1] - 1 PROVE i \in items
      <4>1. i \in DOMAIN txPage /\ cut[g] <= i /\ i < cut[g + 1]
        BY <1>2, <2>2
      <4> QED
        BY <1>5, <1>8, <2>1, <4>1
    <3> QED
      BY <3>1, <3>2
  <2>4. \A i \in items : i \in DOMAIN txPage /\ cut[g] <= i /\ i < cut[g + 1]
    BY <1>2, <2>2, <2>3
  <2> DEFINE all == [i \in DOMAIN txPage |-> Moved(i)]
             here == [i \in items |-> Moved(i)]
  <2>5. Groups[g].total = SumFunctionOnSet(all, items)
    BY <1>1, <2>1, <2>3, PageGroup
  <2>6. SumFunctionOnSet(here, items) = SumFunctionOnSet(all, items)
    <3>1. \A i \in items : here[i] = all[i] /\ here[i] \in Int
      BY <2>4, MovedAsShown
    <3>2. IsFiniteSet(items)
      <4>1. cut[g] \in Int /\ cut[g + 1] - 1 \in Int
        BY <1>2, <2>2
      <4>2. IsFiniteSet(cut[g] .. cut[g + 1] - 1)
        BY <4>1, FS_Interval
      <4> QED
        BY <2>3, <4>2
    <3> HIDE DEF here, all
    <3> QED
      BY <3>1, <3>2, SumSame
  <2>7. \A i \in items : /\ Groups[g].start <= txPage[i].created
                         /\ txPage[i].created < Groups[g].end
    <3>1. /\ Groups[g].start = GroupStart(txPage[cut[g]].created, asked.zone)
          /\ Groups[g].end = GroupEnd(txPage[cut[g]].created, asked.zone)
      BY <1>1, <2>1, PageGroup
    <3> QED
      BY <1>1, <2>1, <2>4, <3>1, InPeriod
  <2> QED
    BY <2>5, <2>6, <2>7
<1> QED
  BY <1>4, <1>7, <1>8

(* A page in groups is the page divided into its periods, in its order,    *)
(* each with begin and end around its transactions and the sum of what     *)
(* they moved (GroupsCorrect): for any rows, rates and zones, and whatever *)
(* is committed or settled while the page is read.                         *)
THEOREM GroupsRight == TxSpec => []GroupsCorrect
BY StatedHolds, GroupsAreRight, PTL

================================================================================
