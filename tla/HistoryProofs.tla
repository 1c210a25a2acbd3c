---------------------------- MODULE HistoryProofs ----------------------------
(***************************************************************************)
(* The properties of the anomaly gate, proved for any limits, reports and  *)
(* thresholds, and any number of stored reports.                           *)
(***************************************************************************)
EXTENDS AnomalyHistory, FiniteSetTheorems, WellFoundedInduction, TLAPS

(* Least and greatest numbers. *)

LEMMA LeastNat ==
  ASSUME NEW T, T \subseteq Nat, T # {}
  PROVE  Min(T) \in T /\ \A y \in T : Min(T) <= y
<1>1. PICK x \in T : \A y \in T : <<y, x>> \notin OpToRel(<, Nat)
  BY WFMin, NatLessThanWellFounded
<1>2. \A y \in T : ~ (y < x)
  BY <1>1 DEF OpToRel
<1>3. \E z \in T : \A y \in T : z <= y
  BY <1>2
<1> QED BY <1>3 DEF Min

LEMMA GreatestNat ==
  ASSUME NEW n \in Nat, NEW T, T \subseteq 0..n, T # {}
  PROVE  Max(T) \in T /\ \A y \in T : y <= Max(T)
<1> DEFINE U == {n - x : x \in T}
<1>1. U \subseteq Nat /\ \A y \in T : n - y \in U
  OBVIOUS
<1>2. PICK u \in U : \A v \in U : u <= v
  <2>1. U # {}
    BY <1>1
  <2> HIDE DEF U
  <2> QED BY <1>1, <2>1, LeastNat
<1>3. PICK x \in T : u = n - x
  BY <1>2
<1>4. \A y \in T : y <= x
  <2>1. \A y \in T : n - x <= n - y
    BY <1>1, <1>2, <1>3
  <2> QED BY <2>1
<1>5. \E z \in T : \A y \in T : z >= y
  BY <1>4
<1>6. \A y \in T : Max(T) >= y
  BY <1>5 DEF Max
<1> QED BY <1>5, <1>6 DEF Max

LEMMA MaxOfTwo ==
  ASSUME NEW a \in Int, NEW b \in Int
  PROVE  Max({a, b}) = IF a >= b THEN a ELSE b
<1>1. \E z \in {a, b} : \A y \in {a, b} : z >= y
  OBVIOUS
<1>2. Max({a, b}) \in {a, b} /\ \A y \in {a, b} : Max({a, b}) >= y
  BY <1>1 DEF Max
<1> QED BY <1>2
-----------------------------------------------------------------------------
(* Order statistics. *)

\* How many are at most x grows with x, strictly if a number is in between.
LEMMA AtMostIs ==
  ASSUME NEW n \in Nat, NEW s \in [1..n -> Nat]
  PROVE  /\ \A x \in Nat : AtMost(s, x) \in 0..n
         /\ \A x \in Nat : \A i \in 1..n : x < s[i] => AtMost(s, x) < AtMost(s, s[i])
         /\ \A x \in Nat : (\A i \in 1..n : s[i] <= x) => AtMost(s, x) = n
<1> DEFINE L(x) == {i \in 1..n : s[i] <= x}
<1>1. IsFiniteSet(1..n) /\ Cardinality(1..n) = n
  BY FS_Interval
<1>2. \A x \in Nat : AtMost(s, x) = Cardinality(L(x)) /\ L(x) \in SUBSET (1..n)
  BY DEF AtMost
<1>3. \A x \in Nat : IsFiniteSet(L(x)) /\ Cardinality(L(x)) \in Nat /\ Cardinality(L(x)) <= n
  <2> HIDE DEF L
  <2> QED BY <1>1, <1>2, FS_Subset, FS_CardinalityType
<1>4. ASSUME NEW x \in Nat, NEW i \in 1..n, x < s[i]
      PROVE  Cardinality(L(x)) < Cardinality(L(s[i]))
  <2>1. L(x) \in SUBSET L(s[i]) /\ i \in L(s[i]) /\ i \notin L(x)
    BY <1>4
  <2>2. s[i] \in Nat
    OBVIOUS
  <2> HIDE DEF L
  <2>3. Cardinality(L(x)) <= Cardinality(L(s[i])) /\ Cardinality(L(s[i])) # Cardinality(L(x))
    BY <1>3, <2>1, <2>2, FS_Subset
  <2>4. Cardinality(L(x)) \in Nat /\ Cardinality(L(s[i])) \in Nat
    BY <1>3, <2>2
  <2> QED BY <2>3, <2>4
<1>5. ASSUME NEW x \in Nat, \A i \in 1..n : s[i] <= x PROVE L(x) = 1..n
  BY <1>5
<1> HIDE DEF L
<1>6. \A x \in Nat : AtMost(s, x) \in 0..n
  BY <1>2, <1>3
<1>7. \A x \in Nat : \A i \in 1..n : x < s[i] => AtMost(s, x) < AtMost(s, s[i])
  <2>1. \A i \in 1..n : s[i] \in Nat
    OBVIOUS
  <2> QED BY <1>2, <1>4, <2>1
<1>8. \A x \in Nat : (\A i \in 1..n : s[i] <= x) => AtMost(s, x) = n
  BY <1>1, <1>2, <1>5
<1> QED BY <1>6, <1>7, <1>8

\* The greatest of a sequence has all others below it, so there is a k-th smallest.
LEMMA SmallestIs ==
  ASSUME NEW n \in Nat, NEW s \in [1..n -> Nat], NEW k \in 1..n
  PROVE  /\ \E i \in 1..n : Smallest(s, k) = s[i]
         /\ Smallest(s, k) \in Nat
         /\ AtMost(s, Smallest(s, k)) >= k
<1> DEFINE C == {AtMost(s, s[i]) : i \in 1..n}
           T == {x \in Range(s) : AtMost(s, x) >= k}
<1>1. C \subseteq 0..n /\ C # {}
  <2>1. \A i \in 1..n : AtMost(s, s[i]) \in 0..n
    BY AtMostIs
  <2>2. AtMost(s, s[1]) \in C
    OBVIOUS
  <2> QED BY <2>1, <2>2
<1>2. PICK i \in 1..n : \A j \in 1..n : AtMost(s, s[j]) <= AtMost(s, s[i])
  <2>1. \E c \in C : \A d \in C : d <= c
    <3> HIDE DEF C
    <3> QED BY <1>1, GreatestNat
  <2> QED BY <2>1
<1>3. s[i] \in Nat /\ \A j \in 1..n : s[j] \in Nat /\ AtMost(s, s[j]) \in Int
  BY <1>1
<1>4. \A j \in 1..n : s[j] <= s[i]
  <2> SUFFICES ASSUME NEW j \in 1..n, s[i] < s[j] PROVE FALSE
    BY <1>3
  <2>1. AtMost(s, s[i]) < AtMost(s, s[j])
    BY <1>3, AtMostIs
  <2> QED BY <1>2, <1>3, <2>1
<1>5. AtMost(s, s[i]) = n
  BY <1>3, <1>4, AtMostIs
<1>6. s[i] \in T /\ T \subseteq Nat
  BY <1>5 DEF Range
<1>7. Smallest(s, k) \in T
  <2>1. Smallest(s, k) = Min(T)
    BY DEF Smallest
  <2> HIDE DEF T
  <2> QED BY <1>6, <2>1, LeastNat
<1> QED BY <1>7 DEF Range

\* The k-th smallest does not depend on the order.
LEMMA SmallestPermuted ==
  ASSUME NEW n \in Nat, NEW s \in [1..n -> Nat], NEW f \in Bijection(1..n, 1..n), NEW k
  PROVE  Smallest([i \in 1..n |-> s[f[i]]], k) = Smallest(s, k)
<1> DEFINE u == [i \in 1..n |-> s[f[i]]]
<1>1. /\ f \in [1..n -> 1..n]
      /\ \A i, j \in 1..n : f[i] = f[j] => i = j
      /\ \A j \in 1..n : \E i \in 1..n : f[i] = j
  BY DEF Bijection, Injection, Surjection, IsInjective
<1>2. Range(u) = Range(s)
  <2>1. Range(u) = {u[i] : i \in 1..n} /\ Range(s) = {s[i] : i \in 1..n}
    BY DEF Range
  <2>2. \A i \in 1..n : u[i] \in {s[j] : j \in 1..n}
    BY <1>1
  <2>3. \A j \in 1..n : s[j] \in {u[i] : i \in 1..n}
    <3> TAKE j \in 1..n
    <3>1. PICK i \in 1..n : f[i] = j
      BY <1>1
    <3>2. u[i] = s[j]
      BY <3>1
    <3> QED BY <3>2
  <2> HIDE DEF u
  <2> QED BY <2>1, <2>2, <2>3
<1>3. ASSUME NEW x PROVE AtMost(u, x) = AtMost(s, x)
  <2> DEFINE U == {i \in 1..n : u[i] <= x}
             S == {i \in 1..n : s[i] <= x}
             g == [i \in U |-> f[i]]
  <2>1. AtMost(u, x) = Cardinality(U) /\ AtMost(s, x) = Cardinality(S)
    BY DEF AtMost
  <2>2. g \in Bijection(U, S)
    <3>1. \A i \in U : f[i] \in S
      BY <1>1
    <3>2. g \in [U -> S]
      BY <3>1
    <3>3. \A i, j \in U : g[i] = g[j] => i = j
      BY <1>1
    <3>4. \A j \in S : \E i \in U : g[i] = j
      <4> TAKE j \in S
      <4>1. PICK i \in 1..n : f[i] = j
        BY <1>1
      <4>2. i \in U /\ g[i] = j
        BY <4>1
      <4> QED BY <4>2
    <3> HIDE DEF U, S, g
    <3> QED BY <3>2, <3>3, <3>4 DEF Bijection, Injection, Surjection, IsInjective
  <2>3. IsFiniteSet(U)
    <3>1. U \in SUBSET (1..n)
      OBVIOUS
    <3>2. IsFiniteSet(1..n)
      BY FS_Interval
    <3> HIDE DEF U
    <3> QED BY <3>1, <3>2, FS_Subset
  <2> HIDE DEF U, S, g
  <2>4. ExistsBijection(U, S)
    BY <2>2 DEF ExistsBijection
  <2> QED BY <2>1, <2>3, <2>4, FS_Bijection
<1> HIDE DEF u
<1>4. {x \in Range(u) : AtMost(u, x) >= k} = {x \in Range(s) : AtMost(s, x) >= k}
  BY <1>2, <1>3
<1>5. Smallest(u, k) = Smallest(s, k)
  BY <1>4 DEF Smallest
<1> QED BY <1>5 DEF u
-----------------------------------------------------------------------------
(* The history of a report whose number none of those stored exceeds. *)

LEMMA InsertedAt ==
  ASSUME NEW S, NEW s \in Seq(S), NEW e \in S, NEW i \in 1..(Len(s) + 1)
  PROVE  /\ InsertAt(s, i, e) \in Seq(S)
         /\ Len(InsertAt(s, i, e)) = Len(s) + 1
         /\ \A k \in 1..(Len(s) + 1) :
              InsertAt(s, i, e)[k] = IF k < i THEN s[k] ELSE IF k = i THEN e ELSE s[k - 1]
<1> DEFINE n == Len(s)
           a == SubSeq(s, 1, i - 1)
           b == SubSeq(s, i, n)
<1>1. n \in Nat /\ \A k \in 1..n : s[k] \in S
  OBVIOUS
<1>2. a \in Seq(S) /\ Len(a) = i - 1 /\ \A k \in 1..(i - 1) : a[k] = s[k]
  BY <1>1
<1>3. b \in Seq(S) /\ Len(b) = n - i + 1 /\ \A k \in 1..(n - i + 1) : b[k] = s[i + k - 1]
  BY <1>1
<1>4. InsertAt(s, i, e) = (a \o <<e>>) \o b
  BY DEF InsertAt
<1> HIDE DEF a, b
<1>5. PICK c \in Seq(S) : /\ c = a \o <<e>> /\ Len(c) = i
                          /\ \A k \in 1..i : c[k] = IF k < i THEN s[k] ELSE e
  <2>1. a \o <<e>> \in Seq(S) /\ Len(a \o <<e>>) = i
    BY <1>1, <1>2
  <2>2. \A k \in 1..i : (a \o <<e>>)[k] = IF k <= i - 1 THEN a[k] ELSE e
    BY <1>1, <1>2
  <2>3. \A k \in 1..i : (a \o <<e>>)[k] = IF k < i THEN s[k] ELSE e
    BY <1>1, <1>2, <2>2
  <2> QED BY <2>1, <2>3
<1>6. /\ c \o b \in Seq(S) /\ Len(c \o b) = n + 1
      /\ \A k \in 1..(n + 1) : (c \o b)[k] = IF k <= i THEN c[k] ELSE b[k - i]
  BY <1>1, <1>3, <1>5
<1>7. \A k \in 1..(n + 1) : k > i => k - i \in 1..(n - i + 1) /\ b[k - i] = s[k - 1]
  BY <1>1, <1>3
<1> QED BY <1>1, <1>4, <1>5, <1>6, <1>7

\* How many entries of n stored ones a history keeps beside the current report.
Kept(n) == IF n + 1 <= HistoryLimit THEN n ELSE HistoryLimit - 1

\* The sorted reports with r behind them.
Sorted(t) == \A i \in DOMAIN t : \A j \in 1..(i - 1) : SortKey(t[j]) <= SortKey(t[i])
Ends(t, r) == \A i \in DOMAIN t : SortKey(t[i]) <= SortKey(r)

LEMMA KeyIsNat == \A r \in Reports : SortKey(r) \in Nat /\ r.power \in Powers /\ r.power \in Nat
BY LimitsAssumption DEF Reports, SortKey

LEMMA KeptIs ==
  ASSUME NEW n \in Nat
  PROVE  /\ Kept(n) \in Nat /\ Kept(n) <= n /\ Kept(n) < HistoryLimit
         /\ n + 1 <= HistoryLimit => Kept(n) = n
         /\ n >= HistoryLimit \div 2 => Kept(n) >= HistoryLimit \div 2
         /\ Kept(n) + 1 = IF n + 1 <= HistoryLimit THEN n + 1 ELSE HistoryLimit
BY LimitsAssumption DEF Kept

LEMMA HistoryIs ==
  ASSUME NEW t \in Seq(Reports), NEW r \in Reports, Ends(t, r)
  PROVE  LET h == AiHistory(t, r)
             n == Len(t)
             m == Kept(n)
         IN /\ h \in Seq(Reports) /\ Len(h) = m + 1
            /\ h[m + 1] = r
            /\ \A k \in 1..m : h[k] = t[n - m + k]
<1>1. PICK n \in Nat : n = Len(t)
  OBVIOUS
<1>2. DOMAIN t = 1..n /\ \A i \in 1..n : t[i] \in Reports
  BY <1>1
<1>3. Max(Places(t, r)) = n + 1
  <2>1. Places(t, r) \subseteq 0..(n + 1)
    BY <1>1 DEF Places
  <2>2. n + 1 \in Places(t, r)
    BY <1>1, <1>2 DEF Places, Ends
  <2>3. Max(Places(t, r)) \in Places(t, r) /\ Max(Places(t, r)) >= n + 1
    BY <1>1, <2>1, <2>2, GreatestNat
  <2> QED BY <1>1, <2>1, <2>3
<1>4. PICK all : all = InsertAt(t, n + 1, r)
  OBVIOUS
<1>5. /\ all \in Seq(Reports) /\ Len(all) = n + 1 /\ all[n + 1] = r
      /\ \A k \in 1..n : all[k] = t[k]
  <2>1. n + 1 \in 1..(Len(t) + 1)
    BY <1>1
  <2>2. /\ all \in Seq(Reports) /\ Len(all) = Len(t) + 1
        /\ \A k \in 1..(Len(t) + 1) :
             all[k] = IF k < n + 1 THEN t[k] ELSE IF k = n + 1 THEN r ELSE t[k - 1]
    <3>1. PICK i \in 1..(Len(t) + 1) : i = n + 1
      BY <2>1
    <3>2. /\ InsertAt(t, i, r) \in Seq(Reports)
          /\ Len(InsertAt(t, i, r)) = Len(t) + 1
          /\ \A k \in 1..(Len(t) + 1) :
               InsertAt(t, i, r)[k] = IF k < i THEN t[k] ELSE IF k = i THEN r ELSE t[k - 1]
      BY InsertedAt
    <3> QED BY <1>4, <3>1, <3>2
  <2> QED BY <1>1, <2>2
<1>6. PICK from : from = Max({1, (n + 1) - HistoryLimit + 1})
  OBVIOUS
<1>7. AiHistory(t, r) = SubSeq(all, from, n + 1)
  BY <1>1, <1>3, <1>4, <1>5, <1>6 DEF AiHistory
<1>8. PICK m \in Nat : m = Kept(n) /\ m <= n
  BY KeptIs
<1>9. from = n - m + 1
  <2>1. HistoryLimit \in Nat
    BY LimitsAssumption
  <2>2. from = IF 1 >= (n + 1) - HistoryLimit + 1 THEN 1 ELSE (n + 1) - HistoryLimit + 1
    BY <1>6, <2>1, MaxOfTwo
  <2> QED BY <1>8, <2>1, <2>2 DEF Kept
<1>10. PICK h : h = SubSeq(all, from, n + 1)
  OBVIOUS
<1>11. /\ h \in Seq(Reports) /\ Len(h) = m + 1
       /\ \A k \in 1..(m + 1) : h[k] = all[n - m + k]
  <2>1. from \in 1..(n + 1) /\ (n + 1) - from + 1 = m + 1
    BY <1>8, <1>9
  <2>2. /\ h \in Seq(Reports) /\ Len(h) = (n + 1) - from + 1
        /\ \A k \in 1..((n + 1) - from + 1) : h[k] = all[from + k - 1]
    BY <1>5, <1>10, <2>1
  <2>3. \A k \in 1..(m + 1) : from + k - 1 = n - m + k
    BY <1>8, <1>9
  <2> QED BY <2>1, <2>2, <2>3
<1>12. h[m + 1] = r /\ \A k \in 1..m : h[k] = t[n - m + k]
  <2>1. m + 1 \in 1..(m + 1) /\ n - m + (m + 1) = n + 1
    BY <1>8
  <2>2. h[m + 1] = r
    BY <1>5, <1>11, <2>1
  <2>3. \A k \in 1..m : k \in 1..(m + 1) /\ n - m + k \in 1..n
    BY <1>8
  <2> QED BY <1>5, <1>11, <2>2, <2>3
<1> QED BY <1>1, <1>7, <1>8, <1>10, <1>11, <1>12
-----------------------------------------------------------------------------
(* What the detector makes of it. *)

LEMMA BaselineIs ==
  ASSUME NEW m \in Nat, NEW h \in Seq(Reports), Len(h) = m + 1
  PROVE  /\ Front(PowersOf(h)) = [k \in 1..m |-> h[k].power]
         /\ Last(h) = h[m + 1]
<1>1. \A k \in 1..(m + 1) : h[k] \in Reports /\ h[k].power \in Nat
  BY KeyIsNat
<1>2. PICK w : w = PowersOf(h)
  OBVIOUS
<1>3. w \in Seq(Nat) /\ Len(w) = m + 1 /\ \A k \in 1..(m + 1) : w[k] = h[k].power
  <2>1. w = [k \in 1..(m + 1) |-> h[k].power]
    BY <1>2 DEF PowersOf
  <2> QED BY <1>1, <2>1
<1>4. PICK b : b = SubSeq(w, 1, m)
  OBVIOUS
<1>5. b \in Seq(Nat) /\ Len(b) = m /\ \A k \in 1..m : b[k] = h[k].power
  BY <1>3, <1>4
<1>6. b = [k \in 1..m |-> h[k].power]
  BY <1>5
<1>7. Front(w) = b
  BY <1>3, <1>4 DEF Front
<1> QED BY <1>2, <1>6, <1>7 DEF Last

\* Both middles of a baseline that is not empty are among its powers.
LEMMA MiddlesAre ==
  ASSUME NEW m \in Nat \ {0}, NEW w \in [1..m -> Nat]
  PROVE  /\ TwiceMedian(w) = Smallest(w, (m + 1) \div 2) + Smallest(w, m \div 2 + 1)
         /\ (m + 1) \div 2 \in 1..m /\ m \div 2 + 1 \in 1..m
<1>1. Len(w) = m
  OBVIOUS
<1> QED BY <1>1 DEF TwiceMedian

LEMMA FewerThanTwo ==
  ASSUME NEW n \in Nat, NEW T, T \subseteq 0..n
  PROVE  Cardinality(T) < 2 <=> (T = {} \/ T \ {Max(T)} = {})
<1>1. IsFiniteSet(T) /\ Cardinality(T) \in Nat
  <2>1. IsFiniteSet(0..n) /\ T \in SUBSET (0..n)
    BY FS_Interval
  <2>2. IsFiniteSet(T)
    BY <2>1, FS_Subset
  <2> QED BY <2>2, FS_CardinalityType
<1>2. CASE T = {}
  BY <1>2, FS_EmptySet
<1>3. CASE T # {}
  <2>1. Max(T) \in T
    BY <1>3, GreatestNat
  <2>2. /\ IsFiniteSet(T \ {Max(T)})
        /\ Cardinality(T \ {Max(T)}) = Cardinality(T) - 1
    BY <1>1, <2>1, FS_RemoveElement
  <2>3. Cardinality(T \ {Max(T)}) = 0 <=> T \ {Max(T)} = {}
    BY <2>2, FS_EmptySet
  <2>4. Cardinality(T) # 0
    BY <1>1, <1>3, FS_EmptySet
  <2>5. PICK c \in Nat : c = Cardinality(T)
    BY <1>1
  <2>6. T \ {Max(T)} = {} <=> c = 1
    BY <2>2, <2>3, <2>5
  <2>7. c # 0
    BY <2>4, <2>5
  <2>8. c < 2 <=> c = 1
    BY <2>7
  <2> QED BY <1>3, <2>5, <2>6, <2>8
<1> QED BY <1>2, <1>3

\* The numbered reports among those a history keeps; the last has the greatest
\* number of all.
Numbered(t) == {i \in (Len(t) - Kept(Len(t)) + 1)..Len(t) : t[i].nonce # NoNumber}

LEMMA LastNumbered ==
  ASSUME NEW t \in Seq(Reports), Sorted(t), Numbered(t) # {}
  PROVE  /\ Max(Numbered(t)) \in Numbered(t)
         /\ \A i \in Numbered(t) : i <= Max(Numbered(t))
         /\ \A i \in DOMAIN t : t[i].nonce <= t[Max(Numbered(t))].nonce
<1>1. PICK n \in Nat : n = Len(t)
  OBVIOUS
<1>2. DOMAIN t = 1..n /\ \A i \in 1..n : t[i] \in Reports /\ SortKey(t[i]) \in Nat
  BY <1>1, KeyIsNat
<1>3. Kept(n) \in Nat /\ Kept(n) <= n
  BY KeptIs
<1>4. PICK N : N = Numbered(t)
  OBVIOUS
<1>5. N = {i \in (n - Kept(n) + 1)..n : t[i].nonce # NoNumber}
  BY <1>1, <1>4 DEF Numbered
<1>6. N \subseteq 0..n
  BY <1>3, <1>5
<1>7. PICK l : l = Max(N)
  OBVIOUS
<1>8. l \in N /\ \A i \in N : i <= l
  BY <1>4, <1>6, <1>7, GreatestNat
<1>9. l \in 1..n /\ t[l].nonce \in Nat /\ SortKey(t[l]) = t[l].nonce
  BY <1>2, <1>3, <1>5, <1>8, LimitsAssumption DEF Reports, SortKey
<1>10. ASSUME NEW i \in 1..n PROVE t[i].nonce <= t[l].nonce
  <2>1. CASE t[i].nonce = NoNumber
    BY <1>9, <2>1 DEF NoNumber
  <2>2. CASE t[i].nonce # NoNumber
    <3>1. i <= l
      BY <1>3, <1>5, <1>8, <1>9, <2>2
    <3>2. i # l => i \in 1..(l - 1)
      BY <1>9, <3>1
    <3>3. SortKey(t[i]) <= SortKey(t[l])
      <4>1. CASE i = l
        BY <1>9, <4>1
      <4>2. CASE i # l
        <5>1. l \in DOMAIN t /\ i \in 1..(l - 1)
          BY <1>2, <1>9, <3>2, <4>2
        <5> QED BY <5>1 DEF Sorted
      <4> QED BY <4>1, <4>2
    <3>4. SortKey(t[i]) = t[i].nonce
      BY <2>2 DEF SortKey
    <3> QED BY <1>9, <3>3, <3>4
  <2> QED BY <2>1, <2>2
<1> QED BY <1>2, <1>4, <1>7, <1>8, <1>10

\* The gap lies between the report and the last numbered one before it.
LEMMA GapIs ==
  ASSUME NEW t \in Seq(Reports), Sorted(t), NEW r \in Reports, Ends(t, r)
  PROVE  NonceGap(AiHistory(t, r)) =
           IF r.nonce = NoNumber \/ Numbered(t) = {} THEN 0
           ELSE r.nonce - t[Max(Numbered(t))].nonce
<1>1. PICK n \in Nat : n = Len(t)
  OBVIOUS
<1>2. PICK m \in Nat : m = Kept(n) /\ m <= n
  BY KeptIs
<1>3. PICK h : h = AiHistory(t, r)
  OBVIOUS
<1>4. /\ h \in Seq(Reports) /\ Len(h) = m + 1 /\ h[m + 1] = r
      /\ \A k \in 1..m : h[k] = t[n - m + k]
  BY <1>1, <1>2, <1>3, HistoryIs
<1>5. PICK N : N = Numbered(t)
  OBVIOUS
<1>6. N = {i \in (n - m + 1)..n : t[i].nonce # NoNumber}
  BY <1>1, <1>2, <1>5 DEF Numbered
<1>7. PICK T : T = {i \in 1..(m + 1) : h[i].nonce # NoNumber}
  OBVIOUS
<1>8. PICK last : last = Max(T)
  OBVIOUS
<1>9. m + 1 \in Nat /\ T \subseteq 0..(m + 1) /\ T \ {last} \subseteq 0..(m + 1)
  BY <1>7
<1>10. T # {} => last \in T /\ \A y \in T : y <= last
  BY <1>8, <1>9, GreatestNat
<1>11. T \ {last} # {} => /\ Max(T \ {last}) \in T \ {last}
                          /\ \A y \in T \ {last} : y <= Max(T \ {last})
  BY <1>9, GreatestNat
<1>12. NonceGap(h) = IF T = {} \/ T \ {last} = {} THEN 0
                     ELSE h[last].nonce - h[Max(T \ {last})].nonce
  <2>1. NonceGap(h) = IF Cardinality(T) < 2 THEN 0
                      ELSE h[last].nonce - h[Max(T \ {last})].nonce
    BY <1>4, <1>7, <1>8 DEF NonceGap
  <2>2. Cardinality(T) < 2 <=> (T = {} \/ T \ {last} = {})
    BY <1>8, <1>9, FewerThanTwo
  <2> QED BY <2>1, <2>2
<1>13. CASE r.nonce = NoNumber
  <2>1. \A k \in T : h[k].nonce = 0
    <3> TAKE k \in T
    <3>1. k \in 1..m /\ h[k] \in Reports /\ h[k].nonce # NoNumber
      BY <1>4, <1>7, <1>13
    <3>2. n - m + k \in DOMAIN t /\ h[k] = t[n - m + k]
      BY <1>1, <1>2, <1>4, <3>1
    <3>3. SortKey(h[k]) <= SortKey(r)
      BY <3>2 DEF Ends
    <3>4. h[k].nonce \in Nat
      BY <3>1, LimitsAssumption DEF Reports
    <3>5. SortKey(h[k]) = h[k].nonce /\ SortKey(r) = 0
      BY <1>13, <3>1 DEF SortKey
    <3> QED BY <3>3, <3>4, <3>5
  <2> QED BY <1>3, <1>10, <1>11, <1>12, <1>13, <2>1
<1>14. CASE r.nonce # NoNumber
  <2>1. m + 1 \in T /\ last = m + 1
    <3>1. m + 1 \in T
      BY <1>4, <1>7, <1>14
    <3> QED BY <1>7, <1>10, <3>1
  <2>2. \A k \in T \ {last} : k \in 1..m /\ n - m + k \in N /\ h[k] = t[n - m + k]
    BY <1>2, <1>4, <1>6, <1>7, <2>1
  <2>3. \A i \in N : i - (n - m) \in T \ {last}
    <3> TAKE i \in N
    <3>1. i - (n - m) \in 1..m /\ n - m + (i - (n - m)) = i
      <4>1. i \in (n - m + 1)..n
        BY <1>6
      <4>2. n - m \in Nat /\ i \in Int
        BY <1>1, <1>2, <4>1
      <4>3. i >= n - m + 1 /\ i <= n
        BY <1>1, <1>2, <4>1
      <4>4. PICK d \in Nat : d = n - m /\ n = d + m
        BY <1>1, <1>2, <4>2
      <4>5. i - d >= 1 /\ i - d <= m /\ d + (i - d) = i /\ i - d \in Int
        BY <4>2, <4>3, <4>4
      <4> QED BY <4>4, <4>5
    <3>2. h[i - (n - m)] = t[i] /\ t[i].nonce # NoNumber
      BY <1>4, <1>6, <3>1
    <3> QED BY <1>7, <2>1, <3>1, <3>2
  <2>4. CASE N = {}
    BY <1>3, <1>5, <1>12, <2>2, <2>4
  <2>5. CASE N # {}
    <3>1. PICK l \in N : l = Max(N) /\ \A i \in N : i <= l
      BY <1>5, <2>5, LastNumbered
    <3>2. PICK k \in T \ {last} : k = Max(T \ {last}) /\ \A y \in T \ {last} : y <= k
      BY <1>11, <2>3, <2>5
    <3>3. l = n - m + k
      <4>1. n - m + k <= l
        BY <2>2, <3>1, <3>2
      <4>2. l - (n - m) <= k
        BY <2>3, <3>1, <3>2
      <4>3. l \in Int /\ k \in Int
        BY <1>6, <1>7, <3>1, <3>2
      <4> QED BY <1>1, <1>2, <4>1, <4>2, <4>3
    <3>4. h[last] = r /\ h[k] = t[l]
      BY <1>4, <2>1, <2>2, <3>2, <3>3
    <3> QED BY <1>3, <1>5, <1>12, <1>14, <2>1, <2>5, <3>1, <3>2, <3>4
  <2> QED BY <2>4, <2>5
<1> QED BY <1>13, <1>14

\* The powers a history keeps beside the current report's.
Baseline(t) == [k \in 1..Kept(Len(t)) |-> t[Len(t) - Kept(Len(t)) + k].power]

LEMMA SpikeIs ==
  ASSUME NEW t \in Seq(Reports), NEW r \in Reports, Ends(t, r)
  PROVE  /\ Baseline(t) \in [1..Kept(Len(t)) -> Nat]
         /\ SpikeScore(AiHistory(t, r)) =
              IF /\ Kept(Len(t)) + 1 >= MinSpikeSamples
                 /\ TwiceMedian(Baseline(t)) > 0
                 /\ 2 * r.power >= SpikeFactor * TwiceMedian(Baseline(t))
              THEN One ELSE 0
<1>1. PICK n \in Nat : n = Len(t)
  OBVIOUS
<1>2. PICK m \in Nat : m = Kept(n) /\ m <= n
  BY <1>1, KeptIs
<1>3. PICK h : h = AiHistory(t, r)
  OBVIOUS
<1>4. /\ h \in Seq(Reports) /\ Len(h) = m + 1 /\ h[m + 1] = r
      /\ \A k \in 1..m : h[k] = t[n - m + k]
  BY <1>1, <1>2, <1>3, HistoryIs
<1>5. Baseline(t) = [k \in 1..m |-> t[n - m + k].power]
  BY <1>1, <1>2 DEF Baseline
<1>6. \A k \in 1..m : t[n - m + k].power \in Nat
  BY <1>1, <1>2, KeyIsNat
<1>7. [k \in 1..m |-> h[k].power] = Baseline(t)
  BY <1>4, <1>5
<1>8. Front(PowersOf(h)) = Baseline(t) /\ Last(h) = r
  BY <1>4, <1>7, BaselineIs
<1>9. SpikeScore(h) = IF /\ m + 1 >= MinSpikeSamples
                         /\ TwiceMedian(Baseline(t)) > 0
                         /\ 2 * r.power >= SpikeFactor * TwiceMedian(Baseline(t))
                      THEN One ELSE 0
  BY <1>4, <1>8 DEF SpikeScore
<1> QED BY <1>1, <1>2, <1>3, <1>5, <1>6, <1>9

LEMMA NoAnomaly ==
  ASSUME NEW h, SpikeScore(h) = 0, NonceGap(h) \in {0, 1}
  PROVE  Score(h) = 0
<1>1. ~(NonceGap(h) > NonceGapTolerance)
  <2>1. NonceGapTolerance \in Nat /\ NonceGapTolerance >= 1
    BY LimitsAssumption
  <2> QED BY <2>1
<1>2. GapScore(h) = 0
  BY <1>1 DEF GapScore
<1>3. Score(h) = Max({0, 0})
  BY <1>2 DEF Score
<1> QED BY <1>3, MaxOfTwo
-----------------------------------------------------------------------------
(* A steady report. *)

\* Each middle is a power stored, so r's is below SpikeFactor times their half.
LEMMA BelowEachBelowMedian ==
  ASSUME NEW m \in Nat \ {0}, NEW w \in [1..m -> Nat], NEW x \in Nat,
         \A k \in 1..m : x < SpikeFactor * w[k]
  PROVE  2 * x < SpikeFactor * TwiceMedian(w)
<1>1. PICK a \in Nat, b \in Nat :
        /\ TwiceMedian(w) = a + b
        /\ x < SpikeFactor * a /\ x < SpikeFactor * b
  <2>1. PICK i \in 1..m : Smallest(w, (m + 1) \div 2) = w[i]
    BY MiddlesAre, SmallestIs
  <2>2. PICK j \in 1..m : Smallest(w, m \div 2 + 1) = w[j]
    BY MiddlesAre, SmallestIs
  <2>3. TwiceMedian(w) = w[i] + w[j]
    BY <2>1, <2>2, MiddlesAre
  <2> QED BY <2>3
<1>2. SpikeFactor \in Nat
  BY LimitsAssumption
<1>3. SpikeFactor * (a + b) = SpikeFactor * a + SpikeFactor * b
  BY <1>2
<1>4. SpikeFactor * a \in Nat /\ SpikeFactor * b \in Nat
  BY <1>2
<1> QED BY <1>1, <1>3, <1>4

LEMMA SteadyScoresNothing ==
  ASSUME NEW t \in Seq(Reports), Sorted(t), NEW r \in Reports, Ends(t, r),
         \A i \in DOMAIN t : r.power < SpikeFactor * t[i].power,
         NEW j \in DOMAIN t, t[j].nonce = r.nonce - 1, t[j].nonce # NoNumber
  PROVE  Score(AiHistory(t, r)) = 0
<1>1. PICK n \in Nat : n = Len(t) /\ DOMAIN t = 1..n
  OBVIOUS
<1>2. PICK m \in Nat : m = Kept(n) /\ m <= n
  BY KeptIs
<1>3. PICK h : h = AiHistory(t, r)
  OBVIOUS
<1>4. NonceGap(h) \in {0, 1}
  <2>1. t[j] \in Reports /\ t[j].nonce \in Nat /\ r.nonce = t[j].nonce + 1
    <3>1. t[j] \in Reports
      OBVIOUS
    <3>2. t[j].nonce \in Nat
      BY <3>1, LimitsAssumption DEF Reports
    <3>3. r.nonce \in Int
      <4>1. r.nonce \in Nat \/ r.nonce = NoNumber
        BY LimitsAssumption DEF Reports
      <4> QED BY <4>1 DEF NoNumber
    <3> QED BY <3>1, <3>2, <3>3
  <2>2. r.nonce # NoNumber /\ SortKey(r) = r.nonce
    BY <2>1 DEF NoNumber, SortKey
  <2>3. CASE Numbered(t) = {}
    BY <1>3, <2>3, GapIs
  <2>4. CASE Numbered(t) # {}
    <3>1. PICK l \in Numbered(t) : l = Max(Numbered(t)) /\ t[j].nonce <= t[l].nonce
      BY <2>4, LastNumbered
    <3>2. l \in DOMAIN t /\ t[l].nonce # NoNumber
      BY <1>1, <1>2, <3>1 DEF Numbered
    <3>3. t[l].nonce \in Nat /\ t[l].nonce <= r.nonce
      <4>1. t[l] \in Reports
        BY <3>2
      <4>2. t[l].nonce \in Nat /\ SortKey(t[l]) = t[l].nonce
        BY <3>2, <4>1, LimitsAssumption DEF Reports, SortKey
      <4> QED BY <2>2, <3>2, <4>2 DEF Ends
    <3>4. NonceGap(h) = r.nonce - t[l].nonce
      BY <1>3, <2>2, <2>4, <3>1, GapIs
    <3> QED BY <2>1, <3>1, <3>3, <3>4
  <2> QED BY <2>3, <2>4
<1>5. SpikeScore(h) = 0
  <2>1. CASE m = 0
    <3>1. ~(m + 1 >= MinSpikeSamples)
      BY <2>1, LimitsAssumption
    <3> QED BY <1>1, <1>2, <1>3, <3>1, SpikeIs
  <2>2. CASE m # 0
    <3>1. PICK w \in [1..m -> Nat] : w = Baseline(t)
      BY <1>1, <1>2, SpikeIs
    <3>2. \A k \in 1..m : r.power < SpikeFactor * w[k]
      <4> TAKE k \in 1..m
      <4>1. n - m + k \in DOMAIN t /\ w[k] = t[n - m + k].power
        BY <1>1, <1>2, <3>1 DEF Baseline
      <4> QED BY <4>1
    <3>3. r.power \in Nat
      BY KeyIsNat
    <3>4. 2 * r.power < SpikeFactor * TwiceMedian(w)
      BY <2>2, <3>2, <3>3, BelowEachBelowMedian
    <3>5. TwiceMedian(w) \in Int
      <4>1. PICK a, b : a = (m + 1) \div 2 /\ b = m \div 2 + 1
        OBVIOUS
      <4>2. a \in 1..m /\ b \in 1..m /\ TwiceMedian(w) = Smallest(w, a) + Smallest(w, b)
        BY <2>2, <4>1, MiddlesAre
      <4>3. Smallest(w, a) \in Nat /\ Smallest(w, b) \in Nat
        BY <4>2, SmallestIs
      <4> QED BY <4>2, <4>3
    <3>6. ~(2 * r.power >= SpikeFactor * TwiceMedian(w))
      <4>1. PICK y \in Int : y = SpikeFactor * TwiceMedian(w)
        BY <3>5, LimitsAssumption
      <4> QED BY <3>3, <3>4, <4>1
    <3> QED BY <1>1, <1>2, <1>3, <3>1, <3>6, SpikeIs
  <2> QED BY <2>1, <2>2
<1> QED BY <1>3, <1>4, <1>5, NoAnomaly
-----------------------------------------------------------------------------
(* What the store returns. *)

Stored(s) == s \in Seq(Reports) /\ Len(s) <= MaxReports

LEMMA RetrievedIs ==
  ASSUME NEW s, Stored(s), NEW t \in Retrieved(s)
  PROVE  /\ t \in Seq(Reports) /\ Len(t) = Len(s) /\ Sorted(t)
         /\ \E f \in Bijection(1..Len(s), 1..Len(s)) : t = [i \in 1..Len(s) |-> s[f[i]]]
         /\ \A i \in DOMAIN t : \E j \in DOMAIN s : t[i] = s[j]
         /\ \A j \in DOMAIN s : \E i \in DOMAIN t : t[i] = s[j]
<1>1. PICK n \in Nat : n = Len(s) /\ DOMAIN s = 1..n /\ n <= MaxReports
  BY DEF Stored
<1>2. Orders[n] = Bijection(1..n, 1..n)
  BY <1>1, LimitsAssumption DEF Orders
<1>3. PICK f \in Bijection(1..n, 1..n) : t = [i \in 1..n |-> s[f[i]]]
  BY <1>1, <1>2 DEF Retrieved
<1>4. Sorted(t)
  BY DEF Retrieved, Sorted
<1>5. f \in [1..n -> 1..n] /\ \A j \in 1..n : \E i \in 1..n : f[i] = j
  BY <1>3 DEF Bijection, Injection, Surjection
<1>6. DOMAIN t = 1..n /\ \A i \in 1..n : t[i] = s[f[i]] /\ t[i] \in Reports
  <2>1. \A i \in 1..n : f[i] \in 1..n
    BY <1>5
  <2>2. \A j \in 1..n : s[j] \in Reports
    BY <1>1 DEF Stored
  <2> QED BY <1>3, <2>1, <2>2
<1>7. t \in Seq(Reports) /\ Len(t) = n
  BY <1>3, <1>6
<1>8. /\ \A i \in DOMAIN t : \E j \in DOMAIN s : t[i] = s[j]
      /\ \A j \in DOMAIN s : \E i \in DOMAIN t : t[i] = s[j]
  <2>1. \A i \in 1..n : f[i] \in 1..n /\ t[i] = s[f[i]]
    BY <1>5, <1>6
  <2>2. \A j \in 1..n : \E i \in 1..n : t[i] = s[j]
    <3> TAKE j \in 1..n
    <3>1. PICK i \in 1..n : f[i] = j
      BY <1>5
    <3> QED BY <2>1, <3>1
  <2> QED BY <1>1, <1>6, <2>1, <2>2
<1> QED BY <1>1, <1>3, <1>4, <1>7, <1>8

\* The sorted t has a place for r.
LEMMA PlaceIs ==
  ASSUME NEW t \in Seq(Reports), Sorted(t), NEW r \in Reports
  PROVE  Max(Places(t, r)) \in Places(t, r)
<1>1. PICK n \in Nat : n = Len(t) /\ DOMAIN t = 1..n
  OBVIOUS
<1>2. SortKey(r) \in Nat /\ \A i \in 1..n : SortKey(t[i]) \in Nat
  BY <1>1, KeyIsNat
<1>3. PICK C : C = {i \in 1..(n + 1) : \A j \in 1..(i - 1) : SortKey(t[j]) <= SortKey(r)}
  OBVIOUS
<1>4. C \subseteq 0..(n + 1) /\ 1 \in C
  BY <1>1, <1>3
<1>5. PICK p \in C : \A i \in C : i <= p
  <2>1. PICK m \in Nat : m = n + 1
    OBVIOUS
  <2> QED BY <1>4, <2>1, GreatestNat
<1>6. p \in 1..(n + 1) /\ \A j \in 1..(p - 1) : SortKey(t[j]) <= SortKey(r)
  BY <1>3
<1>7. \A j \in p..n : SortKey(t[j]) >= SortKey(r)
  <2> SUFFICES ASSUME NEW j \in p..n, SortKey(t[j]) < SortKey(r) PROVE FALSE
    <3>1. \A j \in p..n : j \in 1..n
      BY <1>6
    <3> QED BY <1>2, <3>1
  <2>1. p \in 1..n /\ j \in 1..n
    BY <1>6
  <2>2. SortKey(t[p]) <= SortKey(t[j])
    <3>1. CASE p = j
      BY <1>2, <2>1, <3>1
    <3>2. CASE p # j
      <4>1. j \in DOMAIN t /\ p \in 1..(j - 1)
        BY <1>1, <2>1, <3>2
      <4> QED BY <4>1 DEF Sorted
    <3> QED BY <3>1, <3>2
  <2>3. p + 1 \in C
    <3>1. \A i \in 1..((p + 1) - 1) : i = p \/ i \in 1..(p - 1)
      BY <2>1
    <3>2. \A i \in 1..((p + 1) - 1) : SortKey(t[i]) <= SortKey(r)
      BY <1>2, <1>6, <2>1, <2>2, <3>1
    <3> QED BY <1>1, <1>3, <2>1, <3>2
  <2> QED BY <1>5, <2>1, <2>3
<1>8. p \in Places(t, r) /\ Places(t, r) \subseteq 0..(n + 1)
  BY <1>1, <1>6, <1>7 DEF Places
<1> QED BY <1>8, GreatestNat

\* h is c, sorted.
SortedFrom(h, c) ==
  /\ h \in Seq(Reports) /\ Len(h) = Len(c) /\ Sorted(h)
  /\ \E f \in Bijection(1..Len(c), 1..Len(c)) : \A i \in 1..Len(c) : h[i] = c[f[i]]

\* A history that is not cut is what is stored and r, sorted.
LEMMA HistoryPermutes ==
  ASSUME NEW s, Stored(s), Len(s) < HistoryLimit, NEW t \in Retrieved(s), NEW r \in Reports
  PROVE  SortedFrom(AiHistory(t, r), Append(s, r))
<1>1. PICK n \in Nat : n = Len(s) /\ s \in Seq(Reports) /\ n + 1 <= HistoryLimit
  BY LimitsAssumption DEF Stored
<1>2. PICK c : /\ c = Append(s, r) /\ Len(c) = n + 1
                /\ \A k \in 1..(n + 1) : c[k] = IF k = n + 1 THEN r ELSE s[k]
  <2>1. /\ Len(Append(s, r)) = n + 1
        /\ \A k \in 1..(n + 1) : Append(s, r)[k] = IF k = n + 1 THEN r ELSE s[k]
    BY <1>1
  <2> QED BY <2>1
<1>3. PICK h : h = AiHistory(t, r)
  OBVIOUS
<1>4. t \in Seq(Reports) /\ Len(t) = n /\ DOMAIN t = 1..n /\ Sorted(t)
  BY <1>1, RetrievedIs
<1>5. PICK g \in Bijection(1..n, 1..n) : t = [i \in 1..n |-> s[g[i]]]
  <2>1. \E g \in Bijection(1..Len(s), 1..Len(s)) : t = [i \in 1..Len(s) |-> s[g[i]]]
    BY RetrievedIs
  <2> QED BY <1>1, <2>1
<1>6. PICK p \in 1..(n + 1) : /\ p = Max(Places(t, r))
                              /\ \A j \in 1..(p - 1) : SortKey(t[j]) <= SortKey(r)
                              /\ \A j \in p..n : SortKey(t[j]) >= SortKey(r)
  <2>1. Max(Places(t, r)) \in Places(t, r)
    BY <1>4, PlaceIs
  <2> QED BY <1>4, <2>1 DEF Places
<1>7. PICK all : all = InsertAt(t, p, r)
  OBVIOUS
<1>8. /\ all \in Seq(Reports) /\ Len(all) = n + 1
      /\ \A k \in 1..(n + 1) : all[k] = IF k < p THEN t[k] ELSE IF k = p THEN r ELSE t[k - 1]
  <2>1. PICK q \in 1..(Len(t) + 1) : q = p
    BY <1>4
  <2>2. t \in Seq(Reports)
    BY <1>4
  <2>3. /\ InsertAt(t, q, r) \in Seq(Reports)
        /\ Len(InsertAt(t, q, r)) = Len(t) + 1
        /\ \A k \in 1..(Len(t) + 1) :
             InsertAt(t, q, r)[k] = IF k < q THEN t[k] ELSE IF k = q THEN r ELSE t[k - 1]
    BY <2>2, InsertedAt
  <2> QED BY <1>4, <1>7, <2>1, <2>3
<1>9. h = all
  <2>1. HistoryLimit \in Nat
    BY LimitsAssumption
  <2>2. Max({1, (n + 1) - HistoryLimit + 1}) = 1
    BY <1>1, <2>1, MaxOfTwo
  <2>3. SubSeq(all, 1, n + 1) = all
    BY <1>8
  <2> QED BY <1>4, <1>6, <1>7, <1>8, <1>3, <2>2, <2>3 DEF AiHistory
<1>10. Sorted(h)
  <2> SUFFICES ASSUME NEW i \in 1..(n + 1), NEW j \in 1..(i - 1)
               PROVE  SortKey(h[j]) <= SortKey(h[i])
    BY <1>8, <1>9 DEF Sorted
  <2>1. SortKey(r) \in Nat /\ \A k \in 1..n : SortKey(t[k]) \in Nat
    BY <1>4, KeyIsNat
  <2>2. \A k \in 1..n : \A l \in 1..(k - 1) : SortKey(t[l]) <= SortKey(t[k])
    BY <1>4 DEF Sorted
  <2>3. j \in 1..(n + 1) /\ j < i
    OBVIOUS
  <2>4. CASE i < p
    <3>1. i \in 1..n /\ h[i] = t[i] /\ h[j] = t[j]
      BY <1>8, <1>9, <2>3, <2>4
    <3> QED BY <2>2, <3>1
  <2>5. CASE i = p
    <3>1. h[i] = r /\ h[j] = t[j] /\ j \in 1..(p - 1)
      BY <1>8, <1>9, <2>3, <2>5
    <3> QED BY <1>6, <3>1
  <2>6. CASE i > p
    <3>1. h[i] = t[i - 1] /\ i - 1 \in p..n /\ i - 1 \in 1..n
      BY <1>8, <1>9, <2>6
    <3>2. CASE j < p
      <4>1. h[j] = t[j] /\ j \in 1..((i - 1) - 1)
        BY <1>8, <1>9, <2>3, <2>6, <3>2
      <4> QED BY <2>2, <3>1, <4>1
    <3>3. CASE j = p
      <4>1. h[j] = r
        BY <1>8, <1>9, <2>3, <3>3
      <4>2. SortKey(t[i - 1]) >= SortKey(r)
        BY <1>6, <3>1
      <4> QED BY <2>1, <3>1, <4>1, <4>2
    <3>4. CASE j > p
      <4>1. h[j] = t[j - 1] /\ j - 1 \in 1..((i - 1) - 1)
        BY <1>8, <1>9, <2>3, <3>4
      <4> QED BY <2>2, <3>1, <4>1
    <3> QED BY <2>3, <3>2, <3>3, <3>4
  <2> QED BY <2>4, <2>5, <2>6
<1>11. PICK f : f = [i \in 1..(n + 1) |-> IF i < p THEN g[i] ELSE IF i = p THEN n + 1 ELSE g[i - 1]]
  OBVIOUS
<1>12. /\ g \in [1..n -> 1..n]
       /\ \A i, j \in 1..n : g[i] = g[j] => i = j
       /\ \A j \in 1..n : \E i \in 1..n : g[i] = j
  BY <1>5 DEF Bijection, Injection, Surjection, IsInjective
<1>13. ASSUME NEW i \in 1..(n + 1)
       PROVE  /\ f[i] \in 1..(n + 1) /\ h[i] = c[f[i]]
              /\ i < p => i \in 1..n /\ f[i] = g[i] /\ g[i] \in 1..n
              /\ i = p => f[i] = n + 1
              /\ i > p => i - 1 \in 1..n /\ f[i] = g[i - 1] /\ g[i - 1] \in 1..n
  <2>1. \A k \in 1..n : g[k] \in 1..n /\ t[k] = s[g[k]]
    BY <1>5, <1>12
  <2>2. \A k \in 1..n : k \in 1..(n + 1) /\ c[k] = s[k]
    BY <1>2
  <2>3. CASE i < p
    <3>1. i \in 1..n /\ f[i] = g[i] /\ h[i] = t[i]
      BY <1>8, <1>9, <1>11, <2>3
    <3>2. g[i] \in 1..n /\ g[i] \in 1..(n + 1) /\ c[g[i]] = t[i]
      BY <2>1, <2>2, <3>1
    <3> QED BY <2>3, <3>1, <3>2
  <2>4. CASE i = p
    <3>1. f[i] = n + 1 /\ h[i] = r /\ n + 1 \in 1..(n + 1)
      BY <1>8, <1>9, <1>11, <2>4
    <3>2. c[n + 1] = r
      BY <1>2, <3>1
    <3> QED BY <2>4, <3>1, <3>2
  <2>5. CASE i > p
    <3>1. i - 1 \in 1..n /\ f[i] = g[i - 1] /\ h[i] = t[i - 1]
      BY <1>8, <1>9, <1>11, <2>5
    <3>2. g[i - 1] \in 1..n /\ g[i - 1] \in 1..(n + 1) /\ c[g[i - 1]] = t[i - 1]
      BY <2>1, <2>2, <3>1
    <3> QED BY <2>5, <3>1, <3>2
  <2>6. i < p \/ i = p \/ i > p
    OBVIOUS
  <2> QED BY <2>3, <2>4, <2>5, <2>6
<1>14. f \in Bijection(1..(n + 1), 1..(n + 1))
  <2>1. f \in [1..(n + 1) -> 1..(n + 1)]
    BY <1>11, <1>13
  <2>2. ASSUME NEW i \in 1..(n + 1), NEW j \in 1..(n + 1), f[i] = f[j] PROVE i = j
    <3>1. CASE i = p \/ j = p
      <4>1. f[i] = n + 1 /\ f[j] = n + 1
        BY <1>13, <2>2, <3>1
      <4>2. ASSUME NEW k \in 1..(n + 1), f[k] = n + 1 PROVE k = p
        <5>1. \A l \in 1..n : l # n + 1
          OBVIOUS
        <5>2. CASE k < p
          BY <1>13, <4>2, <5>1, <5>2
        <5>3. CASE k > p
          BY <1>13, <4>2, <5>1, <5>3
        <5> QED BY <5>2, <5>3
      <4> QED BY <4>1, <4>2
    <3>2. CASE i < p /\ j < p
      BY <1>12, <1>13, <2>2, <3>2
    <3>3. CASE i > p /\ j > p
      <4>1. i - 1 \in 1..n /\ j - 1 \in 1..n /\ g[i - 1] = g[j - 1]
        BY <1>13, <2>2, <3>3
      <4>2. i - 1 = j - 1
        BY <1>12, <4>1
      <4> QED BY <4>2
    <3>4. CASE i < p /\ j > p
      <4>1. i = j - 1
        BY <1>12, <1>13, <2>2, <3>4
      <4> QED BY <3>4, <4>1
    <3>5. CASE i > p /\ j < p
      <4>1. j = i - 1
        BY <1>12, <1>13, <2>2, <3>5
      <4> QED BY <3>5, <4>1
    <3> QED BY <3>1, <3>2, <3>3, <3>4, <3>5
  <2>3. ASSUME NEW j \in 1..(n + 1) PROVE \E i \in 1..(n + 1) : f[i] = j
    <3>1. CASE j = n + 1
      BY <1>13, <3>1
    <3>2. CASE j # n + 1
      <4>1. PICK k \in 1..n : g[k] = j
        <5>1. j \in 1..n
          BY <3>2
        <5> QED BY <1>12, <5>1
      <4>2. CASE k < p
        <5>1. k \in 1..(n + 1)
          OBVIOUS
        <5> QED BY <1>13, <4>1, <4>2, <5>1
      <4>3. CASE k >= p
        <5>1. k + 1 \in 1..(n + 1) /\ k + 1 > p /\ (k + 1) - 1 = k
          BY <4>3
        <5>2. f[k + 1] = g[(k + 1) - 1]
          BY <1>13, <5>1
        <5> QED BY <4>1, <5>1, <5>2
      <4> QED BY <4>2, <4>3
    <3> QED BY <3>1, <3>2
  <2> QED BY <2>1, <2>2, <2>3 DEF Bijection, Injection, Surjection, IsInjective
<1>15. SortedFrom(h, c)
  BY <1>8, <1>9, <1>10, <1>13, <1>14, <1>2 DEF SortedFrom
<1> QED BY <1>15, <1>2, <1>3

\* A permutation of a set, in both directions.
LEMMA PermutationIs ==
  ASSUME NEW S, NEW f \in Bijection(S, S)
  PROVE  /\ f \in [S -> S]
         /\ \A i, j \in S : f[i] = f[j] => i = j
         /\ \A j \in S : \E i \in S : f[i] = j
<1>1. f \in Injection(S, S) /\ f \in Surjection(S, S)
  BY DEF Bijection
<1>2. f \in [S -> S] /\ \A j \in S : \E i \in S : f[i] = j
  BY <1>1 DEF Surjection
<1>3. IsInjective(f) /\ DOMAIN f = S
  BY <1>1, <1>2 DEF Injection
<1>4. \A i, j \in S : f[i] = f[j] => i = j
  BY <1>3 DEF IsInjective
<1> QED BY <1>2, <1>4

LEMMA IsPermutation ==
  ASSUME NEW S, NEW f \in [S -> S], \A i, j \in S : f[i] = f[j] => i = j,
         \A j \in S : \E i \in S : f[i] = j
  PROVE  f \in Bijection(S, S)
<1>1. IsInjective(f)
  BY DEF IsInjective
<1>2. f \in Injection(S, S)
  BY <1>1 DEF Injection
<1>3. f \in Surjection(S, S)
  BY DEF Surjection
<1> QED BY <1>2, <1>3 DEF Bijection

\* So two of them are permutations of each other.
LEMMA PermutationsCompose ==
  ASSUME NEW n \in Nat, NEW f \in Bijection(1..n, 1..n), NEW g \in Bijection(1..n, 1..n)
  PROVE  \E e \in Bijection(1..n, 1..n) : \A i \in 1..n : g[i] = f[e[i]]
<1>1. /\ f \in [1..n -> 1..n]
      /\ \A i, j \in 1..n : f[i] = f[j] => i = j
      /\ \A j \in 1..n : \E i \in 1..n : f[i] = j
  BY PermutationIs
<1>2. /\ g \in [1..n -> 1..n]
      /\ \A i, j \in 1..n : g[i] = g[j] => i = j
      /\ \A j \in 1..n : \E i \in 1..n : g[i] = j
  BY PermutationIs
<1>3. PICK e : e = [i \in 1..n |-> CHOOSE j \in 1..n : f[j] = g[i]]
  OBVIOUS
<1>4. \A i \in 1..n : e[i] \in 1..n /\ f[e[i]] = g[i]
  <2> TAKE i \in 1..n
  <2>1. g[i] \in 1..n
    BY <1>2
  <2>2. \E j \in 1..n : f[j] = g[i]
    BY <1>1, <2>1
  <2> QED BY <1>3, <2>2
<1>5. e \in [1..n -> 1..n]
  <2>1. e = [i \in 1..n |-> e[i]]
    BY <1>3
  <2> QED BY <1>4, <2>1
<1>6. ASSUME NEW i \in 1..n, NEW j \in 1..n, e[i] = e[j] PROVE i = j
  <2>1. g[i] = g[j]
    BY <1>4, <1>6
  <2> QED BY <1>2, <2>1
<1>7. \A j \in 1..n : \E i \in 1..n : e[i] = j
  <2> TAKE j \in 1..n
  <2>1. PICK i \in 1..n : g[i] = f[j]
    BY <1>1, <1>2
  <2>2. e[i] \in 1..n /\ f[e[i]] = f[j]
    BY <1>4, <2>1
  <2> QED BY <1>1, <2>2
<1>8. e \in Bijection(1..n, 1..n)
  BY <1>5, <1>6, <1>7, IsPermutation
<1> QED BY <1>4, <1>8

\* The gap is that of the two largest numbers, in whatever order.
TopGap(h, g) ==
  LET T == {i \in DOMAIN h : h[i].nonce # NoNumber}
  IN IF \A i, j \in T : i = j THEN g = 0
     ELSE \E i, j \in T : /\ i # j /\ g = h[i].nonce - h[j].nonce
                          /\ \A l \in T : h[l].nonce <= h[i].nonce
                          /\ \A l \in T : l # i => h[l].nonce <= h[j].nonce

LEMMA TopGapIs ==
  ASSUME NEW h \in Seq(Reports), Sorted(h)
  PROVE  TopGap(h, NonceGap(h))
<1>1. PICK n \in Nat : n = Len(h) /\ DOMAIN h = 1..n
  OBVIOUS
<1>2. PICK T : T = {i \in DOMAIN h : h[i].nonce # NoNumber}
  OBVIOUS
<1>3. PICK a : a = Max(T)
  OBVIOUS
<1>4. PICK U : U = T \ {a}
  OBVIOUS
<1>5. PICK b : b = Max(U)
  OBVIOUS
<1>6. T \subseteq 0..n /\ U \subseteq 0..n /\ T \subseteq 1..n
  BY <1>1, <1>2, <1>4
<1>7. T # {} => a \in T /\ \A i \in T : i <= a
  BY <1>3, <1>6, GreatestNat
<1>8. U # {} => b \in U /\ \A i \in U : i <= b
  BY <1>5, <1>6, GreatestNat
<1>9. NonceGap(h) = IF T = {} \/ U = {} THEN 0 ELSE h[a].nonce - h[b].nonce
  <2>1. NonceGap(h) = IF Cardinality(T) < 2 THEN 0 ELSE h[a].nonce - h[b].nonce
    BY <1>2, <1>3, <1>4, <1>5 DEF NonceGap
  <2>2. Cardinality(T) < 2 <=> (T = {} \/ U = {})
    BY <1>3, <1>4, <1>6, FewerThanTwo
  <2> QED BY <2>1, <2>2
<1>10. (T = {} \/ U = {}) <=> \A i, j \in T : i = j
  <2>1. ASSUME T # {}, U # {} PROVE a \in T /\ b \in T /\ a # b
    BY <1>4, <1>7, <1>8, <2>1
  <2>2. ASSUME NEW i \in T, NEW j \in T, i # j PROVE T # {} /\ U # {}
    BY <1>4, <2>2
  <2> QED BY <2>1, <2>2
<1>11. \A i, j \in T : j <= i => h[j].nonce <= h[i].nonce
  <2> SUFFICES ASSUME NEW i \in T, NEW j \in T, j <= i PROVE h[j].nonce <= h[i].nonce
    OBVIOUS
  <2>1. i \in 1..n /\ j \in 1..n /\ h[i] \in Reports /\ h[j] \in Reports
    BY <1>1, <1>6
  <2>2. /\ SortKey(h[i]) = h[i].nonce /\ SortKey(h[j]) = h[j].nonce
        /\ h[i].nonce \in Nat /\ h[j].nonce \in Nat
    BY <1>2, <2>1, LimitsAssumption DEF Reports, SortKey
  <2>3. CASE i = j
    BY <2>2, <2>3
  <2>4. CASE i # j
    <3>1. i \in DOMAIN h /\ j \in 1..(i - 1)
      BY <1>1, <2>1, <2>4
    <3>2. SortKey(h[j]) <= SortKey(h[i])
      BY <3>1 DEF Sorted
    <3> QED BY <2>2, <3>2
  <2> QED BY <2>3, <2>4
<1>12. PICK g : g = NonceGap(h)
  OBVIOUS
<1>13. CASE T = {} \/ U = {}
  BY <1>2, <1>9, <1>10, <1>12, <1>13 DEF TopGap
<1>14. CASE ~(T = {} \/ U = {})
  <2>1. a \in T /\ b \in T /\ a # b /\ g = h[a].nonce - h[b].nonce
    BY <1>4, <1>7, <1>8, <1>9, <1>12, <1>14
  <2>2. \A l \in T : h[l].nonce <= h[a].nonce
    BY <1>7, <1>11, <2>1
  <2>3. \A l \in T : l # a => h[l].nonce <= h[b].nonce
    BY <1>4, <1>8, <1>11, <2>1
  <2> QED BY <1>2, <1>10, <1>12, <1>14, <2>1, <2>2, <2>3 DEF TopGap
<1> QED BY <1>13, <1>14

LEMMA TopGapMoves ==
  ASSUME NEW n \in Nat, NEW h \in Seq(Reports), NEW k \in Seq(Reports), Len(h) = n, Len(k) = n,
         NEW e \in Bijection(1..n, 1..n), \A i \in 1..n : k[i] = h[e[i]],
         NEW g, TopGap(k, g)
  PROVE  TopGap(h, g)
<1>1. PICK T, U : /\ T = {i \in 1..n : h[i].nonce # NoNumber}
                  /\ U = {i \in 1..n : k[i].nonce # NoNumber}
  OBVIOUS
<1>2. /\ e \in [1..n -> 1..n]
      /\ \A i, j \in 1..n : e[i] = e[j] => i = j
      /\ \A j \in 1..n : \E i \in 1..n : e[i] = j
  BY DEF Bijection, Injection, Surjection, IsInjective
<1>3. \A i \in U : i \in 1..n /\ e[i] \in T /\ k[i] = h[e[i]]
  BY <1>1, <1>2
<1>4. \A j \in T : \E i \in U : e[i] = j
  <2> TAKE j \in T
  <2>1. j \in 1..n
    BY <1>1
  <2>2. PICK i \in 1..n : e[i] = j
    BY <1>2, <2>1
  <2>3. i \in U
    BY <1>1, <2>2
  <2> QED BY <2>2, <2>3
<1>5. DOMAIN h = 1..n /\ DOMAIN k = 1..n
  OBVIOUS
<1>6. CASE \A i, j \in U : i = j
  <2>1. g = 0
    BY <1>1, <1>5, <1>6 DEF TopGap
  <2>2. \A i, j \in T : i = j
    BY <1>4, <1>6
  <2> QED BY <1>1, <1>5, <2>1, <2>2 DEF TopGap
<1>7. CASE ~ \A i, j \in U : i = j
  <2>1. PICK i \in U, j \in U : /\ i # j /\ g = k[i].nonce - k[j].nonce
                                /\ \A l \in U : k[l].nonce <= k[i].nonce
                                /\ \A l \in U : l # i => k[l].nonce <= k[j].nonce
    BY <1>1, <1>5, <1>7 DEF TopGap
  <2>2. PICK x \in T, y \in T : x = e[i] /\ y = e[j]
    BY <1>3
  <2>3. x # y /\ g = h[x].nonce - h[y].nonce
    BY <1>2, <1>3, <2>1, <2>2
  <2>4. ASSUME NEW l \in T
        PROVE  h[l].nonce <= h[x].nonce /\ (l # x => h[l].nonce <= h[y].nonce)
    <3>1. PICK o \in U : e[o] = l
      BY <1>4
    <3>2. k[o] = h[l] /\ k[i] = h[x] /\ k[j] = h[y]
      BY <1>3, <2>2, <3>1
    <3>3. l # x => o # i
      BY <2>2, <3>1
    <3> QED BY <2>1, <3>2, <3>3
  <2> QED BY <1>1, <1>5, <2>3, <2>4 DEF TopGap
<1> QED BY <1>6, <1>7

LEMMA TopGapIsOne ==
  ASSUME NEW h \in Seq(Reports), NEW g, TopGap(h, g), NEW d, TopGap(h, d)
  PROVE  g = d
<1>1. PICK T : T = {i \in DOMAIN h : h[i].nonce # NoNumber}
  OBVIOUS
<1>2. \A i \in T : h[i].nonce \in Nat
  <2>1. \A i \in T : h[i] \in Reports /\ h[i].nonce # NoNumber
    BY <1>1
  <2> QED BY <2>1, LimitsAssumption DEF Reports
<1>3. CASE \A i, j \in T : i = j
  BY <1>1, <1>3 DEF TopGap
<1>4. CASE ~ \A i, j \in T : i = j
  <2>1. PICK i \in T, j \in T : /\ i # j /\ g = h[i].nonce - h[j].nonce
                                /\ \A l \in T : h[l].nonce <= h[i].nonce
                                /\ \A l \in T : l # i => h[l].nonce <= h[j].nonce
    BY <1>1, <1>4 DEF TopGap
  <2>2. PICK a \in T, b \in T : /\ a # b /\ d = h[a].nonce - h[b].nonce
                                /\ \A l \in T : h[l].nonce <= h[a].nonce
                                /\ \A l \in T : l # a => h[l].nonce <= h[b].nonce
    BY <1>1, <1>4 DEF TopGap
  <2>3. h[i].nonce = h[a].nonce
    BY <1>2, <2>1, <2>2
  <2>4. h[j].nonce <= h[b].nonce
    <3>1. CASE j # a
      BY <2>2, <3>1
    <3>2. CASE j = a
      <4>1. h[j].nonce = h[i].nonce /\ i # a
        BY <2>1, <2>3, <3>2
      <4> QED BY <2>2, <4>1
    <3> QED BY <3>1, <3>2
  <2>5. h[b].nonce <= h[j].nonce
    <3>1. CASE b # i
      BY <2>1, <3>1
    <3>2. CASE b = i
      <4>1. h[b].nonce = h[a].nonce /\ a # i
        BY <2>2, <2>3, <3>2
      <4> QED BY <2>1, <4>1
    <3> QED BY <3>1, <3>2
  <2> QED BY <1>2, <2>1, <2>2, <2>3, <2>4, <2>5
<1> QED BY <1>3, <1>4

\* The powers but the last are permuted, if the last powers are one: where the
\* permutation leads to the last, take where it leads from the last instead.
LEMMA FrontsPermute ==
  ASSUME NEW n \in Nat, NEW w \in [1..(n + 1) -> Nat],
         NEW e \in Bijection(1..(n + 1), 1..(n + 1)), w[e[n + 1]] = w[n + 1]
  PROVE  \E g \in Bijection(1..n, 1..n) : \A i \in 1..n : w[e[i]] = w[g[i]]
<1>1. /\ e \in [1..(n + 1) -> 1..(n + 1)]
      /\ \A i, j \in 1..(n + 1) : e[i] = e[j] => i = j
      /\ \A j \in 1..(n + 1) : \E i \in 1..(n + 1) : e[i] = j
  BY DEF Bijection, Injection, Surjection, IsInjective
<1>2. PICK q \in 1..(n + 1) : q = e[n + 1]
  <2>1. n + 1 \in 1..(n + 1)
    OBVIOUS
  <2> QED BY <1>1, <2>1
<1>3. PICK g : g = [i \in 1..n |-> IF e[i] = n + 1 THEN q ELSE e[i]]
  OBVIOUS
<1>4. ASSUME NEW i \in 1..n
      PROVE  /\ e[i] \in 1..(n + 1) /\ e[i] # q /\ g[i] \in 1..n /\ w[e[i]] = w[g[i]]
             /\ g[i] = IF e[i] = n + 1 THEN q ELSE e[i]
  <2>1. i \in 1..(n + 1) /\ n + 1 \in 1..(n + 1) /\ i # n + 1
    OBVIOUS
  <2>2. e[i] \in 1..(n + 1) /\ e[i] # q
    BY <1>1, <1>2, <2>1
  <2>3. g[i] = IF e[i] = n + 1 THEN q ELSE e[i]
    BY <1>3
  <2>4. g[i] \in 1..n
    BY <1>2, <2>2, <2>3
  <2>5. w[e[i]] = w[g[i]]
    BY <1>2, <2>3
  <2> QED BY <2>2, <2>3, <2>4, <2>5
<1>5. g \in [1..n -> 1..n]
  BY <1>3, <1>4
<1>6. ASSUME NEW i \in 1..n, NEW j \in 1..n, g[i] = g[j] PROVE i = j
  <2>1. e[i] = e[j]
    BY <1>4, <1>6
  <2>2. i \in 1..(n + 1) /\ j \in 1..(n + 1)
    OBVIOUS
  <2> QED BY <1>1, <2>1, <2>2
<1>7. ASSUME NEW j \in 1..n PROVE \E i \in 1..n : g[i] = j
  <2>1. j \in 1..(n + 1) /\ n + 1 \in 1..(n + 1)
    OBVIOUS
  <2>2. PICK i \in 1..(n + 1) : e[i] = j
    BY <1>1, <2>1
  <2>3. CASE i # n + 1
    <3>1. i \in 1..n /\ e[i] # n + 1
      BY <2>2, <2>3
    <3> QED BY <1>4, <2>2, <3>1
  <2>4. CASE i = n + 1
    <3>1. j = q
      BY <1>2, <2>2, <2>4
    <3>2. PICK k \in 1..(n + 1) : e[k] = n + 1
      BY <1>1, <2>1
    <3>3. k \in 1..n
      BY <2>2, <2>4, <3>2
    <3> QED BY <1>4, <3>1, <3>2, <3>3
  <2> QED BY <2>3, <2>4
<1>8. g \in Bijection(1..n, 1..n)
  BY <1>5, <1>6, <1>7, IsPermutation
<1> QED BY <1>4, <1>8

LEMMA SpikePermuted ==
  ASSUME NEW n \in Nat, NEW h \in Seq(Reports), NEW k \in Seq(Reports),
         Len(h) = n + 1, Len(k) = n + 1,
         NEW e \in Bijection(1..(n + 1), 1..(n + 1)), \A i \in 1..(n + 1) : k[i] = h[e[i]],
         h[n + 1].power = k[n + 1].power
  PROVE  SpikeScore(k) = SpikeScore(h)
<1>1. \A i \in 1..(n + 1) : h[i].power \in Nat
  BY KeyIsNat
<1>2. PICK w \in [1..(n + 1) -> Nat] : w = [i \in 1..(n + 1) |-> h[i].power]
  BY <1>1
<1>3. e \in [1..(n + 1) -> 1..(n + 1)] /\ n + 1 \in 1..(n + 1)
  BY DEF Bijection, Injection
<1>4. \A i \in 1..(n + 1) : k[i].power = w[e[i]]
  BY <1>2, <1>3
<1>5. w[e[n + 1]] = w[n + 1]
  BY <1>2, <1>3, <1>4
<1>6. PICK g \in Bijection(1..n, 1..n) : \A i \in 1..n : w[e[i]] = w[g[i]]
  BY <1>5, FrontsPermute
<1>7. PICK v \in [1..n -> Nat] : v = [i \in 1..n |-> h[i].power]
  <2>1. \A i \in 1..n : h[i].power \in Nat
    BY <1>1
  <2> QED BY <2>1
<1>8. PICK u : u = [i \in 1..n |-> v[g[i]]]
  OBVIOUS
<1>9. [i \in 1..n |-> k[i].power] = u
  <2>1. g \in [1..n -> 1..n]
    BY <1>6 DEF Bijection, Injection
  <2>2. \A i \in 1..n : g[i] \in 1..n /\ g[i] \in 1..(n + 1) /\ i \in 1..(n + 1)
    <3>1. \A j \in 1..n : j \in 1..(n + 1)
      OBVIOUS
    <3>2. \A i \in 1..n : g[i] \in 1..n
      BY <2>1
    <3> QED BY <3>1, <3>2
  <2>3. \A i \in 1..n : k[i].power = v[g[i]]
    BY <1>2, <1>4, <1>6, <1>7, <2>2
  <2> QED BY <1>8, <2>3
<1>10. TwiceMedian(u) = TwiceMedian(v)
  <2>1. \A m : Smallest(u, m) = Smallest(v, m)
    BY <1>6, <1>8, SmallestPermuted
  <2>2. Len(u) = n /\ Len(v) = n
    BY <1>8
  <2> QED BY <2>1, <2>2 DEF TwiceMedian
<1>11. Front(PowersOf(h)) = v /\ Last(h) = h[n + 1]
  BY <1>7, BaselineIs
<1>12. Front(PowersOf(k)) = u /\ Last(k) = k[n + 1]
  BY <1>9, BaselineIs
<1> QED BY <1>10, <1>11, <1>12 DEF SpikeScore

LEMMA SameVerdict ==
  ASSUME Stored(past) PROVE VerdictIgnoresEnumeration
<1> SUFFICES ASSUME Len(past) < HistoryLimit, NEW one \in Retrieved(past),
                    NEW other \in Retrieved(past), NEW r \in Reports,
                    \/ Follows(r)
                    \/ Last(AiHistory(one, r)).power = Last(AiHistory(other, r)).power
             PROVE  Score(AiHistory(one, r)) = Score(AiHistory(other, r))
  BY DEF VerdictIgnoresEnumeration
<1>1. PICK s : s = past
  OBVIOUS
<1>2. PICK n \in Nat : n = Len(s) /\ Stored(s)
  BY <1>1 DEF Stored
<1>3. PICK h, k, c : h = AiHistory(one, r) /\ k = AiHistory(other, r) /\ c = Append(s, r)
  OBVIOUS
<1>4. PICK f \in Bijection(1..(n + 1), 1..(n + 1)) :
        /\ h \in Seq(Reports) /\ Len(h) = n + 1 /\ Sorted(h)
        /\ \A i \in 1..(n + 1) : h[i] = c[f[i]]
  <2>1. SortedFrom(AiHistory(one, r), Append(past, r))
    BY HistoryPermutes
  <2>2. SortedFrom(h, c) /\ Len(c) = n + 1
    <3>1. past \in Seq(Reports)
      BY DEF Stored
    <3> QED BY <1>1, <1>2, <1>3, <2>1, <3>1
  <2> QED BY <2>2 DEF SortedFrom
<1>5. PICK g \in Bijection(1..(n + 1), 1..(n + 1)) :
        /\ k \in Seq(Reports) /\ Len(k) = n + 1 /\ Sorted(k)
        /\ \A i \in 1..(n + 1) : k[i] = c[g[i]]
  <2>1. SortedFrom(AiHistory(other, r), Append(past, r))
    BY HistoryPermutes
  <2>2. SortedFrom(k, c) /\ Len(c) = n + 1
    <3>1. past \in Seq(Reports)
      BY DEF Stored
    <3> QED BY <1>1, <1>2, <1>3, <2>1, <3>1
  <2> QED BY <2>2 DEF SortedFrom
<1>6. PICK e \in Bijection(1..(n + 1), 1..(n + 1)) : \A i \in 1..(n + 1) : k[i] = h[e[i]]
  <2>1. n + 1 \in Nat
    OBVIOUS
  <2>2. PICK e \in Bijection(1..(n + 1), 1..(n + 1)) : \A i \in 1..(n + 1) : g[i] = f[e[i]]
    BY <2>1, PermutationsCompose
  <2>3. \A i \in 1..(n + 1) : e[i] \in 1..(n + 1)
    BY DEF Bijection, Injection
  <2> QED BY <1>4, <1>5, <2>2, <2>3
<1>7. Last(h) = h[n + 1] /\ Last(k) = k[n + 1]
  BY <1>4, <1>5, BaselineIs
<1>8. h[n + 1].power = k[n + 1].power
  <2>1. CASE Follows(r)
    <3>1. one \in Seq(Reports) /\ Len(one) = n /\ other \in Seq(Reports) /\ Len(other) = n
      BY <1>1, <1>2, RetrievedIs
    <3>2. Ends(one, r) /\ Ends(other, r)
      <4>1. \A i \in DOMAIN one : \E j \in DOMAIN past : one[i] = past[j]
        BY RetrievedIs
      <4>2. \A i \in DOMAIN other : \E j \in DOMAIN past : other[i] = past[j]
        BY RetrievedIs
      <4> QED BY <2>1, <4>1, <4>2 DEF Follows, Ends
    <3>3. PICK m : m = Kept(n)
      OBVIOUS
    <3>4. Len(h) = m + 1 /\ h[m + 1] = r
      BY <1>3, <3>1, <3>2, <3>3, HistoryIs
    <3>5. k[m + 1] = r
      BY <1>3, <3>1, <3>2, <3>3, HistoryIs
    <3> QED BY <1>4, <3>4, <3>5
  <2>2. CASE ~ Follows(r)
    BY <1>3, <1>7, <2>2
  <2> QED BY <2>1, <2>2
<1>9. SpikeScore(k) = SpikeScore(h)
  <2>1. n \in Nat /\ h \in Seq(Reports) /\ k \in Seq(Reports)
    BY <1>4, <1>5
  <2>2. Len(h) = n + 1 /\ Len(k) = n + 1
    BY <1>4, <1>5
  <2>3. \A i \in 1..(n + 1) : k[i] = h[e[i]]
    BY <1>6
  <2> QED BY <1>8, <2>1, <2>2, <2>3, SpikePermuted
<1>10. NonceGap(k) = NonceGap(h)
  <2>1. PICK a, b : a = NonceGap(h) /\ b = NonceGap(k) /\ TopGap(h, a) /\ TopGap(k, b)
    BY <1>4, <1>5, TopGapIs
  <2>2. n + 1 \in Nat
    OBVIOUS
  <2>3. PICK m \in Nat : m = n + 1
    BY <2>2
  <2>4. /\ h \in Seq(Reports) /\ k \in Seq(Reports) /\ Len(h) = m /\ Len(k) = m
        /\ e \in Bijection(1..m, 1..m) /\ \A i \in 1..m : k[i] = h[e[i]]
    BY <1>4, <1>5, <1>6, <2>3
  <2>5. TopGap(h, b)
    BY <2>1, <2>4, TopGapMoves
  <2> QED BY <1>4, <2>1, <2>5, TopGapIsOne
<1> QED BY <1>3, <1>9, <1>10 DEF Score, GapScore

LEMMA SteadyPassesHere ==
  ASSUME Stored(past) PROVE SteadyReportPasses
<1> SUFFICES ASSUME NEW retrieved \in Retrieved(past), NEW r \in Reports,
                    r.nonce - 1 \in {past[i].nonce : i \in DOMAIN past} \ {NoNumber},
                    Follows(r),
                    \A i \in DOMAIN past : r.power < SpikeFactor * past[i].power
             PROVE  Score(AiHistory(retrieved, r)) = 0
  BY DEF SteadyReportPasses
<1>1. /\ retrieved \in Seq(Reports) /\ Sorted(retrieved)
      /\ \A i \in DOMAIN retrieved : \E j \in DOMAIN past : retrieved[i] = past[j]
      /\ \A j \in DOMAIN past : \E i \in DOMAIN retrieved : retrieved[i] = past[j]
  BY RetrievedIs
<1>2. Ends(retrieved, r)
  BY <1>1 DEF Follows, Ends
<1>3. PICK j \in DOMAIN retrieved : retrieved[j].nonce = r.nonce - 1 /\ r.nonce - 1 # NoNumber
  BY <1>1
<1>4. \A i \in DOMAIN retrieved : r.power < SpikeFactor * retrieved[i].power
  BY <1>1
<1> QED BY <1>1, <1>2, <1>3, <1>4, SteadyScoresNothing
-----------------------------------------------------------------------------
(* A rise. *)

\* The k-th smallest is at least p if fewer than k are below.
LEMMA SmallestAtLeast ==
  ASSUME NEW m \in Nat, NEW w \in [1..m -> Nat], NEW p \in Nat, NEW c \in 0..m,
         \A i \in (m - c + 1)..m : w[i] = p,
         NEW k \in 1..m, k > m - c
  PROVE  Smallest(w, k) >= p
<1>1. PICK x \in Nat : x = Smallest(w, k) /\ AtMost(w, x) >= k
  BY SmallestIs
<1>2. SUFFICES ASSUME x < p PROVE FALSE
  BY <1>1
<1>3. PICK B : B = {i \in 1..m : w[i] <= x}
  OBVIOUS
<1>4. B \in SUBSET (1..(m - c))
  <2> SUFFICES ASSUME NEW i \in B, i \notin 1..(m - c) PROVE FALSE
    OBVIOUS
  <2>1. i \in (m - c + 1)..m
    BY <1>3
  <2> QED BY <1>2, <1>3, <2>1
<1>5. IsFiniteSet(1..(m - c)) /\ Cardinality(1..(m - c)) = m - c
  BY FS_Interval
<1>6. Cardinality(B) <= m - c
  <2>1. Cardinality(B) <= Cardinality(1..(m - c))
    BY <1>4, <1>5, FS_Subset
  <2> QED BY <1>5, <2>1
<1>7. AtMost(w, x) = Cardinality(B)
  BY <1>3 DEF AtMost
<1>8. AtMost(w, x) \in 0..m
  BY AtMostIs
<1> QED BY <1>1, <1>6, <1>7, <1>8

\* With half a history at one power, the median is no lower.
LEMMA RisenMedian ==
  ASSUME NEW m \in Nat, NEW w \in [1..m -> Nat], NEW p \in Nat, NEW c \in Nat \ {0},
         c <= m, m < 2 * c,
         \A i \in (m - c + 1)..m : w[i] = p
  PROVE  TwiceMedian(w) \in Nat /\ TwiceMedian(w) >= 2 * p
<1>1. m # 0 /\ c \in 0..m
  OBVIOUS
<1>2. PICK a, b : a = (m + 1) \div 2 /\ b = m \div 2 + 1
  OBVIOUS
<1>3. a \in 1..m /\ b \in 1..m /\ TwiceMedian(w) = Smallest(w, a) + Smallest(w, b)
  BY <1>1, <1>2, MiddlesAre
<1>4. a > m - c /\ b > m - c
  BY <1>2
<1>5. Smallest(w, a) \in Nat /\ Smallest(w, b) \in Nat
  BY <1>3, SmallestIs
<1>6. Smallest(w, a) >= p /\ Smallest(w, b) >= p
  BY <1>1, <1>3, <1>4, SmallestAtLeast
<1> QED BY <1>3, <1>5, <1>6

\* Half a history of refused reports in, the next of the rise scores nothing.
LEMMA RiseScoresNothing ==
  ASSUME NEW t \in Seq(Reports), Sorted(t), NEW r \in Reports, Ends(t, r), r.nonce # NoNumber,
         Len(t) >= HistoryLimit \div 2,
         \A i \in (Len(t) - (HistoryLimit \div 2) + 1)..Len(t) : t[i].power = r.power,
         t[Len(t)].nonce = r.nonce - 1, t[Len(t)].nonce # NoNumber
  PROVE  Score(AiHistory(t, r)) = 0
<1>1. PICK n \in Nat : n = Len(t) /\ DOMAIN t = 1..n
  OBVIOUS
<1>2. PICK m \in Nat : m = Kept(n) /\ m <= n
  BY <1>1, KeptIs
<1>3. PICK c \in Nat \ {0} : c = HistoryLimit \div 2 /\ HistoryLimit = 2 * c
  BY LimitsAssumption
<1>4. c <= m /\ m < 2 * c
  BY <1>1, <1>2, <1>3, KeptIs
<1>5. PICK h : h = AiHistory(t, r)
  OBVIOUS
<1>6. NonceGap(h) \in {0, 1}
  <2>1. n \in Numbered(t)
    BY <1>1, <1>2, <1>4 DEF Numbered
  <2>2. /\ Max(Numbered(t)) \in Numbered(t)
        /\ \A i \in Numbered(t) : i <= Max(Numbered(t))
    BY <2>1, LastNumbered
  <2>3. Max(Numbered(t)) = n
    <3>1. Max(Numbered(t)) \in 1..n
      BY <1>1, <1>2, <2>2 DEF Numbered
    <3> QED BY <2>1, <2>2, <3>1
  <2>4. NonceGap(h) = r.nonce - t[n].nonce
    BY <1>5, <2>1, <2>3, GapIs
  <2>5. r.nonce \in Nat
    BY LimitsAssumption DEF Reports
  <2> QED BY <1>1, <2>4, <2>5
<1>7. SpikeScore(h) = 0
  <2>1. PICK w \in [1..m -> Nat] : w = Baseline(t)
    BY <1>1, <1>2, SpikeIs
  <2>2. PICK p \in Nat : p = r.power
    BY KeyIsNat
  <2>3. \A i \in (m - c + 1)..m : w[i] = p
    <3> TAKE i \in (m - c + 1)..m
    <3>1. i \in 1..m /\ n - m + i \in (n - c + 1)..n
      BY <1>1, <1>2, <1>4
    <3>2. w[i] = t[n - m + i].power
      BY <1>1, <1>2, <2>1, <3>1 DEF Baseline
    <3>3. t[n - m + i].power = r.power
      BY <1>1, <1>3, <3>1
    <3> QED BY <2>2, <3>2, <3>3
  <2>4. PICK M \in Nat : M = TwiceMedian(w) /\ M >= 2 * p
    BY <1>4, <2>3, RisenMedian
  <2>5. ~(M > 0 /\ 2 * p >= SpikeFactor * M)
    <3>1. PICK e \in Nat : SpikeFactor = 2 + e
      BY LimitsAssumption
    <3>2. SpikeFactor * M = 2 * M + e * M /\ e * M \in Nat
      BY <3>1
    <3> QED BY <2>4, <3>2
  <2> QED BY <1>1, <1>2, <1>5, <2>1, <2>2, <2>4, <2>5, SpikeIs
<1> QED BY <1>5, <1>6, <1>7, NoAnomaly

\* A report beyond all that is stored comes last in every enumeration, the
\* others in an order they may have come in before.
LEMMA RetrievedGrows ==
  ASSUME NEW s, Stored(s), Len(s) < MaxReports, NEW r \in Reports,
         \A i \in DOMAIN s : SortKey(s[i]) < SortKey(r),
         NEW q \in 1..(Len(s) + 1), NEW t \in Retrieved(InsertAt(s, q, r))
  PROVE  \E u \in Retrieved(s) : t = Append(u, r)
<1>1. PICK n \in Nat : n = Len(s) /\ DOMAIN s = 1..n /\ n + 1 <= MaxReports
  BY LimitsAssumption DEF Stored
<1>2. PICK v : v = InsertAt(s, q, r)
  OBVIOUS
<1>3. s \in Seq(Reports) /\ \A i \in 1..n : s[i] \in Reports /\ SortKey(s[i]) \in Nat
  BY <1>1, KeyIsNat DEF Stored
<1>4. /\ v \in Seq(Reports) /\ Len(v) = n + 1
      /\ \A k \in 1..(n + 1) : v[k] = IF k < q THEN s[k] ELSE IF k = q THEN r ELSE s[k - 1]
  <2>1. /\ v \in Seq(Reports) /\ Len(v) = Len(s) + 1
        /\ \A k \in 1..(Len(s) + 1) :
             v[k] = IF k < q THEN s[k] ELSE IF k = q THEN r ELSE s[k - 1]
    <3>1. s \in Seq(Reports)
      BY <1>3
    <3>2. /\ InsertAt(s, q, r) \in Seq(Reports)
          /\ Len(InsertAt(s, q, r)) = Len(s) + 1
          /\ \A k \in 1..(Len(s) + 1) :
               InsertAt(s, q, r)[k] = IF k < q THEN s[k] ELSE IF k = q THEN r ELSE s[k - 1]
      BY <3>1, InsertedAt
    <3> QED BY <1>2, <3>2
  <2> QED BY <1>1, <2>1
<1>5. Stored(v)
  BY <1>1, <1>4 DEF Stored
<1>6. /\ t \in Seq(Reports) /\ Len(t) = n + 1 /\ Sorted(t)
      /\ \E f \in Bijection(1..Len(v), 1..Len(v)) : t = [i \in 1..Len(v) |-> v[f[i]]]
  <2>1. t \in Retrieved(v)
    BY <1>2
  <2>2. /\ t \in Seq(Reports) /\ Len(t) = Len(v) /\ Sorted(t)
        /\ \E f \in Bijection(1..Len(v), 1..Len(v)) : t = [i \in 1..Len(v) |-> v[f[i]]]
    BY <1>5, <2>1, RetrievedIs
  <2> QED BY <1>4, <2>2
<1>7. PICK f \in Bijection(1..(n + 1), 1..(n + 1)) : t = [i \in 1..(n + 1) |-> v[f[i]]]
  BY <1>4, <1>6
<1>8. /\ f \in [1..(n + 1) -> 1..(n + 1)]
      /\ \A i, j \in 1..(n + 1) : f[i] = f[j] => i = j
      /\ \A j \in 1..(n + 1) : \E i \in 1..(n + 1) : f[i] = j
  BY <1>7 DEF Bijection, Injection, Surjection, IsInjective
<1>9. f[n + 1] = q
  <2>1. PICK i \in 1..(n + 1) : f[i] = q
    BY <1>1, <1>8
  <2>2. SUFFICES ASSUME i # n + 1 PROVE FALSE
    BY <2>1
  <2>3. i \in 1..((n + 1) - 1) /\ n + 1 \in DOMAIN t
    BY <1>1, <1>6, <2>2
  <2>4. SortKey(t[i]) <= SortKey(t[n + 1])
    BY <2>3, <1>6 DEF Sorted
  <2>5. t[i] = r
    BY <1>1, <1>4, <1>7, <2>1
  <2>6. PICK k \in 1..(n + 1) : k = f[n + 1] /\ k # q
    <3>1. n + 1 \in 1..(n + 1)
      BY <1>1
    <3>2. f[n + 1] \in 1..(n + 1) /\ f[n + 1] # q
      BY <1>8, <2>1, <2>2, <3>1
    <3> QED BY <3>2
  <2>7. PICK j \in 1..n : t[n + 1] = s[j]
    <3>1. t[n + 1] = v[k]
      BY <1>1, <1>7, <2>6
    <3>2. CASE k < q
      BY <1>1, <1>4, <2>6, <3>1, <3>2
    <3>3. CASE k > q
      <4>1. k - 1 \in 1..n /\ v[k] = s[k - 1]
        BY <1>1, <1>4, <2>6, <3>3
      <4> QED BY <3>1, <4>1
    <3> QED BY <1>1, <2>6, <3>2, <3>3
  <2>8. SortKey(s[j]) < SortKey(r) /\ SortKey(r) \in Nat
    BY <1>1, <2>7, KeyIsNat
  <2> QED BY <1>3, <2>4, <2>5, <2>7, <2>8
<1>10. PICK g : g = [i \in 1..n |-> IF f[i] < q THEN f[i] ELSE f[i] - 1]
  OBVIOUS
<1>11. \A i \in 1..n : f[i] \in 1..(n + 1) /\ f[i] # q
  <2> TAKE i \in 1..n
  <2>1. i \in 1..(n + 1) /\ n + 1 \in 1..(n + 1) /\ i # n + 1
    BY <1>1
  <2> QED BY <1>8, <1>9, <2>1
<1>12. g \in [1..n -> 1..n] /\ \A i \in 1..n : s[g[i]] = v[f[i]]
  <2>1. ASSUME NEW i \in 1..n PROVE g[i] \in 1..n /\ s[g[i]] = v[f[i]]
    <3>1. PICK k \in 1..(n + 1) : k = f[i] /\ k # q
      BY <1>11
    <3>2. CASE k < q
      BY <1>1, <1>4, <1>10, <3>1, <3>2
    <3>3. CASE k > q
      <4>1. g[i] = k - 1 /\ k - 1 \in 1..n
        BY <1>1, <1>10, <3>1, <3>3
      <4> QED BY <1>4, <3>1, <3>3, <4>1
    <3> QED BY <1>1, <3>1, <3>2, <3>3
  <2> QED BY <1>10, <2>1
<1>13. g \in Bijection(1..n, 1..n)
  <2>1. ASSUME NEW i \in 1..n, NEW j \in 1..n, g[i] = g[j] PROVE i = j
    <3>1. PICK k \in 1..(n + 1) : k = f[i] /\ k # q
      BY <1>11
    <3>2. PICK l \in 1..(n + 1) : l = f[j] /\ l # q
      BY <1>11
    <3>3. g[i] = (IF k < q THEN k ELSE k - 1) /\ g[j] = (IF l < q THEN l ELSE l - 1)
      BY <1>10, <3>1, <3>2
    <3>4. k = l
      <4>1. (IF k < q THEN k ELSE k - 1) = (IF l < q THEN l ELSE l - 1)
        BY <2>1, <3>3
      <4>2. q \in Int /\ k \in Int /\ l \in Int
        BY <1>1
      <4>3. k # q /\ l # q
        BY <3>1, <3>2
      <4> QED BY <4>1, <4>2, <4>3
    <3>5. i \in 1..(n + 1) /\ j \in 1..(n + 1)
      OBVIOUS
    <3> QED BY <1>8, <3>1, <3>2, <3>4, <3>5
  <2>2. ASSUME NEW j \in 1..n PROVE \E i \in 1..n : g[i] = j
    <3>1. PICK k \in 1..(n + 1) : k = (IF j < q THEN j ELSE j + 1) /\ k # q
      BY <1>1
    <3>2. PICK i \in 1..(n + 1) : f[i] = k
      BY <1>8
    <3>3. i \in 1..n
      BY <1>1, <1>9, <3>1, <3>2
    <3>4. g[i] = j
      BY <1>1, <1>10, <3>1, <3>2, <3>3
    <3> QED BY <3>3, <3>4
  <2>3. g \in [1..n -> 1..n] /\ DOMAIN g = 1..n
    BY <1>12
  <2>4. g \in Injection(1..n, 1..n)
    BY <2>1, <2>3 DEF Injection, IsInjective
  <2>5. g \in Surjection(1..n, 1..n)
    BY <2>2, <2>3 DEF Surjection
  <2> QED BY <2>4, <2>5 DEF Bijection
<1>14. PICK u : u = [i \in 1..n |-> s[g[i]]]
  OBVIOUS
<1>15. /\ u \in Seq(Reports) /\ Len(u) = n /\ \A i \in 1..n : u[i] = t[i]
  <2>1. \A i \in 1..n : s[g[i]] = t[i] /\ s[g[i]] \in Reports
    BY <1>3, <1>7, <1>12
  <2>2. u \in [1..n -> Reports] /\ \A i \in 1..n : u[i] = t[i]
    BY <1>14, <2>1
  <2> QED BY <1>1, <2>2
<1>16. u \in Retrieved(s)
  <2>1. \A i \in 1..n : \A j \in 1..(i - 1) : SortKey(u[j]) <= SortKey(u[i])
    <3> SUFFICES ASSUME NEW i \in 1..n, NEW j \in 1..(i - 1)
                 PROVE  SortKey(u[j]) <= SortKey(u[i])
      OBVIOUS
    <3>1. i \in DOMAIN t /\ j \in 1..n
      BY <1>6
    <3>2. SortKey(t[j]) <= SortKey(t[i])
      BY <1>6, <3>1 DEF Sorted
    <3> QED BY <1>15, <3>1, <3>2
  <2>2. Orders[Len(s)] = Bijection(1..n, 1..n)
    BY <1>1, LimitsAssumption DEF Orders
  <2>3. DOMAIN u = 1..n
    BY <1>14
  <2>4. u \in {[i \in DOMAIN s |-> s[o[i]]] : o \in Orders[Len(s)]}
    BY <1>1, <1>13, <1>14, <2>2
  <2>5. \A i \in DOMAIN u : \A j \in 1..(i - 1) : SortKey(u[j]) <= SortKey(u[i])
    BY <2>1, <2>3
  <2> QED BY <2>4, <2>5 DEF Retrieved
<1>17. t[n + 1] = r
  BY <1>1, <1>4, <1>7, <1>9
<1>18. t = Append(u, r)
  <2>1. /\ Append(u, r) \in Seq(Reports) /\ Len(Append(u, r)) = n + 1
        /\ \A i \in 1..(n + 1) : Append(u, r)[i] = IF i = n + 1 THEN r ELSE u[i]
    BY <1>15
  <2>2. \A i \in 1..(n + 1) : Append(u, r)[i] = t[i]
    BY <1>15, <1>17, <2>1
  <2>3. PICK a : a = Append(u, r)
    OBVIOUS
  <2>4. a = [i \in 1..(n + 1) |-> a[i]] /\ t = [i \in 1..(n + 1) |-> t[i]]
    <3>1. a \in Seq(Reports) /\ Len(a) = n + 1
      BY <2>1, <2>3
    <3>2. a = [i \in 1..(n + 1) |-> a[i]]
      BY <3>1
    <3>3. t = [i \in 1..(n + 1) |-> t[i]]
      BY <1>6
    <3> QED BY <3>2, <3>3
  <2>5. \A i \in 1..(n + 1) : a[i] = t[i]
    BY <2>2, <2>3
  <2> QED BY <2>3, <2>4, <2>5
<1> QED BY <1>16, <1>18
-----------------------------------------------------------------------------
(* The invariant. *)

Streaks == [nonce : Numbers \cup {NoNumber}, power : Nat, count : Nat]

\* The streak's reports are the last of every enumeration, all at its power.
StreakStored(s, k) ==
  \A t \in Retrieved(s) :
    /\ k.count <= Len(t)
    /\ \A i \in (Len(t) - k.count + 1)..Len(t) : t[i].power = k.power
    /\ k.count > 0 => k.nonce # NoNumber /\ t[Len(t)].nonce = k.nonce

Inv ==
  /\ Stored(past)
  /\ streak \in Streaks
  /\ StreakStored(past, streak)
  /\ RefusalsEnd

LEMMA RemovedAt ==
  ASSUME NEW S, NEW s \in Seq(S), NEW i \in 1..Len(s)
  PROVE  RemoveAt(s, i) \in Seq(S) /\ Len(RemoveAt(s, i)) = Len(s) - 1
<1> DEFINE n == Len(s)
           a == SubSeq(s, 1, i - 1)
           b == SubSeq(s, i + 1, n)
<1>1. n \in Nat /\ \A k \in 1..n : s[k] \in S
  OBVIOUS
<1>2. a \in Seq(S) /\ Len(a) = i - 1
  BY <1>1
<1>3. b \in Seq(S) /\ Len(b) = n - i
  BY <1>1
<1>4. RemoveAt(s, i) = a \o b
  BY DEF RemoveAt
<1> HIDE DEF a, b
<1>5. PICK x \in Seq(S), y \in Seq(S) : x = a /\ y = b
  BY <1>2, <1>3
<1>6. x \o y \in Seq(S) /\ Len(x \o y) = Len(x) + Len(y)
  OBVIOUS
<1>7. PICK m \in Nat : m = n /\ i \in 1..m
  BY <1>1
<1>8. Len(x) + Len(y) = m - 1
  <2>1. Len(x) = i - 1 /\ Len(y) = m - i
    BY <1>2, <1>3, <1>5, <1>7
  <2> QED BY <1>7, <2>1
<1> QED BY <1>4, <1>5, <1>6, <1>7, <1>8

\* Whatever an upsert leaves is well-formed.
LEMMA LeftIs ==
  ASSUME Stored(past), NEW left \in Left
  PROVE  Stored(left)
<1>1. CASE left = past
  BY <1>1
<1>2. ASSUME NEW i \in DOMAIN past, left = RemoveAt(past, i) PROVE Stored(left)
  <2>1. past \in Seq(Reports) /\ Len(past) \in Nat /\ Len(past) <= MaxReports
    BY DEF Stored
  <2>2. i \in 1..Len(past)
    BY <2>1
  <2>3. left \in Seq(Reports) /\ Len(left) = Len(past) - 1
    BY <1>2, <2>1, <2>2, RemovedAt
  <2>4. Len(left) <= MaxReports
    BY <2>1, <2>3, LimitsAssumption
  <2> QED BY <2>3, <2>4 DEF Stored
<1> QED BY <1>1, <1>2 DEF Left

LEMMA StoreKeeps ==
  ASSUME NEW left, Stored(left), NEW r \in Reports, Store(r, left)
  PROVE  /\ Stored(past') /\ Len(left) < MaxReports
         /\ \E q \in 1..(Len(left) + 1) : past' = InsertAt(left, q, r)
<1>1. PICK s : s = left
  OBVIOUS
<1>2. PICK n \in Nat : n = Len(s) /\ s \in Seq(Reports) /\ DOMAIN s = 1..n
  BY <1>1 DEF Stored
<1>3. PICK B : B = {i \in 1..n : Before(s[i], r)}
  OBVIOUS
<1>4. PICK q : q = Cardinality(B) + 1
  OBVIOUS
<1>5. q \in 1..(n + 1)
  <2>1. IsFiniteSet(1..n) /\ Cardinality(1..n) = n /\ B \in SUBSET (1..n)
    BY <1>3, FS_Interval
  <2>2. IsFiniteSet(B) /\ Cardinality(B) <= n
    BY <2>1, FS_Subset
  <2>3. Cardinality(B) \in Nat
    BY <2>2, FS_CardinalityType
  <2> QED BY <1>4, <2>2, <2>3
<1>6. Len(left) < MaxReports /\ past' = InsertAt(s, q, r)
  BY <1>1, <1>2, <1>3, <1>4 DEF Store
<1>7. InsertAt(s, q, r) \in Seq(Reports) /\ Len(InsertAt(s, q, r)) = n + 1
  <2>1. q \in 1..(Len(s) + 1)
    BY <1>2, <1>5
  <2>2. InsertAt(s, q, r) \in Seq(Reports) /\ Len(InsertAt(s, q, r)) = Len(s) + 1
    BY <1>2, <2>1, InsertedAt
  <2> QED BY <1>2, <2>2
<1>8. Stored(past')
  <2>1. n + 1 <= MaxReports
    BY <1>1, <1>2, <1>6, LimitsAssumption
  <2> QED BY <1>6, <1>7, <2>1 DEF Stored
<1> QED BY <1>1, <1>2, <1>5, <1>6, <1>8

LEMMA NoStreakKept ==
  ASSUME NEW s, Stored(s)
  PROVE  NoStreak \in Streaks /\ StreakStored(s, NoStreak) /\ NoStreak.count <= HistoryLimit \div 2
<1>1. NoStreak \in Streaks /\ NoStreak.count = 0
  BY DEF NoStreak, Streaks
<1>2. \A t \in Retrieved(s) : Len(t) \in Nat
  BY RetrievedIs
<1>3. StreakStored(s, NoStreak)
  BY <1>1, <1>2 DEF StreakStored
<1> QED BY <1>1, <1>3, LimitsAssumption

\* The next report of a rise, at the end of whatever is enumerated.
LEMMA RiseStored ==
  ASSUME NEW s, Stored(s), Len(s) < MaxReports, NEW r \in Reports, r.nonce # NoNumber,
         \A i \in DOMAIN s : SortKey(s[i]) < SortKey(r), NEW q \in 1..(Len(s) + 1),
         NEW k \in Streaks, StreakStored(s, k),
         NEW c \in Nat, c = 1 \/ (c = k.count + 1 /\ k.power = r.power)
  PROVE  StreakStored(InsertAt(s, q, r), [nonce |-> r.nonce, power |-> r.power, count |-> c])
<1> SUFFICES ASSUME NEW t \in Retrieved(InsertAt(s, q, r))
             PROVE  /\ c <= Len(t)
                    /\ \A i \in (Len(t) - c + 1)..Len(t) : t[i].power = r.power
                    /\ t[Len(t)].nonce = r.nonce
  BY DEF StreakStored
<1>1. PICK u \in Retrieved(s) : t = Append(u, r)
  BY RetrievedGrows
<1>2. PICK n \in Nat : n = Len(u) /\ u \in Seq(Reports)
  BY RetrievedIs
<1>3. Len(t) = n + 1 /\ t[n + 1] = r /\ \A i \in 1..n : t[i] = u[i]
  BY <1>1, <1>2
<1>4. PICK d \in Nat : d = k.count
  BY DEF Streaks
<1>5. d <= n /\ \A i \in (n - d + 1)..n : u[i].power = k.power
  BY <1>2, <1>4 DEF StreakStored
<1>6. CASE c = 1
  BY <1>2, <1>3, <1>6
<1>7. CASE c = d + 1 /\ k.power = r.power
  <2>1. \A i \in ((n + 1) - c + 1)..(n + 1) : t[i].power = r.power
    <3> TAKE i \in ((n + 1) - c + 1)..(n + 1)
    <3>1. CASE i = n + 1
      BY <1>3, <3>1
    <3>2. CASE i # n + 1
      <4>1. i \in (n - d + 1)..n /\ i \in 1..n
        <5>1. i \in Int /\ i >= n - d + 1 /\ i <= n
          BY <1>7, <3>2
        <5>2. n - d >= 0
          BY <1>5
        <5> QED BY <5>1, <5>2
      <4> QED BY <1>3, <1>5, <1>7, <4>1
    <3> QED BY <3>1, <3>2
  <2> QED BY <1>2, <1>3, <1>4, <1>5, <1>7, <2>1
<1> QED BY <1>4, <1>6, <1>7

\* A refused report of a rise is not the first after half a history of them.
LEMMA RiseEnds ==
  ASSUME NEW s, Stored(s), NEW r \in Reports, r.nonce # NoNumber,
         \A i \in DOMAIN s : SortKey(s[i]) < SortKey(r),
         NEW k \in Streaks, StreakStored(s, k), k.count <= HistoryLimit \div 2,
         k.power = r.power, k.nonce = r.nonce - 1,
         NEW t \in Retrieved(s), NEW threshold \in Thresholds,
         Flagged(AiHistory(t, r), threshold)
  PROVE  k.count + 1 <= HistoryLimit \div 2
<1>1. PICK c \in Nat \ {0} : c = HistoryLimit \div 2
  BY LimitsAssumption
<1>2. k.count \in Nat
  BY DEF Streaks
<1>3. SUFFICES ASSUME k.count = c PROVE FALSE
  BY <1>1, <1>2
<1>4. t \in Seq(Reports) /\ Sorted(t) /\ \A i \in DOMAIN t : \E j \in DOMAIN s : t[i] = s[j]
  BY RetrievedIs
<1>5. Ends(t, r)
  <2> SUFFICES ASSUME NEW i \in DOMAIN t PROVE SortKey(t[i]) <= SortKey(r)
    BY DEF Ends
  <2>1. SortKey(t[i]) < SortKey(r)
    BY <1>4
  <2>2. SortKey(t[i]) \in Nat /\ SortKey(r) \in Nat
    BY <1>4, KeyIsNat
  <2> QED BY <2>1, <2>2
<1>6. /\ Len(t) >= c
      /\ \A i \in (Len(t) - c + 1)..Len(t) : t[i].power = r.power
      /\ t[Len(t)].nonce = r.nonce - 1 /\ t[Len(t)].nonce # NoNumber
  BY <1>1, <1>3, <1>4 DEF StreakStored
<1>7. Score(AiHistory(t, r)) = 0
  BY <1>1, <1>4, <1>5, <1>6, RiseScoresNothing
<1>8. threshold >= 1
  BY LimitsAssumption
<1> QED BY <1>7, <1>8, LimitsAssumption DEF Flagged

\* A step that begins the count anew.
LEMMA ResetKeeps ==
  ASSUME Stored(past'), streak' = NoStreak
  PROVE  Inv'
<1>1. NoStreak \in Streaks /\ StreakStored(past', NoStreak) /\ NoStreak.count <= HistoryLimit \div 2
  BY NoStreakKept
<1> QED BY <1>1 DEF Inv, RefusalsEnd

LEMMA RefusalKeeps ==
  ASSUME Inv, NEW r \in Reports, Store(r, past), streak' = NextStreak(r),
         \E t \in Retrieved(past), threshold \in Thresholds : Flagged(AiHistory(t, r), threshold)
  PROVE  Inv'
<1>1. PICK s, k : s = past /\ k = streak
  OBVIOUS
<1>2. Stored(s) /\ k \in Streaks /\ StreakStored(s, k) /\ k.count <= HistoryLimit \div 2
  BY <1>1 DEF Inv, RefusalsEnd
<1>3. PICK q \in 1..(Len(s) + 1) : past' = InsertAt(s, q, r)
  BY <1>1, <1>2, StoreKeeps
<1>4. Stored(past') /\ Len(s) < MaxReports
  BY <1>1, <1>2, StoreKeeps
<1>5. CASE streak' = NoStreak
  BY <1>4, <1>5, ResetKeeps
<1>6. CASE streak' # NoStreak
  <2>1. PICK t \in Retrieved(s), threshold \in Thresholds : Flagged(AiHistory(t, r), threshold)
    BY <1>1
  <2>2. streak' = NextStreak(r)
    OBVIOUS
  <2>3. /\ r.nonce # NoNumber /\ ~ \E i \in DOMAIN s : SortKey(s[i]) >= r.nonce
        /\ streak' = [nonce |-> r.nonce, power |-> r.power,
                      count |-> IF k.power = r.power /\ k.nonce = r.nonce - 1
                                  THEN k.count + 1 ELSE 1]
    BY <1>1, <1>6, <2>2 DEF NextStreak
  <2>4. \A i \in DOMAIN s : SortKey(s[i]) < SortKey(r)
    <3> TAKE i \in DOMAIN s
    <3>1. SortKey(s[i]) \in Nat /\ SortKey(r) \in Nat
      BY <1>2, KeyIsNat DEF Stored
    <3> QED BY <2>3, <3>1 DEF SortKey
  <2>5. k.count \in Nat /\ r.nonce \in Numbers /\ r.power \in Nat
    BY <1>2, <2>3, KeyIsNat DEF Streaks, Reports
  <2>6. PICK c \in Nat : c = IF k.power = r.power /\ k.nonce = r.nonce - 1
                              THEN k.count + 1 ELSE 1
    BY <2>5
  <2>7. PICK rise : rise = [nonce |-> r.nonce, power |-> r.power, count |-> c]
    OBVIOUS
  <2>8. StreakStored(past', rise)
    <3>1. c = 1 \/ (c = k.count + 1 /\ k.power = r.power)
      BY <2>6
    <3>2. StreakStored(InsertAt(s, q, r), rise)
      BY <1>2, <1>4, <2>3, <2>4, <2>7, <3>1, RiseStored
    <3> QED BY <1>3, <3>2
  <2>9. c <= HistoryLimit \div 2
    <3>1. CASE k.power = r.power /\ k.nonce = r.nonce - 1
      <4>1. k.count + 1 <= HistoryLimit \div 2
        BY <1>2, <2>1, <2>3, <2>4, <3>1, RiseEnds
      <4> QED BY <2>6, <3>1, <4>1
    <3>2. CASE ~(k.power = r.power /\ k.nonce = r.nonce - 1)
      BY <2>6, <3>2, LimitsAssumption
    <3> QED BY <3>1, <3>2
  <2>10. rise \in Streaks /\ rise.count = c
    BY <2>5, <2>7 DEF Streaks
  <2>11. streak' = rise
    BY <2>3, <2>6, <2>7
  <2> QED BY <1>4, <2>8, <2>9, <2>10, <2>11 DEF Inv, RefusalsEnd
<1> QED BY <1>5, <1>6

LEMMA InitHolds == Init => Inv
<1> SUFFICES ASSUME Init PROVE Inv
  OBVIOUS
<1>1. past = <<>> /\ streak = NoStreak
  BY DEF Init
<1>2. Stored(<<>>)
  BY LimitsAssumption DEF Stored
<1> QED BY <1>1, <1>2, NoStreakKept DEF Inv, RefusalsEnd

LEMMA NextKeeps == Inv /\ [Next]_vars => Inv'
<1> SUFFICES ASSUME Inv, [Next]_vars PROVE Inv'
  OBVIOUS
<1>1. ASSUME NEW retrieved \in Retrieved(past), NEW r \in Reports, NEW t \in Thresholds,
             Attest(retrieved, r, t)
      PROVE  Inv'
  <2>1. CASE Flagged(AiHistory(retrieved, r), t)
    BY <1>1, <2>1, RefusalKeeps DEF Attest
  <2>2. CASE ~Flagged(AiHistory(retrieved, r), t)
    <3>1. Stored(past')
      BY <1>1, StoreKeeps DEF Attest, Inv
    <3> QED BY <1>1, <2>2, <3>1, ResetKeeps DEF Attest
  <2> QED BY <2>1, <2>2
<1>2. ASSUME NEW r \in Reports, NEW left \in Left, Store(r, left), streak' = NoStreak PROVE Inv'
  <2>1. Stored(left)
    BY LeftIs DEF Inv
  <2>2. Stored(past')
    BY <1>2, <2>1, StoreKeeps
  <2> QED BY <1>2, <2>2, ResetKeeps
<1>3. CASE Overwrite
  <2>1. PICK left \in Left : past' = left
    BY <1>3 DEF Overwrite
  <2>2. Stored(left)
    BY LeftIs DEF Inv
  <2> QED BY <1>3, <2>1, <2>2, ResetKeeps DEF Overwrite
<1>4. CASE UNCHANGED vars
  BY <1>4 DEF vars, Inv, RefusalsEnd
<1> QED BY <1>1, <1>2, <1>3, <1>4 DEF Next, AttestLegacy, StoreUnseen
-----------------------------------------------------------------------------

\* What is stored is well-formed, and a streak is what comes last of it.
THEOREM Invariance == Spec => []Inv
BY InitHolds, NextKeeps, PTL DEF Spec

\* VerdictIgnoresEnumeration of every instance: over an uncut history the score of
\* any report, late or among equal nonces, depends on the backend's order in the
\* power of the report that comes last only, and on nothing if the report itself does.
THEOREM VerdictIsTheDevices == Spec => []VerdictIgnoresEnumeration
<1>1. Inv => VerdictIgnoresEnumeration
  BY SameVerdict DEF Inv
<1> QED BY <1>1, Invariance, PTL

\* SteadyReportPasses of every instance: a device that goes on steadily is never
\* refused.
THEOREM SteadyDevicePasses == Spec => []SteadyReportPasses
<1>1. Inv => SteadyReportPasses
  BY SteadyPassesHere DEF Inv
<1> QED BY <1>1, Invariance, PTL

\* RefusalsEnd of every instance: of an uninterrupted rise at most half a history
\* is refused, whatever was stored, replaced or removed before it.
THEOREM RisenDevicePasses == Spec => []RefusalsEnd
<1>1. Inv => RefusalsEnd
  BY DEF Inv
<1> QED BY <1>1, Invariance, PTL
=============================================================================
