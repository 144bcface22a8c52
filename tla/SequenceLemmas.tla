--------------------------- MODULE SequenceLemmas ---------------------------
(***************************************************************************)
(* Lemmas about natural numbers and sequences.  Induction is stated for a  *)
(* set of numbers and proved by the least number outside it, so that it can *)
(* be used without an operator as its parameter.                           *)
(***************************************************************************)
EXTENDS Positions, Integers, Sequences, SequencesExt, SequenceTheorems, WellFoundedInduction,
        FiniteSets, FiniteSetTheorems, TLAPS

LEMMA LeastNumber ==
    ASSUME NEW T, T \subseteq Nat, T # {}
    PROVE  \E x \in T : \A y \in T : x <= y
<1>1. PICK x \in T : \A y \in T : ~(<<y, x>> \in OpToRel(<, Nat))
    BY WFMin, NatLessThanWellFounded
<1>2. \A y \in T : <<y, x>> \in OpToRel(<, Nat) <=> y < x
    BY DEF OpToRel
<1>3. ASSUME NEW y \in T PROVE x <= y
  <2>1. ~(y < x)
    BY <1>1, <1>2
  <2>2. x \in Nat /\ y \in Nat
    OBVIOUS
  <2>3. QED
    BY <2>1, <2>2
<1>4. QED
    BY <1>3

LEMMA GreatestNumber ==
    ASSUME NEW n \in Nat, NEW T, T \subseteq 0..n, T # {}
    PROVE  \E x \in T : \A y \in T : y <= x
<1> DEFINE D == {n - t : t \in T}
<1>1. D \subseteq Nat /\ D # {}
  <2>1. ASSUME NEW t \in T PROVE n - t \in Nat
    <3>1. t \in 0..n
      OBVIOUS
    <3>2. QED
      BY <3>1
  <2>2. QED
    BY <2>1
<1>2. PICK d \in D : \A e \in D : d <= e
  <2> HIDE DEF D
  <2>1. QED
    BY <1>1, LeastNumber
<1>3. PICK x \in T : d = n - x
    BY <1>2
<1>4. ASSUME NEW y \in T PROVE y <= x
  <2>1. n - y \in D
    OBVIOUS
  <2>2. n - x <= n - y
    BY <1>2, <1>3, <2>1
  <2>3. QED
    BY <2>2
<1>5. QED
    BY <1>4

LEMMA NumberInduction ==
    ASSUME NEW S, 0 \in S, \A n \in Nat : n \in S => n + 1 \in S
    PROVE  Nat \subseteq S
<1> DEFINE T == Nat \ S
<1>1. SUFFICES ASSUME T # {} PROVE FALSE
    OBVIOUS
<1>2. PICK x \in T : \A y \in T : x <= y
    BY <1>1, LeastNumber
<1>3. x \in Nat /\ x # 0
    BY <1>2
<1>4. x - 1 \in Nat /\ x - 1 \notin T /\ (x - 1) + 1 = x
    BY <1>2, <1>3
<1>5. QED
    BY <1>2, <1>4

LEMMA StrongInduction ==
    ASSUME NEW S, \A n \in Nat : (\A m \in 0..n - 1 : m \in S) => n \in S
    PROVE  Nat \subseteq S
<1> DEFINE T == Nat \ S
<1>1. SUFFICES ASSUME T # {} PROVE FALSE
    OBVIOUS
<1>2. PICK x \in T : \A y \in T : x <= y
    BY <1>1, LeastNumber
<1>3. ASSUME NEW m \in 0..x - 1 PROVE m \in S
    BY <1>2
<1>4. QED
    BY <1>2, <1>3

(* The i-th number of a set: one with i of the set's numbers up to it.      *)
RankIn(T, p) == Cardinality({q \in T : q <= p})
LEMMA RankedNumber ==
    ASSUME NEW n \in Nat, NEW T, T \subseteq 1..n, NEW i \in 1..Cardinality(T)
    PROVE  \E p \in T : RankIn(T, p) = i
<1> DEFINE Upto(k) == {q \in T : q <= k}
           Reached == {k \in 0..n : i <= Cardinality(Upto(k))}
<1>1. IsFiniteSet(T) /\ Cardinality(T) \in Nat
  <2>1. IsFiniteSet(1..n)
    BY FS_Interval
  <2>2. IsFiniteSet(T)
    BY <2>1, FS_Subset
  <2>3. QED
    BY <2>2, FS_CardinalityType
<1>14. \A q \in T : q \in Nat /\ 1 <= q /\ q <= n
    OBVIOUS
<1>2. ASSUME NEW k \in 0..n PROVE IsFiniteSet(Upto(k)) /\ Cardinality(Upto(k)) \in Nat
  <2>1. Upto(k) \subseteq T
    OBVIOUS
  <2> HIDE DEF Upto
  <2>2. QED
    BY <1>1, <2>1, FS_Subset, FS_CardinalityType
<1>3. Upto(n) = T /\ Upto(0) = {}
  <2>1. ASSUME NEW q \in T PROVE ~(q <= 0)
    BY <1>14
  <2>2. QED
    BY <1>14, <2>1
<1>4. n \in Reached
    BY <1>1, <1>3
<1>5. PICK k \in Reached : \A m \in Reached : k <= m
  <2>1. Reached # {}
    BY <1>4
  <2>3. Reached \subseteq Nat
    <3>1. 0..n \subseteq Nat
      OBVIOUS
    <3>2. QED
      BY <3>1
  <2> HIDE DEF Reached
  <2>2. QED
    BY <2>1, <2>3, LeastNumber
<1>6. k \in 0..n /\ i <= Cardinality(Upto(k))
    BY <1>5
<1>7. k # 0
  <2>1. Cardinality({}) = 0
    BY FS_EmptySet
  <2>2. QED
    BY <1>3, <1>6, <2>1
<1>8. k - 1 \in 0..n /\ Cardinality(Upto(k - 1)) < i
  <2>0. k - 1 \in 0..n /\ ~(k <= k - 1)
    BY <1>6, <1>7
  <2>1. k - 1 \in 0..n /\ k - 1 \notin Reached
    <3> HIDE DEF Reached
    <3>1. QED
      BY <1>5, <2>0
  <2>2. Cardinality(Upto(k - 1)) \in Nat
    BY <1>2, <2>1
  <2>3. QED
    BY <2>1, <2>2
<1>9. /\ \A q \in T : q <= k - 1 => q <= k
      /\ \A q \in T : q <= k => q <= k - 1 \/ q = k
      /\ ~(k <= k - 1) /\ k <= k
  <2>1. k \in Nat
    BY <1>6
  <2>2. QED
    BY <1>14, <2>1
<1>10. k \in T
  <2>1. SUFFICES ASSUME k \notin T PROVE FALSE
    OBVIOUS
  <2>2. Upto(k) = Upto(k - 1)
    BY <1>9, <2>1
  <2>3. Cardinality(Upto(k - 1)) \in Nat
    BY <1>2, <1>8
  <2>4. QED
    <3> HIDE DEF Upto
    <3>1. QED
      BY <1>6, <1>8, <2>2, <2>3
<1>11. Cardinality(Upto(k)) = Cardinality(Upto(k - 1)) + 1
  <2>1. Upto(k) = Upto(k - 1) \cup {k} /\ k \notin Upto(k - 1)
    BY <1>9, <1>10
  <2>2. IsFiniteSet(Upto(k - 1))
    BY <1>2, <1>8
  <2> HIDE DEF Upto
  <2>3. QED
    BY <2>1, <2>2, FS_AddElement
<1>12. Cardinality(Upto(k)) = i
  <2>1. Cardinality(Upto(k - 1)) \in Nat
    BY <1>2, <1>8
  <2> HIDE DEF Upto
  <2>2. QED
    BY <1>6, <1>8, <1>11, <2>1
<1>13. QED
    BY <1>10, <1>12 DEF RankIn

(* The positions of a sequence in their order.                              *)
LEMMA RankGrows ==
    ASSUME NEW n \in Nat, NEW at, at \subseteq 1..n, NEW p \in at, NEW r \in at, p < r
    PROVE  Cardinality({q \in at : q <= p}) < Cardinality({q \in at : q <= r})
<1> DEFINE Upto(k) == {q \in at : q <= k}
<1>1. IsFiniteSet(at)
  BY FS_Interval, FS_Subset, 1 \in Int, n \in Int
<1>2. IsFiniteSet(Upto(p)) /\ IsFiniteSet(Upto(r))
  BY <1>1, FS_Subset
<1>3. Upto(p) \subseteq Upto(r) /\ r \in Upto(r) /\ r \notin Upto(p)
  <2>1. p \in Nat /\ r \in Nat /\ \A i \in at : i \in Nat
    OBVIOUS
  <2>2. (\A i \in at : i <= p => i <= r) /\ r <= r /\ ~(r <= p)
    BY <2>1
  <2> QED
    BY <2>2
<1>4. Upto(p) # Upto(r)
  BY <1>3
<1> HIDE DEF Upto
<1>5. Cardinality(Upto(p)) <= Cardinality(Upto(r))
  BY <1>2, <1>3, FS_Subset
<1>6. Cardinality(Upto(p)) # Cardinality(Upto(r))
  BY <1>2, <1>3, <1>4, FS_Subset
<1>7. Cardinality(Upto(p)) \in Nat /\ Cardinality(Upto(r)) \in Nat
  BY <1>2, FS_CardinalityType
<1> QED
  BY <1>5, <1>6, <1>7 DEF Upto

LEMMA NthOf ==
    ASSUME NEW n \in Nat, NEW at, at \subseteq 1..n
    PROVE  /\ Cardinality(at) \in Nat
           /\ \A k \in 1..Cardinality(at) :
                 Nth(at, k) \in at /\ \A m \in 1..k - 1 : Nth(at, m) < Nth(at, k)
           /\ \A p \in at : \E k \in 1..Cardinality(at) :
                 Nth(at, k) = p /\ \A m \in 1..k - 1 : Nth(at, m) < p
<1> DEFINE Rank(p) == Cardinality({q \in at : q <= p})
<1>1. IsFiniteSet(at) /\ Cardinality(at) \in Nat
  BY FS_Interval, FS_Subset, FS_CardinalityType, 1 \in Int, n \in Int
<1>2. ASSUME NEW k \in 1..Cardinality(at) PROVE Nth(at, k) \in at /\ Rank(Nth(at, k)) = k
  <2>1. \E p \in at : RankIn(at, p) = k
    BY RankedNumber
  <2> QED
    BY <2>1 DEF Nth, RankIn
<1>3. ASSUME NEW p \in at
      PROVE  Rank(p) \in 1..Cardinality(at)
  <2> DEFINE upto == {q \in at : q <= p}
  <2>1. upto \subseteq at /\ p \in upto
    OBVIOUS
  <2>2. IsFiniteSet(upto) /\ Cardinality(upto) <= Cardinality(at)
    BY <1>1, <2>1, FS_Subset
  <2>3. Cardinality(upto) \in Nat /\ Cardinality(upto) # 0
    BY <2>1, <2>2, FS_CardinalityType, FS_EmptySet
  <2> HIDE DEF upto
  <2>4. Cardinality(upto) \in 1..Cardinality(at)
    BY <1>1, <2>2, <2>3
  <2> QED
    BY <2>4 DEF upto
<1>4. \A p, r \in at : p < r => Rank(p) < Rank(r)
  BY RankGrows
<1>5. \A p \in at : p \in Nat
  OBVIOUS
<1>6. ASSUME NEW p \in at
      PROVE  \E k \in 1..Cardinality(at) :
                Nth(at, k) = p /\ \A m \in 1..k - 1 : Nth(at, m) < p
  <2>1. PICK k \in 1..Cardinality(at) : k = Rank(p)
    BY <1>3
  <2>2. ASSUME NEW m \in 1..Cardinality(at), m <= k
        PROVE  Nth(at, m) < p \/ Nth(at, m) = p
    <3>1. Nth(at, m) \in at /\ Rank(Nth(at, m)) = m
      BY <1>2
    <3>2. p < Nth(at, m) => Rank(p) < Rank(Nth(at, m))
      BY <1>4, <3>1
    <3> HIDE DEF Rank
    <3>3. ~(k < m)
      BY <1>1, <2>2
    <3>4. ~(p < Nth(at, m))
      BY <2>1, <3>1, <3>2, <3>3
    <3>5. PICK r \in at : r = Nth(at, m)
      BY <3>1
    <3>6. r \in Nat /\ p \in Nat /\ ~(p < r)
      BY <1>5, <3>4, <3>5
    <3>7. r < p \/ r = p
      BY <3>6
    <3> QED
      BY <3>5, <3>7
  <2>3. Nth(at, k) = p
    <3>1. Nth(at, k) \in at /\ Rank(Nth(at, k)) = k
      BY <1>2
    <3>2. Nth(at, k) < p => Rank(Nth(at, k)) < Rank(p)
      BY <1>4, <3>1
    <3> HIDE DEF Rank
    <3> QED
      BY <1>1, <1>5, <2>1, <2>2, <3>1, <3>2
  <2>4. ASSUME NEW m \in 1..k - 1 PROVE Nth(at, m) < p
    <3>1. m \in 1..Cardinality(at) /\ m <= k /\ m # k
      BY <1>1
    <3>2. Rank(Nth(at, m)) = m /\ Rank(p) = k
      BY <1>2, <2>1, <3>1
    <3> QED
      BY <2>2, <3>1, <3>2
  <2> QED
    BY <2>3, <2>4
<1>7. ASSUME NEW k \in 1..Cardinality(at), NEW m \in 1..k - 1
      PROVE  Nth(at, m) < Nth(at, k)
  <2>1. PICK r \in at : r = Nth(at, k)
    BY <1>2
  <2>2. m \in 1..Cardinality(at) /\ ~(k <= m) /\ Rank(r) = k /\ k \in Nat
    BY <1>1, <1>2, <2>1
  <2>3. PICK p \in at : p = Nth(at, m) /\ Rank(p) = m
    BY <1>2, <2>2
  <2>4. p # r /\ ~(r < p)
    <3>1. r < p => Rank(r) < Rank(p)
      BY <1>4
    <3> HIDE DEF Rank
    <3>2. ~(k < m) /\ k # m
      BY <1>1, <2>2
    <3> QED
      BY <2>2, <2>3, <3>1, <3>2
  <2> QED
    BY <1>5, <2>1, <2>3, <2>4
<1> QED
  BY <1>1, <1>2, <1>6, <1>7

LEMMA PickedIs ==
    ASSUME NEW T, NEW q \in Seq(T), NEW at, at \subseteq DOMAIN q
    PROVE  /\ Picked(q, at) \in Seq(T)
           /\ ToSet(Picked(q, at)) = {q[i] : i \in at}
           /\ \A k \in DOMAIN Picked(q, at) : \A m \in 1..k - 1 :
                 \E p, r \in at : p < r /\ Picked(q, at)[m] = q[p] /\ Picked(q, at)[k] = q[r]
           /\ \A p \in at : \E k \in DOMAIN Picked(q, at) :
                 /\ Picked(q, at)[k] = q[p]
                 /\ \A m \in 1..k - 1 : m \in DOMAIN Picked(q, at) /\ \E r \in at : r < p /\ Picked(q, at)[m] = q[r]
<1>1. /\ Len(q) \in Nat /\ at \subseteq 1..Len(q) /\ \A i \in at : q[i] \in T
  BY ElementOfSeq
<1>2. /\ Cardinality(at) \in Nat
      /\ \A k \in 1..Cardinality(at) :
            Nth(at, k) \in at /\ \A m \in 1..k - 1 : Nth(at, m) < Nth(at, k)
      /\ \A p \in at : \E k \in 1..Cardinality(at) :
            Nth(at, k) = p /\ \A m \in 1..k - 1 : Nth(at, m) < p
  BY <1>1, NthOf
<1> DEFINE s == Picked(q, at)
<1>3. /\ DOMAIN s = 1..Cardinality(at)
      /\ \A k \in 1..Cardinality(at) : s[k] = q[Nth(at, k)]
  BY DEF Picked
<1>4. s = [k \in 1..Cardinality(at) |-> s[k]]
  BY DEF Picked
<1>5. \A k \in 1..Cardinality(at) : s[k] \in T
  BY <1>1, <1>2, <1>3
<1> HIDE DEF s
<1>6. s \in Seq(T)
  BY <1>2, <1>4, <1>5
<1>7. \A p \in at : \E k \in DOMAIN s :
         s[k] = q[p] /\ \A m \in 1..k - 1 : m \in DOMAIN s /\ \E r \in at : r < p /\ s[m] = q[r]
  <2> SUFFICES ASSUME NEW p \in at
               PROVE  \E k \in DOMAIN s : s[k] = q[p]
                        /\ \A m \in 1..k - 1 : m \in DOMAIN s /\ \E r \in at : r < p /\ s[m] = q[r]
    OBVIOUS
  <2>1. PICK k \in 1..Cardinality(at) : Nth(at, k) = p /\ \A m \in 1..k - 1 : Nth(at, m) < p
    BY <1>2
  <2>2. ASSUME NEW m \in 1..k - 1
        PROVE  m \in DOMAIN s /\ \E r \in at : r < p /\ s[m] = q[r]
    <3>1. m \in 1..Cardinality(at)
      BY <1>2
    <3> QED
      BY <1>2, <1>3, <2>1, <3>1
  <2> QED
    BY <1>3, <2>1, <2>2
<1>8. \A k \in DOMAIN s : \E p \in at : s[k] = q[p]
  BY <1>2, <1>3
<1>9. ToSet(s) = {s[k] : k \in DOMAIN s}
  BY DEF ToSet
<1>10. ASSUME NEW k \in DOMAIN s, NEW m \in 1..k - 1
       PROVE  \E p, r \in at : p < r /\ s[m] = q[p] /\ s[k] = q[r]
  <2>1. k \in 1..Cardinality(at) /\ m \in 1..Cardinality(at)
    BY <1>2, <1>3
  <2>2. Nth(at, m) < Nth(at, k) /\ Nth(at, m) \in at /\ Nth(at, k) \in at
    BY <1>2, <2>1
  <2> QED
    BY <1>3, <2>1, <2>2
<1> QED
  BY <1>6, <1>7, <1>8, <1>9, <1>10 DEF s

(* FlattenSeq: the recursion it is defined by has a solution.               *)
LEMMA FlattenSteps ==
    ASSUME NEW ss, Len(ss) \in Nat \ {0}
    PROVE  \E flat :
              /\ FlattenSeq(ss) = flat[Len(ss)] /\ flat[1] = ss[1]
              /\ \A i \in 2..Len(ss) : flat[i] = flat[i - 1] \o ss[i]
<1> DEFINE Flat(f, n) == f = [i \in 1..n |-> IF i = 1 THEN ss[i] ELSE f[i - 1] \o ss[i]]
           S == {n \in Nat : \E f : Flat(f, n)}
<1>1. 0 \in S
  <2>1. Flat([i \in 1..0 |-> ss[i]], 0)
    OBVIOUS
  <2>2. QED
    BY <2>1
<1>2. ASSUME NEW n \in Nat, n \in S PROVE n + 1 \in S
  <2>1. PICK f : Flat(f, n)
    BY <1>2
  <2> DEFINE g == [i \in 1..n + 1 |-> IF i <= n THEN f[i]
                                       ELSE IF i = 1 THEN ss[i] ELSE f[i - 1] \o ss[i]]
  <2>2. ASSUME NEW i \in 1..n + 1
        PROVE  g[i] = IF i = 1 THEN ss[i] ELSE g[i - 1] \o ss[i]
    <3>1. CASE i <= n /\ i = 1
      BY <2>1, <3>1
    <3>2. CASE i <= n /\ i # 1
      <4>1. i \in 1..n /\ i - 1 \in 1..n + 1 /\ i - 1 <= n
        BY <3>2
      <4>2. f[i] = f[i - 1] \o ss[i]
        BY <2>1, <3>2, <4>1
      <4>3. g[i] = f[i] /\ g[i - 1] = f[i - 1]
        BY <4>1, <3>2
      <4>4. QED
        BY <3>2, <4>2, <4>3
    <3>3. CASE i = n + 1
      <4>1. CASE i = 1
        BY <3>3, <4>1
      <4>2. CASE i # 1
        <5>1. i - 1 = n /\ i - 1 \in 1..n + 1 /\ ~(i <= n)
          BY <3>3, <4>2
        <5>2. g[i - 1] = f[i - 1]
          BY <5>1
        <5>3. g[i] = f[i - 1] \o ss[i]
          BY <5>1, <4>2
        <5>4. QED
          BY <4>2, <5>2, <5>3
      <4>3. QED
        BY <4>1, <4>2
    <3>4. i <= n \/ i = n + 1
      OBVIOUS
    <3>5. QED
      BY <3>1, <3>2, <3>3, <3>4
  <2>3. Flat(g, n + 1)
    BY <2>2
  <2>4. \E h : Flat(h, n + 1)
    <3> HIDE DEF g
    <3>1. QED
      BY <2>3
  <2>5. n + 1 \in Nat
    OBVIOUS
  <2>6. QED
    <3> HIDE DEF Flat
    <3>1. QED
      BY <2>4, <2>5
<1>3. Len(ss) \in S
  <2> HIDE DEF S
  <2>1. QED
    BY <1>1, <1>2, NumberInduction
<1> DEFINE flat == CHOOSE f : Flat(f, Len(ss))
<1>4. Flat(flat, Len(ss))
    BY <1>3
<1>5. FlattenSeq(ss) = flat[Len(ss)]
    BY DEF FlattenSeq
<1> HIDE DEF flat
<1>6. flat[1] = ss[1]
  <2>1. 1 \in 1..Len(ss)
    OBVIOUS
  <2>2. QED
    BY <1>4, <2>1
<1>7. ASSUME NEW i \in 2..Len(ss) PROVE flat[i] = flat[i - 1] \o ss[i]
  <2>1. i \in 1..Len(ss) /\ i # 1
    OBVIOUS
  <2>2. QED
    BY <1>4, <2>1
<1>8. QED
    BY <1>5, <1>6, <1>7

LEMMA FlattenType ==
    ASSUME NEW T, NEW ss \in Seq(Seq(T))
    PROVE  /\ FlattenSeq(ss) \in Seq(T)
           /\ ss # <<>> /\ (\A i \in DOMAIN ss : ss[i] # <<>>) => FlattenSeq(ss) # <<>>
<1>1. CASE ss = <<>>
    BY <1>1 DEF FlattenSeq
<1>2. CASE ss # <<>>
  <2>1. Len(ss) \in Nat \ {0} /\ DOMAIN ss = 1..Len(ss) /\ \A i \in 1..Len(ss) : ss[i] \in Seq(T)
    BY <1>2, EmptySeq
  <2>2. PICK flat : /\ FlattenSeq(ss) = flat[Len(ss)] /\ flat[1] = ss[1]
                    /\ \A i \in 2..Len(ss) : flat[i] = flat[i - 1] \o ss[i]
    BY <2>1, FlattenSteps
  <2> DEFINE Good(n) == /\ flat[n] \in Seq(T)
                        /\ (\A i \in 1..Len(ss) : ss[i] # <<>>) => flat[n] # <<>>
             S == {n \in Nat : n + 1 <= Len(ss) => Good(n + 1)}
  <2>3. 0 \in S
    BY <2>1, <2>2
  <2>4. ASSUME NEW n \in Nat, n \in S PROVE n + 1 \in S
    <3>1. SUFFICES ASSUME n + 1 + 1 <= Len(ss) PROVE Good(n + 1 + 1)
      OBVIOUS
    <3>2. n + 1 + 1 \in 2..Len(ss) /\ (n + 1 + 1) - 1 = n + 1 /\ Good(n + 1)
      BY <2>1, <2>4, <3>1
    <3>3. flat[n + 1 + 1] = flat[n + 1] \o ss[n + 1 + 1]
      BY <2>2, <3>2
    <3>4. flat[n + 1] \in Seq(T) /\ ss[n + 1 + 1] \in Seq(T)
      BY <2>1, <3>2
    <3>5. flat[n + 1] # <<>> => flat[n + 1] \o ss[n + 1 + 1] # <<>>
      BY <3>4
    <3>6. QED
      BY <3>2, <3>3, <3>4, <3>5
  <2>5. Len(ss) - 1 \in S
    <3> HIDE DEF S
    <3>1. Nat \subseteq S
      BY <2>3, <2>4, NumberInduction
    <3>2. Len(ss) - 1 \in Nat
      BY <2>1
    <3>3. QED
      BY <3>1, <3>2
  <2>6. Good(Len(ss))
    BY <2>1, <2>5
  <2>7. QED
    BY <2>1, <2>2, <2>6
<1>3. QED
    BY <1>1, <1>2

(* Where the parts of a flattened sequence begin: part i takes the places   *)
(* o[i - 1] + 1 to o[i].                                                    *)
AreOffsets(o, lens, n) ==
    o \in [0..n -> Nat] /\ o[0] = 0 /\ \A i \in 1..n : o[i] = o[i - 1] + lens[i]
Offsets(lens) == CHOOSE o : AreOffsets(o, lens, Len(lens))

LEMMA OffsetsOf ==
    ASSUME NEW lens \in Seq(Nat)
    PROVE  /\ AreOffsets(Offsets(lens), lens, Len(lens))
           /\ \A i, k \in 0..Len(lens) : i <= k => Offsets(lens)[i] <= Offsets(lens)[k]
           /\ \A k \in 1..Offsets(lens)[Len(lens)] : \E i \in 1..Len(lens) : \E j \in 1..lens[i] :
                 k = Offsets(lens)[i - 1] + j
<1>1. PICK m \in Nat : m = Len(lens)
  OBVIOUS
<1>2. \A i \in 1..m : lens[i] \in Nat
  BY <1>1
<1> DEFINE S == {n \in Nat : n <= m => \E o : AreOffsets(o, lens, n)}
<1>3. 0 \in S
  <2>1. AreOffsets([i \in 0..0 |-> 0], lens, 0)
    BY DEF AreOffsets
  <2> QED
    BY <2>1
<1>4. ASSUME NEW n \in Nat, n \in S PROVE n + 1 \in S
  <2>1. SUFFICES ASSUME n + 1 <= m PROVE \E o : AreOffsets(o, lens, n + 1)
    OBVIOUS
  <2>2. PICK o : AreOffsets(o, lens, n)
    BY <1>1, <1>4, <2>1
  <2>3. o[n] \in Nat /\ lens[n + 1] \in Nat
    BY <1>1, <1>2, <2>1, <2>2 DEF AreOffsets
  <2>4. PICK last \in Nat : last = o[n] + lens[n + 1]
    BY <2>3
  <2> DEFINE q == [i \in 0..n + 1 |-> IF i <= n THEN o[i] ELSE last]
  <2>5. q \in [0..n + 1 -> Nat]
    <3>1. ASSUME NEW i \in 0..n + 1, i <= n PROVE o[i] \in Nat
      BY <2>2, <3>1 DEF AreOffsets
    <3> QED
      BY <3>1
  <2>6. q[0] = 0
    BY <2>2 DEF AreOffsets
  <2>7. ASSUME NEW i \in 1..n + 1 PROVE q[i] = q[i - 1] + lens[i]
    <3>1. CASE i <= n
      <4>1. i \in 1..n /\ i \in 0..n + 1 /\ i - 1 \in 0..n + 1 /\ i - 1 <= n
        BY <3>1
      <4> QED
        BY <2>2, <3>1, <4>1 DEF AreOffsets
    <3>2. CASE i = n + 1
      <4>1. i \in 0..n + 1 /\ i - 1 = n /\ n \in 0..n + 1 /\ ~(i <= n)
        BY <3>2
      <4> QED
        BY <2>4, <3>2, <4>1
    <3> QED
      BY <3>1, <3>2
  <2>8. AreOffsets(q, lens, n + 1)
    <3> HIDE DEF q
    <3> QED
      BY <2>5, <2>6, <2>7 DEF AreOffsets
  <2> HIDE DEF q
  <2> QED
    BY <2>8
<1>5. m \in S
  <2> HIDE DEF S
  <2> QED
    BY <1>3, <1>4, NumberInduction
<1>6. \E o : AreOffsets(o, lens, Len(lens))
  BY <1>1, <1>5
<1>7. PICK o : o = Offsets(lens)
  OBVIOUS
<1>8. AreOffsets(o, lens, m)
  BY <1>1, <1>6, <1>7 DEF Offsets
<1> DEFINE U == {d \in Nat : \A i \in 0..m : i + d <= m => o[i] <= o[i + d]}
<1>9. \A i \in 0..m : o[i] \in Nat
  BY <1>8 DEF AreOffsets
<1>10. 0 \in U
  BY <1>9
<1>11. ASSUME NEW d \in Nat, d \in U PROVE d + 1 \in U
  <2>1. ASSUME NEW i \in 0..m, i + (d + 1) <= m PROVE o[i] <= o[i + (d + 1)]
    <3>1. i + (d + 1) \in 1..m /\ i + (d + 1) - 1 = i + d /\ i + d <= m /\ i + d \in 0..m
      BY <1>1, <2>1
    <3>2. o[i + (d + 1)] = o[i + d] + lens[i + (d + 1)]
      BY <1>8, <3>1 DEF AreOffsets
    <3>3. o[i] <= o[i + d]
      BY <1>11, <3>1
    <3>4. o[i] \in Nat /\ o[i + d] \in Nat /\ lens[i + (d + 1)] \in Nat
      BY <1>2, <1>9, <3>1
    <3> QED
      BY <3>2, <3>3, <3>4, SMTT(30)
  <2> QED
    BY <2>1
<1>12. ASSUME NEW i \in 0..m, NEW k \in 0..m, i <= k PROVE o[i] <= o[k]
  <2>1. PICK d \in Nat : d = k - i
    BY <1>12
  <2>2. i + d = k /\ i + d <= m
    BY <2>1
  <2>3. d \in U
    <3> HIDE DEF U
    <3> QED
      BY <1>10, <1>11, NumberInduction
  <2> QED
    BY <2>2, <2>3
<1>13. ASSUME NEW k \in 1..o[m] PROVE \E i \in 1..m : \E j \in 1..lens[i] : k = o[i - 1] + j
  <2> DEFINE T == {i \in 1..m : k <= o[i]}
  <2>1. T \subseteq Nat /\ T # {}
    <3>1. m \in 0..m /\ o[m] \in Nat /\ k <= o[m] /\ 1 <= k
      BY <1>9, <1>13
    <3>2. m # 0
      BY <1>8, <3>1 DEF AreOffsets
    <3>3. m \in T
      BY <3>1, <3>2
    <3> QED
      BY <3>3
  <2>2. PICK i \in T : \A x \in T : i <= x
    <3> HIDE DEF T
    <3> QED
      BY <2>1, LeastNumber
  <2>3. i \in 1..m /\ k <= o[i] /\ i - 1 \in 0..m /\ ~(i <= i - 1)
    BY <2>2
  <2>4. o[i - 1] < k
    <3>1. CASE i = 1
      BY <1>8, <3>1, <2>3 DEF AreOffsets
    <3>2. CASE i # 1
      <4>1. i - 1 \in 1..m
        BY <2>3, <3>2
      <4>2. ~(k <= o[i - 1])
        BY <2>2, <2>3, <4>1
      <4> QED
        BY <1>9, <2>3, <4>2
    <3> QED
      BY <3>1, <3>2
  <2>5. o[i] = o[i - 1] + lens[i] /\ lens[i] \in Nat /\ o[i - 1] \in Nat
    BY <1>2, <1>8, <1>9, <2>3 DEF AreOffsets
  <2>6. k - o[i - 1] \in 1..lens[i] /\ k = o[i - 1] + (k - o[i - 1])
    BY <2>3, <2>4, <2>5, SMTT(30)
  <2> QED
    BY <2>3, <2>6
<1> QED
  BY <1>1, <1>7, <1>8, <1>12, <1>13

(* q is ss flattened, with the parts at o.                                  *)
Lengths(ss) == [i \in 1..Len(ss) |-> Len(ss[i])]
FlatAt(ss, o, q) ==
    /\ AreOffsets(o, Lengths(ss), Len(ss))
    /\ \A i, k \in 0..Len(ss) : i <= k => o[i] <= o[k]
    /\ Len(q) = o[Len(ss)]
    /\ \A i \in 1..Len(ss) : \A j \in 1..Len(ss[i]) :
          o[i - 1] + j \in DOMAIN q /\ q[o[i - 1] + j] = ss[i][j]
    /\ \A k \in DOMAIN q : \E i \in 1..Len(ss) : \E j \in 1..Len(ss[i]) :
          k = o[i - 1] + j /\ q[k] = ss[i][j]
LEMMA FlattenAt ==
    ASSUME NEW T, NEW ss \in Seq(Seq(T))
    PROVE  FlattenSeq(ss) \in Seq(T) /\ FlatAt(ss, Offsets(Lengths(ss)), FlattenSeq(ss))
<1>0. PICK o : o = Offsets(Lengths(ss))
  OBVIOUS
<1>1. PICK n \in Nat : n = Len(ss)
  OBVIOUS
<1>2. \A i \in 1..n : ss[i] \in Seq(T)
  BY <1>1
<1>3. PICK lens : lens = Lengths(ss)
  OBVIOUS
<1>4. lens = [i \in 1..n |-> Len(ss[i])]
  BY <1>1, <1>3 DEF Lengths
<1>5. \A i \in 1..n : Len(ss[i]) \in Nat
  BY <1>2
<1>6. lens \in Seq(Nat) /\ Len(lens) = n
  BY <1>4, <1>5
<1>7. /\ AreOffsets(o, lens, n)
      /\ \A i, k \in 0..n : i <= k => o[i] <= o[k]
      /\ \A k \in 1..o[n] : \E i \in 1..n : \E j \in 1..lens[i] : k = o[i - 1] + j
  <2>1. o = Offsets(lens)
    BY <1>0, <1>3
  <2>2. /\ AreOffsets(Offsets(lens), lens, Len(lens))
        /\ \A i, k \in 0..Len(lens) : i <= k => Offsets(lens)[i] <= Offsets(lens)[k]
        /\ \A k \in 1..Offsets(lens)[Len(lens)] : \E i \in 1..Len(lens) : \E j \in 1..lens[i] :
              k = Offsets(lens)[i - 1] + j
    BY <1>6, OffsetsOf
  <2> QED
    BY <1>6, <2>1, <2>2, Zenon
<1>8. (\A i \in 0..n : o[i] \in Nat) /\ o[0] = 0 /\ \A i \in 1..n : o[i] = o[i - 1] + Len(ss[i])
  BY <1>4, <1>7 DEF AreOffsets
<1> DEFINE Good(flat, m) ==
              /\ flat \in Seq(T) /\ Len(flat) = o[m]
              /\ \A i \in 1..m : \A j \in 1..Len(ss[i]) : flat[o[i - 1] + j] = ss[i][j]
<1>9. Good(FlattenSeq(ss), n)
  <2>1. CASE n = 0
    <3>1. ss = <<>>
      BY <1>1, <2>1, EmptySeq
    <3>2. FlattenSeq(ss) = <<>>
      BY <3>1 DEF FlattenSeq
    <3> QED
      BY <1>8, <2>1, <3>2
  <2>2. CASE n # 0
    <3>1. Len(ss) \in Nat \ {0}
      BY <1>1, <2>2
    <3>2. PICK flat : /\ FlattenSeq(ss) = flat[Len(ss)] /\ flat[1] = ss[1]
                      /\ \A i \in 2..Len(ss) : flat[i] = flat[i - 1] \o ss[i]
      BY <3>1, FlattenSteps
    <3> DEFINE S == {m \in Nat : m + 1 <= n => Good(flat[m + 1], m + 1)}
    <3>3. 0 \in S
      <4>1. 1 \in 1..n /\ ss[1] \in Seq(T) /\ o[1] = Len(ss[1]) /\ o[0] = 0
        <5>1. 1 \in 1..n
          BY <2>2
        <5>2. o[1] = o[1 - 1] + Len(ss[1]) /\ Len(ss[1]) \in Nat
          BY <1>5, <1>8, <5>1
        <5>3. o[1 - 1] = 0
          BY <1>8
        <5>4. ss[1] \in Seq(T)
          BY <1>2, <5>1
        <5> QED
          BY <1>8, <5>1, <5>2, <5>3, <5>4
      <4>2. ASSUME NEW i \in 1..1, NEW j \in 1..Len(ss[i]) PROVE ss[1][o[i - 1] + j] = ss[i][j]
        <5>1. i = 1 /\ i - 1 = 0
          OBVIOUS
        <5>2. o[i - 1] + j = j
          BY <4>1, <5>1
        <5> QED
          BY <5>1, <5>2
      <4>3. Good(ss[1], 1)
        BY <4>1, <4>2
      <4>4. flat[0 + 1] = ss[1] /\ 0 + 1 = 1
        BY <3>2
      <4> QED
        BY <4>3, <4>4
    <3>4. ASSUME NEW m \in Nat, m \in S PROVE m + 1 \in S
      <4>1. SUFFICES ASSUME m + 1 + 1 <= n PROVE Good(flat[m + 1 + 1], m + 1 + 1)
        OBVIOUS
      <4>2. PICK x \in 1..n, y \in 2..n : x = m + 1 /\ y = m + 1 + 1
        BY <4>1
      <4>3. y - 1 = x /\ y \in 1..n /\ x <= n /\ y = x + 1
        BY <4>2
      <4>4. PICK p, q, r : p = flat[x] /\ q = ss[y] /\ r = flat[y]
        OBVIOUS
      <4>5. r = p \o q
        BY <1>1, <3>2, <4>2, <4>3, <4>4
      <4>6. Good(p, x) /\ q \in Seq(T) /\ o[y] = o[x] + Len(q) /\ o[x] \in Nat
        BY <1>2, <1>8, <3>4, <4>2, <4>3, <4>4
      <4>7. r \in Seq(T) /\ Len(r) = Len(p) + Len(q)
            /\ (\A i \in 1..Len(p) : r[i] = p[i])
            /\ (\A i \in Len(p) + 1..Len(p) + Len(q) : r[i] = q[i - Len(p)])
        <5>1. p \in Seq(T) /\ q \in Seq(T)
          BY <4>6
        <5> HIDE DEF Good
        <5> QED
          BY <4>5, <5>1, ConcatProperties
      <4>8. ASSUME NEW i \in 1..y, NEW j \in 1..Len(ss[i]) PROVE r[o[i - 1] + j] = ss[i][j]
        <5>1. CASE i = y
          <6>1. i - 1 = x /\ o[x] = Len(p)
            BY <4>3, <4>6, <5>1
          <6>2. PICK k : k = Len(p) + j
            OBVIOUS
          <6>3. j \in 1..Len(q) /\ Len(p) \in Nat /\ Len(q) \in Nat
            BY <4>4, <4>6, <5>1
          <6>4. k \in Len(p) + 1..Len(p) + Len(q) /\ k - Len(p) = j
            BY <6>2, <6>3
          <6>5. r[k] = q[j]
            BY <4>7, <6>4
          <6> QED
            BY <4>4, <5>1, <6>1, <6>2, <6>5
        <5>2. CASE i # y
          <6>1. i \in 1..x /\ i \in 1..n /\ i - 1 \in 0..n /\ i \in 0..n /\ x \in 0..n /\ i <= x
            BY <4>3, <5>2
          <6>2. o[i] <= o[x] /\ o[i] = o[i - 1] + Len(ss[i]) /\ o[i - 1] \in Nat /\ Len(ss[i]) \in Nat
            BY <1>5, <1>7, <1>8, <6>1
          <6>3. o[i - 1] + j \in 1..o[x]
            <7>1. PICK a, b, l \in Nat : a = o[i - 1] /\ b = o[x] /\ l = Len(ss[i])
              BY <1>8, <6>1, <6>2
            <7>2. a + l <= b /\ j \in 1..l
              BY <6>2, <7>1
            <7>3. a + j \in 1..b
              BY <7>2
            <7> QED
              BY <7>1, <7>3
          <6>4. r[o[i - 1] + j] = p[o[i - 1] + j]
            BY <4>6, <4>7, <6>3
          <6> QED
            BY <4>6, <6>1, <6>4
        <5> QED
          BY <5>1, <5>2
      <4>9. Len(r) = o[y]
        BY <4>6, <4>7
      <4>10. Good(r, y)
        BY <4>7, <4>8, <4>9
      <4> QED
        BY <4>2, <4>4, <4>10
    <3>5. PICK m \in Nat : m + 1 = n
      <4>1. n - 1 \in Nat /\ (n - 1) + 1 = n
        BY <2>2
      <4> QED
        BY <4>1
    <3>6. m \in S
      <4> HIDE DEF S
      <4> QED
        BY <3>3, <3>4, NumberInduction
    <3>7. Good(flat[n], n)
      BY <3>5, <3>6
    <3> QED
      BY <1>1, <3>2, <3>7
  <2> QED
    BY <2>1, <2>2
<1>10. DOMAIN FlattenSeq(ss) = 1..o[n]
  BY <1>9
<1>11. ASSUME NEW i \in 1..n, NEW j \in 1..Len(ss[i]) PROVE o[i - 1] + j \in 1..o[n]
  <2>1. i - 1 \in 0..n /\ i \in 0..n /\ n \in 0..n /\ i <= n
    OBVIOUS
  <2>2. o[i] <= o[n] /\ o[i] = o[i - 1] + Len(ss[i]) /\ o[i - 1] \in Nat /\ Len(ss[i]) \in Nat /\ o[n] \in Nat
    BY <1>5, <1>7, <1>8, <2>1
  <2>3. PICK a, b, l \in Nat : a = o[i - 1] /\ b = o[n] /\ l = Len(ss[i])
    BY <2>2
  <2>4. a + l <= b /\ j \in 1..l
    BY <2>2, <2>3
  <2>5. a + j \in 1..b
    BY <2>4
  <2> QED
    BY <2>3, <2>5
<1>12. \A k \in 1..o[n] : \E i \in 1..n : \E j \in 1..Len(ss[i]) : k = o[i - 1] + j
  BY <1>4, <1>7
<1> HIDE DEF Good
<1>13. \A i \in 1..n : \A j \in 1..Len(ss[i]) : FlattenSeq(ss)[o[i - 1] + j] = ss[i][j]
  BY <1>9 DEF Good
<1>14. \A k \in 1..o[n] : \E i \in 1..n : \E j \in 1..Len(ss[i]) : k = o[i - 1] + j /\ FlattenSeq(ss)[k] = ss[i][j]
  BY <1>12, <1>13, SMTT(30)
<1>15. FlattenSeq(ss) \in Seq(T) /\ Len(FlattenSeq(ss)) = o[n]
  BY <1>9 DEF Good
<1> QED
  BY <1>0, <1>1, <1>3, <1>7, <1>10, <1>11, <1>13, <1>14, <1>15 DEF FlatAt

(* p, then q.                                                               *)
JoinAt(p, q, r) ==
    /\ Len(p) \in Nat /\ Len(q) \in Nat /\ Len(r) = Len(p) + Len(q)
    /\ \A i \in 1..Len(p) : r[i] = p[i]
    /\ \A i \in Len(p) + 1..Len(p) + Len(q) : r[i] = q[i - Len(p)]
    /\ \A i \in 1..Len(q) : r[Len(p) + i] = q[i]
LEMMA Joined ==
    ASSUME NEW T, NEW p \in Seq(T), NEW q \in Seq(T) PROVE p \o q \in Seq(T) /\ JoinAt(p, q, p \o q)
<1>1. PICK r : r = p \o q
  OBVIOUS
<1>2. /\ r \in Seq(T) /\ Len(r) = Len(p) + Len(q)
      /\ (\A i \in 1..Len(p) : r[i] = p[i])
      /\ (\A i \in Len(p) + 1..Len(p) + Len(q) : r[i] = q[i - Len(p)])
  BY <1>1, ConcatProperties
<1>3. Len(p) \in Nat /\ Len(q) \in Nat
  OBVIOUS
<1>4. ASSUME NEW i \in 1..Len(q) PROVE r[Len(p) + i] = q[i]
  <2>1. PICK k : k = Len(p) + i
    OBVIOUS
  <2>2. k \in Len(p) + 1..Len(p) + Len(q) /\ k - Len(p) = i
    BY <1>3, <2>1
  <2> QED
    BY <1>2, <2>1, <2>2
<1> QED
  BY <1>1, <1>2, <1>3, <1>4 DEF JoinAt

LEMMA OneOrNone ==
    ASSUME NEW T, NEW x \in T, NEW q, q = <<>> \/ q = <<x>>
    PROVE  /\ q \in Seq(T) /\ Len(q) \in {0, 1} /\ (Len(q) = 1 <=> q # <<>>)
           /\ Len(q) = 1 => q[1] = x
<1>1. CASE q = <<>>
  BY <1>1
<1>2. CASE q = <<x>>
  BY <1>2
<1> QED
  BY <1>1, <1>2

(* Elements of a flattened sequence are in the order of their parts.        *)
LEMMA FlatOrder ==
    ASSUME NEW T, NEW ss \in Seq(Seq(T)), NEW o, NEW q, FlatAt(ss, o, q),
           NEW i \in 1..Len(ss), NEW k \in 1..Len(ss),
           NEW j \in 1..Len(ss[i]), NEW m \in 1..Len(ss[k]),
           o[i - 1] + j < o[k - 1] + m
    PROVE  i < k \/ (i = k /\ j < m)
<1>1. PICK n \in Nat : n = Len(ss)
  OBVIOUS
<1>2. o \in [0..n -> Nat] /\ (\A x \in 1..n : o[x] = o[x - 1] + Lengths(ss)[x])
      /\ \A x, y \in 0..n : x <= y => o[x] <= o[y]
  BY <1>1 DEF FlatAt, AreOffsets
<1>3. Lengths(ss)[k] = Len(ss[k]) /\ Len(ss[k]) \in Nat
  <2>1. ss[k] \in Seq(T)
    OBVIOUS
  <2> QED
    BY <2>1 DEF Lengths
<1>4. i \in 1..n /\ k \in 1..n /\ i - 1 \in 0..n /\ k - 1 \in 0..n /\ k \in 0..n
  BY <1>1
<1>5. PICK a, b, c \in Nat : a = o[i - 1] /\ b = o[k - 1] /\ c = o[k]
  BY <1>2, <1>4
<1>6. c = b + Len(ss[k]) /\ m \in Nat /\ j \in Nat /\ m <= Len(ss[k]) /\ j > 0
  BY <1>2, <1>3, <1>4, <1>5
<1>7. ~(i > k)
  <2> SUFFICES ASSUME i > k PROVE FALSE
    OBVIOUS
  <2>1. k <= i - 1
    BY <1>4
  <2>2. c <= a
    BY <1>2, <1>4, <1>5, <2>1
  <2>3. PICK len \in Nat : len = Len(ss[k])
    BY <1>3
  <2>4. a + j < b + m /\ m <= len /\ c = b + len /\ m \in Nat /\ j \in Nat /\ j > 0
    BY <1>5, <1>6, <2>3
  <2> QED
    BY <2>2, <2>4
<1>8. i = k => j < m
  BY <1>5, <1>6
<1> QED
  BY <1>4, <1>7, <1>8

(* The numbers up to n, in ascending order.                                 *)
LEMMA Ascending ==
    ASSUME NEW n \in Nat, NEW q \in Seq(Nat), \A i, k \in 1..Len(q) : i < k => q[i] < q[k],
           {q[i] : i \in DOMAIN q} = 1..n
    PROVE  Len(q) = n /\ \A i \in 1..n : q[i] = i
<1>1. PICK m \in Nat : m = Len(q) /\ DOMAIN q = 1..m
  OBVIOUS
<1>2. \A i \in 1..m : q[i] \in 1..n
  BY <1>1
<1>3. \A x \in 1..n : \E i \in 1..m : q[i] = x
  BY <1>1
<1> DEFINE S == {i \in Nat : i \in 1..m => q[i] = i}
<1>4. ASSUME NEW i \in Nat, \A k \in 0..i - 1 : k \in S PROVE i \in S
  <2> SUFFICES ASSUME i \in 1..m PROVE q[i] = i
    OBVIOUS
  <2>1. \A k \in 1..m : k < i => q[k] = k
    BY <1>4
  <2>2. q[i] >= i
    <3>1. CASE i = 1
      BY <1>2, <3>1
    <3>2. CASE i > 1
      <4>1. i - 1 \in 1..m /\ i - 1 < i
        BY <1>1, <3>2
      <4>2. q[i - 1] = i - 1 /\ q[i - 1] < q[i]
        BY <1>1, <2>1, <4>1
      <4> QED
        BY <1>2, <4>2
    <3> QED
      BY <3>1, <3>2
  <2>3. ~(q[i] > i)
    <3> SUFFICES ASSUME q[i] > i PROVE FALSE
      OBVIOUS
    <3>1. PICK k \in 1..m : q[k] = i
      <4>1. i \in 1..n
        BY <1>2
      <4> QED
        BY <1>3, <4>1
    <3>2. k < i \/ k = i \/ i < k
      OBVIOUS
    <3>3. i < k => q[i] < q[k]
      BY <1>1
    <3> QED
      BY <1>2, <2>1, <3>1, <3>2, <3>3
  <2> QED
    BY <1>2, <2>2, <2>3
<1>5. \A i \in 1..m : q[i] = i
  <2>2. Nat \subseteq S
    <3> HIDE DEF S
    <3> QED
      BY <1>4, StrongInduction
  <2> QED
    BY <2>2
<1>6. m = n
  <2>1. m <= n
    BY <1>2, <1>5
  <2>2. n <= m
    BY <1>3, <1>5
  <2> QED
    BY <2>1, <2>2
<1> QED
  BY <1>1, <1>5, <1>6

(* Induction over a sequence, for a set of sequences.                       *)
LEMMA SequenceInduction ==
    ASSUME NEW T, NEW S, <<>> \in S, \A s \in Seq(T), e \in T : s \in S => Append(s, e) \in S
    PROVE  Seq(T) \subseteq S
<1> DEFINE N == {n \in Nat : \A s \in Seq(T) : Len(s) = n => s \in S}
<1>1. 0 \in N
  <2>1. ASSUME NEW s \in Seq(T), Len(s) = 0 PROVE s \in S
    <3>1. s = <<>>
      BY <2>1, EmptySeq
    <3> QED
      BY <3>1
  <2> QED
    BY <2>1
<1>2. ASSUME NEW n \in Nat, n \in N PROVE n + 1 \in N
  <2>1. ASSUME NEW s \in Seq(T), Len(s) = n + 1 PROVE s \in S
    <3>1. s # <<>>
      BY <2>1, EmptySeq
    <3>2. PICK t \in Seq(T), e \in T : s = Append(t, e)
      BY <3>1, SequenceEmptyOrAppend
    <3>3. Len(s) = Len(t) + 1 /\ Len(t) \in Nat
      BY <3>2, AppendProperties
    <3>4. Len(t) = n
      BY <2>1, <3>3
    <3>5. t \in S
      BY <1>2, <3>4
    <3> QED
      BY <3>2, <3>5
  <2> QED
    BY <2>1
<1>3. Nat \subseteq N
  <2> HIDE DEF N
  <2> QED
    BY <1>1, <1>2, NumberInduction
<1>4. ASSUME NEW s \in Seq(T) PROVE s \in S
  <2>1. Len(s) \in N
    BY <1>3
  <2> QED
    BY <2>1
<1> QED
  BY <1>4

LEMMA FlattenNone == FlattenSeq(<<>>) = <<>>
  BY DEF FlattenSeq

LEMMA FlattenOne == ASSUME NEW T, NEW s \in Seq(T) PROVE FlattenSeq(<<s>>) = s
<1>1. PICK ss : ss = <<s>>
  OBVIOUS
<1>2. Len(ss) = 1 /\ ss[1] = s /\ Len(ss) \in Nat \ {0}
  BY <1>1
<1>3. PICK flat : FlattenSeq(ss) = flat[Len(ss)] /\ flat[1] = ss[1]
  BY <1>2, FlattenSteps
<1> QED
  BY <1>1, <1>2, <1>3

LEMMA FlattenAppend ==
    ASSUME NEW T, NEW ss \in Seq(Seq(T)), NEW s \in Seq(T)
    PROVE  FlattenSeq(Append(ss, s)) = FlattenSeq(ss) \o s
<1>1. PICK n \in Nat : n = Len(ss)
  OBVIOUS
<1>2. PICK tt \in Seq(Seq(T)) : tt = Append(ss, s)
  BY AppendProperties
<1>3. Len(tt) = n + 1 /\ tt[n + 1] = s /\ \A i \in 1..n : tt[i] = ss[i]
  BY <1>1, <1>2, AppendProperties
<1>4. CASE n = 0
  <2>1. ss = <<>>
    BY <1>1, <1>4, EmptySeq
  <2>2. tt = <<s>>
    BY <1>2, <2>1
  <2>3. FlattenSeq(tt) = s /\ FlattenSeq(ss) = <<>>
    BY <2>1, <2>2, FlattenOne, FlattenNone
  <2>4. <<>> \o s = s
    BY ConcatEmptySeq
  <2> QED
    BY <1>2, <2>3, <2>4
<1>5. CASE n # 0
  <2>1. PICK f : /\ FlattenSeq(ss) = f[n] /\ f[1] = ss[1]
                 /\ \A i \in 2..n : f[i] = f[i - 1] \o ss[i]
    <3>1. Len(ss) \in Nat \ {0}
      BY <1>1, <1>5
    <3> QED
      BY <1>1, <3>1, FlattenSteps
  <2>2. PICK g : /\ FlattenSeq(tt) = g[n + 1] /\ g[1] = tt[1]
                 /\ \A i \in 2..n + 1 : g[i] = g[i - 1] \o tt[i]
    <3>1. Len(tt) \in Nat \ {0}
      BY <1>3
    <3>2. PICK g : /\ FlattenSeq(tt) = g[Len(tt)] /\ g[1] = tt[1]
                   /\ \A i \in 2..Len(tt) : g[i] = g[i - 1] \o tt[i]
      BY <3>1, FlattenSteps
    <3> QED
      BY <1>3, <3>2
  <2> DEFINE S == {k \in Nat : k < n => f[k + 1] = g[k + 1]}
  <2>3. 0 \in S
    BY <1>3, <1>5, <2>1, <2>2
  <2>4. ASSUME NEW k \in Nat, k \in S PROVE k + 1 \in S
    <3>1. SUFFICES ASSUME k + 1 < n PROVE f[(k + 1) + 1] = g[(k + 1) + 1]
      OBVIOUS
    <3>2. PICK i \in 2..n : i = (k + 1) + 1 /\ i - 1 = k + 1
      BY <3>1
    <3>3. f[i - 1] = g[i - 1]
      BY <2>4, <3>1, <3>2
    <3>4. f[i] = f[i - 1] \o ss[i]
      BY <2>1, <3>2
    <3>5. g[i] = g[i - 1] \o tt[i] /\ tt[i] = ss[i]
      <4>1. i \in 2..n + 1 /\ i \in 1..n
        BY <3>2
      <4> QED
        BY <1>3, <2>2, <4>1
    <3> QED
      BY <3>2, <3>3, <3>4, <3>5
  <2>5. Nat \subseteq S
    <3> HIDE DEF S
    <3> QED
      BY <2>3, <2>4, NumberInduction
  <2>6. PICK k \in Nat : k + 1 = n /\ k < n
    BY <1>5
  <2>7. f[n] = g[n]
    BY <2>5, <2>6
  <2>8. g[n + 1] = g[n] \o s
    <3>1. n + 1 \in 2..n + 1 /\ (n + 1) - 1 = n
      BY <1>5
    <3> QED
      BY <1>3, <2>2, <3>1
  <2> QED
    BY <1>2, <2>1, <2>2, <2>7, <2>8
<1> QED
  BY <1>4, <1>5

LEMMA FlattenJoined ==
    ASSUME NEW T, NEW ss \in Seq(Seq(T)), NEW tt \in Seq(Seq(T))
    PROVE  FlattenSeq(ss \o tt) = FlattenSeq(ss) \o FlattenSeq(tt)
<1> DEFINE S == {uu \in Seq(Seq(T)) : FlattenSeq(ss \o uu) = FlattenSeq(ss) \o FlattenSeq(uu)}
<1>1. <<>> \in S
  <2>1. ss \o <<>> = ss /\ <<>> \in Seq(Seq(T))
    BY ConcatEmptySeq
  <2>2. FlattenSeq(ss) \o <<>> = FlattenSeq(ss)
    BY FlattenType, ConcatEmptySeq
  <2> QED
    BY <2>1, <2>2, FlattenNone
<1>2. ASSUME NEW uu \in Seq(Seq(T)), NEW e \in Seq(T), uu \in S PROVE Append(uu, e) \in S
  <2>1. ss \o Append(uu, e) = Append(ss \o uu, e) /\ ss \o uu \in Seq(Seq(T))
    <3>1. Append(uu, e) = uu \o <<e>> /\ <<e>> \in Seq(Seq(T))
      BY AppendIsConcat
    <3>2. ss \o (uu \o <<e>>) = (ss \o uu) \o <<e>>
      BY <3>1, ConcatAssociative
    <3>3. ss \o uu \in Seq(Seq(T))
      BY ConcatProperties
    <3> QED
      BY <3>1, <3>2, <3>3, AppendIsConcat
  <2>2. FlattenSeq(Append(ss \o uu, e)) = FlattenSeq(ss \o uu) \o e
    BY <2>1, FlattenAppend
  <2>3. FlattenSeq(Append(uu, e)) = FlattenSeq(uu) \o e
    BY FlattenAppend
  <2>4. PICK a \in Seq(T), b \in Seq(T) : a = FlattenSeq(ss) /\ b = FlattenSeq(uu)
    BY FlattenType
  <2>5. (a \o b) \o e = a \o (b \o e)
    BY ConcatAssociative, SMTT(30)
  <2>6. FlattenSeq(ss \o uu) = a \o b
    BY <1>2, <2>4
  <2>7. Append(uu, e) \in Seq(Seq(T))
    BY AppendProperties
  <2> QED
    BY <2>1, <2>2, <2>3, <2>4, <2>5, <2>6, <2>7
<1>3. Seq(Seq(T)) \subseteq S
  <2> HIDE DEF S
  <2> QED
    BY <1>1, <1>2, SequenceInduction
<1> QED
  BY <1>3

LEMMA FlattenBlank ==
    ASSUME NEW T, NEW ss \in Seq(Seq(T)), \A i \in 1..Len(ss) : ss[i] = <<>>
    PROVE  FlattenSeq(ss) = <<>>
<1> DEFINE S == {uu \in Seq(Seq(T)) : (\A i \in 1..Len(uu) : uu[i] = <<>>) => FlattenSeq(uu) = <<>>}
<1>1. <<>> \in S
  BY FlattenNone
<1>2. ASSUME NEW uu \in Seq(Seq(T)), NEW e \in Seq(T), uu \in S PROVE Append(uu, e) \in S
  <2>1. PICK n \in Nat : n = Len(uu)
    OBVIOUS
  <2>2. PICK vv \in Seq(Seq(T)) : vv = Append(uu, e)
    BY AppendProperties
  <2>3. Len(vv) = n + 1 /\ vv[n + 1] = e /\ \A i \in 1..n : vv[i] = uu[i]
    BY <2>1, <2>2, AppendProperties
  <2>4. ASSUME \A i \in 1..Len(vv) : vv[i] = <<>> PROVE FlattenSeq(vv) = <<>>
    <3>1. e = <<>> /\ \A i \in 1..n : uu[i] = <<>>
      BY <2>3, <2>4
    <3>2. FlattenSeq(uu) = <<>>
      BY <1>2, <2>1, <3>1
    <3>3. FlattenSeq(vv) = FlattenSeq(uu) \o e
      BY <2>2, FlattenAppend
    <3> QED
      BY <3>1, <3>2, <3>3, ConcatEmptySeq
  <2> QED
    BY <2>2, <2>4
<1>3. Seq(Seq(T)) \subseteq S
  <2> HIDE DEF S
  <2> QED
    BY <1>1, <1>2, SequenceInduction
<1> QED
  BY <1>3

(* What each element of a sequence becomes, put together.                   *)
Maps(T, U) == [T -> U]
Each(f, q) == [k \in DOMAIN q |-> f[q[k]]]
Spread(f, q) == FlattenSeq(Each(f, q))

LEMMA EachIs ==
    ASSUME NEW T, NEW U, NEW f \in Maps(T, U), NEW q \in Seq(T)
    PROVE  /\ Each(f, q) \in Seq(U) /\ Len(Each(f, q)) = Len(q)
           /\ \A k \in 1..Len(q) : Each(f, q)[k] = f[q[k]]
<1>1. PICK n \in Nat : n = Len(q) /\ DOMAIN q = 1..n
  OBVIOUS
<1>2. \A k \in 1..n : q[k] \in T
  BY <1>1
<1>3. PICK e : e = [k \in 1..n |-> f[q[k]]]
  OBVIOUS
<1>4. \A k \in 1..n : e[k] \in U
  BY <1>2, <1>3 DEF Maps
<1>5. e \in Seq(U) /\ Len(e) = n
  BY <1>3, <1>4
<1> QED
  BY <1>1, <1>3, <1>5 DEF Each

EachApart(f, p, q) == Each(f, p \o q) = Each(f, p) \o Each(f, q)
LEMMA EachJoined ==
    ASSUME NEW T, NEW U, NEW f \in Maps(T, U), NEW p \in Seq(T), NEW q \in Seq(T)
    PROVE  EachApart(f, p, q)
<1>1. PICK r \in Seq(T) : r = p \o q
  BY ConcatProperties
<1>2. PICK m \in Nat, n \in Nat : m = Len(p) /\ n = Len(q)
  OBVIOUS
<1>3. Len(r) = m + n /\ \A k \in 1..m + n : r[k] = IF k <= m THEN p[k] ELSE q[k - m]
  BY <1>1, <1>2, ConcatProperties
<1>4. PICK a \in Seq(U), b \in Seq(U), c \in Seq(U) :
         a = Each(f, p) /\ b = Each(f, q) /\ c = Each(f, r)
  BY EachIs
<1>5. /\ Len(a) = m /\ Len(b) = n /\ Len(c) = m + n
      /\ \A k \in 1..m : a[k] = f[p[k]]
      /\ \A k \in 1..n : b[k] = f[q[k]]
      /\ \A k \in 1..m + n : c[k] = f[r[k]]
  <2>1. Len(a) = m /\ \A k \in 1..m : a[k] = f[p[k]]
    <3>1. /\ Each(f, p) \in Seq(U) /\ Len(Each(f, p)) = Len(p)
          /\ \A k \in 1..Len(p) : Each(f, p)[k] = f[p[k]]
      BY EachIs
    <3> QED
      BY <1>2, <1>4, <3>1
  <2>2. Len(b) = n /\ \A k \in 1..n : b[k] = f[q[k]]
    <3>1. /\ Each(f, q) \in Seq(U) /\ Len(Each(f, q)) = Len(q)
          /\ \A k \in 1..Len(q) : Each(f, q)[k] = f[q[k]]
      BY EachIs
    <3> QED
      BY <1>2, <1>4, <3>1
  <2>3. Len(c) = Len(r) /\ \A k \in 1..Len(r) : c[k] = f[r[k]]
    <3>1. /\ Each(f, r) \in Seq(U) /\ Len(Each(f, r)) = Len(r)
          /\ \A k \in 1..Len(r) : Each(f, r)[k] = f[r[k]]
      BY EachIs
    <3> QED
      BY <1>4, <3>1
  <2> QED
    BY <1>3, <2>1, <2>2, <2>3
<1>6. PICK d \in Seq(U) : d = a \o b
  BY ConcatProperties
<1>7. Len(d) = m + n /\ \A k \in 1..m + n : d[k] = IF k <= m THEN a[k] ELSE b[k - m]
  BY <1>5, <1>6, ConcatProperties
<1>8. ASSUME NEW k \in 1..m + n PROVE c[k] = d[k]
  <2>1. CASE k <= m
    <3>1. k \in 1..m
      BY <2>1
    <3>2. d[k] = a[k] /\ r[k] = p[k] /\ c[k] = f[r[k]] /\ a[k] = f[p[k]]
      BY <1>3, <1>5, <1>7, <2>1, <3>1
    <3> QED
      BY <3>2
  <2>2. CASE k > m
    <3>1. PICK j \in 1..n : j = k - m
      BY <2>2
    <3>2. d[k] = b[j] /\ r[k] = q[j] /\ c[k] = f[r[k]] /\ b[j] = f[q[j]]
      BY <1>3, <1>5, <1>7, <2>2, <3>1
    <3> QED
      BY <3>2
  <2> QED
    BY <2>1, <2>2
<1>9. c = d
  <2>1. Len(c) = Len(d) /\ \A k \in 1..Len(c) : c[k] = d[k]
    BY <1>5, <1>7, <1>8
  <2> QED
    BY <2>1, SeqEqual
<1> QED
  BY <1>1, <1>4, <1>6, <1>9 DEF EachApart

LEMMA SpreadJoined ==
    ASSUME NEW T, NEW U, NEW f \in Maps(T, Seq(U)), NEW p \in Seq(T), NEW q \in Seq(T)
    PROVE  Spread(f, p) \in Seq(U) /\ Spread(f, p \o q) = Spread(f, p) \o Spread(f, q)
<1>1. PICK a \in Seq(Seq(U)), b \in Seq(Seq(U)) : a = Each(f, p) /\ b = Each(f, q)
  BY EachIs
<1>2. EachApart(f, p, q)
  BY EachJoined
<1>3. FlattenSeq(a \o b) = FlattenSeq(a) \o FlattenSeq(b) /\ FlattenSeq(a) \in Seq(U)
  BY FlattenJoined, FlattenType
<1> QED
  BY <1>1, <1>2, <1>3 DEF Spread, EachApart

LEMMA SpreadOne ==
    ASSUME NEW T, NEW U, NEW f \in Maps(T, Seq(U)), NEW x \in T
    PROVE  Spread(f, <<>>) = <<>> /\ Spread(f, <<x>>) = f[x]
<1>1. Each(f, <<>>) = <<>>
  BY DEF Each
<1>2. Each(f, <<x>>) = <<f[x]>>
  BY DEF Each
<1>3. f[x] \in Seq(U)
  BY DEF Maps
<1> QED
  BY <1>1, <1>2, <1>3, FlattenNone, FlattenOne DEF Spread

(* Part by part.                                                            *)
SpreadParts(f, ss) == [i \in 1..Len(ss) |-> Spread(f, ss[i])]

LEMMA SpreadFlat ==
    ASSUME NEW T, NEW U, NEW f \in Maps(T, Seq(U)), NEW ss \in Seq(Seq(T))
    PROVE  Spread(f, FlattenSeq(ss)) = FlattenSeq(SpreadParts(f, ss))
<1> DEFINE S == {uu \in Seq(Seq(T)) : /\ SpreadParts(f, uu) \in Seq(Seq(U))
                                      /\ Spread(f, FlattenSeq(uu)) = FlattenSeq(SpreadParts(f, uu))}
<1>1. <<>> \in S
  <2>1. SpreadParts(f, <<>>) = <<>>
    BY DEF SpreadParts
  <2>2. Each(f, <<>>) = <<>>
    BY DEF Each
  <2>3. <<>> \in Seq(Seq(T)) /\ <<>> \in Seq(Seq(U))
    OBVIOUS
  <2> QED
    BY <2>1, <2>2, <2>3, FlattenNone DEF Spread
<1>2. ASSUME NEW uu \in Seq(Seq(T)), NEW e \in Seq(T), uu \in S PROVE Append(uu, e) \in S
  <2>1. PICK n \in Nat : n = Len(uu)
    OBVIOUS
  <2>2. PICK vv \in Seq(Seq(T)) : vv = Append(uu, e)
    BY AppendProperties
  <2>3. Len(vv) = n + 1 /\ vv[n + 1] = e /\ \A i \in 1..n : vv[i] = uu[i]
    BY <2>1, <2>2, AppendProperties
  <2>4. PICK a \in Seq(Seq(U)) : a = SpreadParts(f, uu)
    BY <1>2
  <2>5. Spread(f, e) \in Seq(U)
    BY SpreadJoined
  <2>6. PICK b \in Seq(Seq(U)) : b = Append(a, Spread(f, e))
    BY <2>5, AppendProperties
  <2>7. Len(a) = n /\ \A i \in 1..n : a[i] = Spread(f, uu[i])
    BY <2>1, <2>4 DEF SpreadParts
  <2>8. Len(b) = n + 1 /\ b[n + 1] = Spread(f, e) /\ \A i \in 1..n : b[i] = a[i]
    BY <2>5, <2>6, <2>7, AppendProperties
  <2>9. SpreadParts(f, vv) = b
    <3>1. \A i \in 1..n + 1 : b[i] = Spread(f, vv[i])
      <4> SUFFICES ASSUME NEW i \in 1..n + 1 PROVE b[i] = Spread(f, vv[i])
        OBVIOUS
      <4>1. i \in 1..n \/ i = n + 1
        OBVIOUS
      <4> QED
        BY <2>3, <2>7, <2>8, <4>1
    <3>2. b = [i \in 1..n + 1 |-> b[i]]
      BY <2>8
    <3> QED
      BY <2>3, <3>1, <3>2 DEF SpreadParts
  <2>10. FlattenSeq(vv) = FlattenSeq(uu) \o e /\ FlattenSeq(uu) \in Seq(T)
    BY <2>2, FlattenAppend, FlattenType
  <2>11. Spread(f, FlattenSeq(vv)) = Spread(f, FlattenSeq(uu)) \o Spread(f, e)
    <3>1. PICK g \in Seq(T) : g = FlattenSeq(uu)
      BY <2>10
    <3>2. Spread(f, g) \in Seq(U) /\ Spread(f, g \o e) = Spread(f, g) \o Spread(f, e)
      BY SpreadJoined
    <3> QED
      BY <2>10, <3>1, <3>2
  <2>12. FlattenSeq(b) = FlattenSeq(a) \o Spread(f, e)
    BY <2>5, <2>6, FlattenAppend
  <2>13. Spread(f, FlattenSeq(uu)) = FlattenSeq(a)
    BY <1>2, <2>4
  <2> QED
    BY <2>2, <2>9, <2>11, <2>12, <2>13
<1>3. Seq(Seq(T)) \subseteq S
  <2> HIDE DEF S
  <2> QED
    BY <1>1, <1>2, SequenceInduction
<1> QED
  BY <1>3

LEMMA RanksDiffer ==
    ASSUME NEW n \in Nat, NEW at, at \subseteq 1..n, NEW p \in at, NEW r \in at, p < r
    PROVE  RankIn(at, p) \in Nat /\ RankIn(at, r) \in Nat /\ RankIn(at, p) < RankIn(at, r)
<1>1. Cardinality({q \in at : q <= p}) < Cardinality({q \in at : q <= r})
  BY RankGrows
<1>2. IsFiniteSet(at)
  <2>1. 1 \in Int /\ n \in Int
    OBVIOUS
  <2> QED
    BY <2>1, FS_Interval, FS_Subset
<1>3. {q \in at : q <= p} \subseteq at /\ {q \in at : q <= r} \subseteq at
  OBVIOUS
<1> QED
  BY <1>1, <1>2, <1>3, FS_Subset, FS_CardinalityType DEF RankIn

(* The n-th number does not change when a greater number is added.          *)
AddedLast(at, B, last) ==
    /\ Cardinality(at) \in Nat /\ Cardinality(B) = Cardinality(at) + 1
    /\ \A i \in 1..Cardinality(at) : Nth(B, i) = Nth(at, i)
    /\ Nth(B, Cardinality(at) + 1) = last

LEMMA NthKept ==
    ASSUME NEW n \in Nat, NEW at, at \subseteq 1..n, NEW B, B = at \cup {n + 1}
    PROVE  AddedLast(at, B, n + 1)
<1>1. IsFiniteSet(at) /\ n + 1 \notin at
  <2>1. IsFiniteSet(1..n)
    <3>1. 1 \in Int /\ n \in Int
      OBVIOUS
    <3> QED
      BY <3>1, FS_Interval
  <2>2. IsFiniteSet(at)
    BY <2>1, FS_Subset
  <2>3. n + 1 \notin 1..n
    OBVIOUS
  <2> QED
    BY <2>2, <2>3
<1>2. PICK c \in Nat : c = Cardinality(at)
  BY <1>1, FS_CardinalityType
<1>3. Cardinality(B) = c + 1
  BY <1>1, <1>2, FS_AddElement
<1>4. B \subseteq 1..n + 1
  OBVIOUS
<1>5. ASSUME NEW i, NEW p \in B, Cardinality({q \in B : q <= p}) = i PROVE Nth(B, i) = p
  <2>1. Nth(B, i) \in B /\ Cardinality({q \in B : q <= Nth(B, i)}) = i
    BY <1>5 DEF Nth
  <2>2. PICK r \in B : r = Nth(B, i) /\ Cardinality({q \in B : q <= r}) = i
    BY <2>1
  <2>3. n + 1 \in Nat /\ p \in Nat /\ r \in Nat
    BY <1>4
  <2>4. ASSUME NEW x \in B, NEW y \in B, x < y PROVE RankIn(B, x) # RankIn(B, y)
    <3>1. PICK m \in Nat : m = n + 1
      OBVIOUS
    <3>2. B \subseteq 1..m
      BY <1>4, <3>1
    <3>3. RankIn(B, x) \in Nat /\ RankIn(B, y) \in Nat /\ RankIn(B, x) < RankIn(B, y)
      BY <2>4, <3>1, <3>2, RanksDiffer
    <3> QED
      BY <3>3
  <2>5. ~(p < r) /\ ~(r < p)
    BY <1>5, <2>2, <2>4 DEF RankIn
  <2> QED
    BY <2>2, <2>3, <2>5
<1>6. ASSUME NEW i \in 1..c PROVE Nth(B, i) = Nth(at, i)
  <2>1. PICK p \in at : RankIn(at, p) = i
    BY <1>2, RankedNumber
  <2>2. Nth(at, i) \in at /\ Cardinality({q \in at : q <= Nth(at, i)}) = i
    BY <2>1 DEF Nth, RankIn
  <2>3. PICK r \in at : r = Nth(at, i)
    BY <2>2
  <2>4. {q \in B : q <= r} = {q \in at : q <= r}
    OBVIOUS
  <2> QED
    BY <1>5, <2>2, <2>3, <2>4
<1>7. Nth(B, c + 1) = n + 1
  <2>1. {q \in B : q <= n + 1} = B /\ n + 1 \in B
    <3>1. \A q \in B : q <= n + 1
      BY <1>4
    <3> QED
      BY <3>1
  <2> QED
    BY <1>3, <1>5, <2>1
<1> QED
  BY <1>2, <1>3, <1>6, <1>7 DEF AddedLast

LEMMA SpreadAppend ==
    ASSUME NEW T, NEW U, NEW f \in Maps(T, Seq(U)), NEW q \in Seq(T), NEW x \in T
    PROVE  Spread(f, Append(q, x)) = Spread(f, q) \o f[x]
<1>1. Append(q, x) = q \o <<x>> /\ <<x>> \in Seq(T)
  BY AppendIsConcat
<1>2. Spread(f, q) \in Seq(U) /\ Spread(f, q \o <<x>>) = Spread(f, q) \o Spread(f, <<x>>)
  <2>1. PICK p \in Seq(T) : p = <<x>>
    BY <1>1
  <2>2. Spread(f, q) \in Seq(U) /\ Spread(f, q \o p) = Spread(f, q) \o Spread(f, p)
    BY SpreadJoined
  <2> QED
    BY <2>1, <2>2
<1>3. Spread(f, <<>>) = <<>> /\ Spread(f, <<x>>) = f[x]
  BY SpreadOne
<1> QED
  BY <1>1, <1>2, <1>3

LEMMA SpreadKeeps ==
    ASSUME NEW T, NEW f \in Maps(T, Seq(T)), NEW q \in Seq(T), \A k \in 1..Len(q) : f[q[k]] = <<q[k]>>
    PROVE  Spread(f, q) = q
<1> DEFINE S == {p \in Seq(T) : (\A k \in 1..Len(p) : f[p[k]] = <<p[k]>>) => Spread(f, p) = p}
<1>1. <<>> \in S
  <2>1. Each(f, <<>>) = <<>>
    BY DEF Each
  <2> QED
    BY <2>1, FlattenNone DEF Spread
<1>2. ASSUME NEW p \in Seq(T), NEW x \in T, p \in S PROVE Append(p, x) \in S
  <2>1. PICK r \in Seq(T), n \in Nat : r = Append(p, x) /\ n = Len(p)
    <3>1. Append(p, x) \in Seq(T) /\ Len(p) \in Nat
      BY AppendProperties
    <3> QED
      BY <3>1
  <2>2. Len(r) = n + 1 /\ r[n + 1] = x /\ \A i \in 1..n : r[i] = p[i]
    BY <2>1, AppendProperties
  <2>3. ASSUME \A k \in 1..Len(r) : f[r[k]] = <<r[k]>> PROVE Spread(f, r) = r
    <3>1. f[x] = <<x>> /\ \A k \in 1..n : f[p[k]] = <<p[k]>>
      BY <2>2, <2>3
    <3>2. Spread(f, p) = p
      BY <1>2, <2>1, <3>1
    <3>3. Spread(f, r) = Spread(f, p) \o f[x]
      BY <2>1, SpreadAppend
    <3> QED
      BY <2>1, <3>1, <3>2, <3>3, AppendIsConcat
  <2> QED
    BY <2>1, <2>3
<1>3. Seq(T) \subseteq S
  <2> HIDE DEF S
  <2> QED
    BY <1>1, <1>2, SequenceInduction
<1> QED
  BY <1>3

LEMMA SpreadDrops ==
    ASSUME NEW T, NEW U, NEW f \in Maps(T, Seq(U)), NEW q \in Seq(T), \A k \in 1..Len(q) : f[q[k]] = <<>>
    PROVE  Spread(f, q) = <<>>
<1>1. PICK e : e = Each(f, q)
  OBVIOUS
<1>2. /\ Each(f, q) \in Seq(Seq(U)) /\ Len(Each(f, q)) = Len(q)
      /\ \A k \in 1..Len(q) : Each(f, q)[k] = f[q[k]]
  BY EachIs
<1>3. e \in Seq(Seq(U)) /\ \A k \in 1..Len(e) : e[k] = <<>>
  BY <1>1, <1>2
<1> QED
  BY <1>1, <1>3, FlattenBlank DEF Spread

(* The elements of a sequence that are in a set.                            *)
Filtered(q, G) == Picked(q, {k \in DOMAIN q : q[k] \in G})
Keep(T, G) == [x \in T |-> IF x \in G THEN <<x>> ELSE <<>>]

LEMMA KeepIs ==
    ASSUME NEW T, NEW G
    PROVE  Keep(T, G) \in Maps(T, Seq(T)) /\ \A x \in T : Keep(T, G)[x] = IF x \in G THEN <<x>> ELSE <<>>
<1>1. \A x \in T : (IF x \in G THEN <<x>> ELSE <<>>) \in Seq(T)
  OBVIOUS
<1> QED
  BY <1>1 DEF Keep, Maps

LEMMA FilteredAppend ==
    ASSUME NEW T, NEW q \in Seq(T), NEW x \in T, NEW G
    PROVE  Filtered(Append(q, x), G) = IF x \in G THEN Append(Filtered(q, G), x) ELSE Filtered(q, G)
<1>1. PICK r \in Seq(T), n \in Nat : r = Append(q, x) /\ n = Len(q)
  <2>1. Append(q, x) \in Seq(T) /\ Len(q) \in Nat
    BY AppendProperties
  <2> QED
    BY <2>1
<1>2. Len(r) = n + 1 /\ r[n + 1] = x /\ (\A i \in 1..n : r[i] = q[i]) /\ DOMAIN r = 1..n + 1 /\ DOMAIN q = 1..n
  BY <1>1, AppendProperties
<1>3. PICK at : at = {k \in DOMAIN q : q[k] \in G}
  OBVIOUS
<1>4. at \subseteq 1..n
  BY <1>2, <1>3
<1>5. PICK c \in Nat : c = Cardinality(at)
  BY <1>4, NthOf
<1>6. ASSUME NEW i \in 1..c PROVE Nth(at, i) \in at /\ r[Nth(at, i)] = q[Nth(at, i)]
  <2>1. Nth(at, i) \in at
    BY <1>4, <1>5, NthOf
  <2> QED
    BY <1>2, <1>4, <2>1
<1>7. CASE x \in G
  <2>1. {k \in DOMAIN r : r[k] \in G} = at \cup {n + 1}
    BY <1>2, <1>3, <1>7
  <2>2. PICK B : B = at \cup {n + 1}
    OBVIOUS
  <2>3. /\ Cardinality(at) \in Nat /\ Cardinality(B) = Cardinality(at) + 1
        /\ \A i \in 1..Cardinality(at) : Nth(B, i) = Nth(at, i)
        /\ Nth(B, Cardinality(at) + 1) = n + 1
    <3>1. AddedLast(at, B, n + 1)
      BY <1>4, <2>2, NthKept
    <3> QED
      BY <3>1 DEF AddedLast
  <2>4. Filtered(r, G) = [i \in 1..c + 1 |-> r[Nth(B, i)]]
    BY <1>5, <2>1, <2>2, <2>3 DEF Filtered, Picked
  <2>5. PICK p : p = Filtered(q, G)
    OBVIOUS
  <2>6. p = [i \in 1..c |-> q[Nth(at, i)]] /\ p \in Seq(T) /\ Len(p) = c
    <3>1. Picked(q, at) \in Seq(T)
      BY <1>2, <1>4, PickedIs
    <3>2. p = Picked(q, at)
      BY <1>3, <2>5 DEF Filtered
    <3> QED
      BY <1>5, <3>1, <3>2 DEF Picked
  <2>7. PICK s \in Seq(T) : s = Append(p, x)
    BY <2>6, AppendProperties
  <2>8. Len(s) = c + 1 /\ s[c + 1] = x /\ \A i \in 1..c : s[i] = p[i]
    BY <2>6, <2>7, AppendProperties
  <2>9. ASSUME NEW i \in 1..c + 1 PROVE s[i] = r[Nth(B, i)]
    <3>1. CASE i \in 1..c
      BY <1>5, <1>6, <2>3, <2>6, <2>8, <3>1
    <3>2. CASE i = c + 1
      BY <1>2, <1>5, <2>3, <2>8, <3>2
    <3> QED
      BY <3>1, <3>2
  <2>10. s = [i \in 1..c + 1 |-> s[i]]
    BY <2>8
  <2>11. s = Filtered(r, G)
    BY <2>4, <2>9, <2>10
  <2> QED
    BY <1>1, <1>7, <2>5, <2>7, <2>11
<1>8. CASE x \notin G
  <2>1. {k \in DOMAIN r : r[k] \in G} = at
    BY <1>2, <1>3, <1>8
  <2>2. Filtered(r, G) = [i \in 1..c |-> r[Nth(at, i)]]
    BY <1>5, <2>1 DEF Filtered, Picked
  <2>3. Filtered(q, G) = [i \in 1..c |-> q[Nth(at, i)]]
    BY <1>3, <1>5 DEF Filtered, Picked
  <2>4. [i \in 1..c |-> r[Nth(at, i)]] = [i \in 1..c |-> q[Nth(at, i)]]
    BY <1>6
  <2> QED
    BY <1>1, <1>8, <2>2, <2>3, <2>4
<1> QED
  BY <1>7, <1>8

LEMMA FilteredSpread ==
    ASSUME NEW T, NEW q \in Seq(T), NEW G
    PROVE  Filtered(q, G) = Spread(Keep(T, G), q)
<1> DEFINE S == {p \in Seq(T) : Filtered(p, G) = Spread(Keep(T, G), p)}
<1>1. <<>> \in S
  <2>1. {k \in DOMAIN <<>> : <<>>[k] \in G} = {}
    OBVIOUS
  <2>2. Filtered(<<>>, G) = <<>>
    <3>1. Cardinality({}) = 0 /\ 1..0 = {}
      BY FS_EmptySet
    <3> QED
      BY <2>1, <3>1 DEF Filtered, Picked
  <2>3. Each(Keep(T, G), <<>>) = <<>>
    BY DEF Each
  <2> QED
    BY <2>2, <2>3, FlattenNone DEF Spread
<1>2. ASSUME NEW p \in Seq(T), NEW x \in T, p \in S PROVE Append(p, x) \in S
  <2>1. PICK f \in Maps(T, Seq(T)) : f = Keep(T, G) /\ f[x] = IF x \in G THEN <<x>> ELSE <<>>
    BY KeepIs
  <2>2. Spread(f, Append(p, x)) = Spread(f, p) \o f[x]
    BY SpreadAppend
  <2>3. Spread(f, p) = Filtered(p, G)
    BY <1>2, <2>1
  <2>4. Filtered(p, G) \in Seq(T)
    <3>1. {k \in DOMAIN p : p[k] \in G} \subseteq DOMAIN p
      OBVIOUS
    <3> QED
      BY <3>1, PickedIs DEF Filtered
  <2>5. Filtered(Append(p, x), G) = IF x \in G THEN Append(Filtered(p, G), x) ELSE Filtered(p, G)
    BY FilteredAppend
  <2>6. PICK a \in Seq(T) : a = Filtered(p, G)
    BY <2>4
  <2>7. a \o <<>> = a /\ a \o <<x>> = Append(a, x)
    BY ConcatEmptySeq, AppendIsConcat
  <2>8. Filtered(Append(p, x), G) = Spread(f, Append(p, x))
    BY <2>1, <2>2, <2>3, <2>5, <2>6, <2>7
  <2>9. Append(p, x) \in Seq(T)
    BY AppendProperties
  <2> QED
    BY <2>1, <2>8, <2>9
<1>3. Seq(T) \subseteq S
  <2> HIDE DEF S
  <2> QED
    BY <1>1, <1>2, SequenceInduction
<1> QED
  BY <1>3

FiltersApart(p, q, G) == Filtered(p \o q, G) = Filtered(p, G) \o Filtered(q, G)
LEMMA FilteredApart ==
    ASSUME NEW T, NEW p \in Seq(T), NEW q \in Seq(T), NEW G
    PROVE  Filtered(p, G) \in Seq(T) /\ FiltersApart(p, q, G)
<1>1. ASSUME NEW U, T \subseteq U
      PROVE  Spread(Keep(T, G), p \o q) = Spread(Keep(T, G), p) \o Spread(Keep(T, G), q)
  <2>1. \A x \in T : (IF x \in G THEN <<x>> ELSE <<>>) \in Seq(U)
    BY <1>1
  <2>2. PICK f \in Maps(T, Seq(U)) : f = Keep(T, G)
    BY <2>1 DEF Keep, Maps
  <2>3. Spread(f, p) \in Seq(U) /\ Spread(f, p \o q) = Spread(f, p) \o Spread(f, q)
    BY SpreadJoined
  <2> QED
    BY <2>2, <2>3
<1>2. Spread(Keep(T, G), p \o q) = Spread(Keep(T, G), p) \o Spread(Keep(T, G), q)
  BY <1>1
<1>3. p \o q \in Seq(T)
  BY ConcatProperties
<1>4. Filtered(p, G) \in Seq(T)
  <2>1. {k \in DOMAIN p : p[k] \in G} \subseteq DOMAIN p
    OBVIOUS
  <2> QED
    BY <2>1, PickedIs DEF Filtered
<1> QED
  BY <1>2, <1>3, <1>4, FilteredSpread DEF FiltersApart

LEMMA FilteredAll ==
    ASSUME NEW T, NEW q \in Seq(T), NEW G, \A k \in 1..Len(q) : q[k] \in G
    PROVE  Filtered(q, G) = q
<1>1. PICK f \in Maps(T, Seq(T)) : f = Keep(T, G) /\ \A x \in T : f[x] = IF x \in G THEN <<x>> ELSE <<>>
  BY KeepIs
<1>2. \A k \in 1..Len(q) : f[q[k]] = <<q[k]>>
  <2> SUFFICES ASSUME NEW k \in 1..Len(q) PROVE f[q[k]] = <<q[k]>>
    OBVIOUS
  <2>1. q[k] \in T
    BY ElementOfSeq
  <2> QED
    BY <1>1, <2>1
<1>3. Spread(f, q) = q
  BY <1>2, SpreadKeeps
<1> QED
  BY <1>1, <1>3, FilteredSpread

LEMMA FilteredNone ==
    ASSUME NEW T, NEW q \in Seq(T), NEW G, \A k \in 1..Len(q) : q[k] \notin G
    PROVE  Filtered(q, G) = <<>>
<1>1. {k \in DOMAIN q : q[k] \in G} = {}
  OBVIOUS
<1>2. Cardinality({}) = 0 /\ 1..0 = {}
  BY FS_EmptySet
<1>3. Picked(q, {}) = <<>>
  BY <1>2 DEF Picked
<1> QED
  BY <1>1, <1>3 DEF Filtered

TailOf(ss, n) == SubSeq(ss, n + 1, Len(ss))

LEMMA SplitAt ==
    ASSUME NEW T, NEW q \in Seq(T), NEW n \in Nat, n <= Len(q)
    PROVE  /\ SubSeq(q, 1, n) \in Seq(T) /\ TailOf(q, n) \in Seq(T)
           /\ q = SubSeq(q, 1, n) \o TailOf(q, n)
           /\ Len(TailOf(q, n)) = Len(q) - n
           /\ \A k \in 1..Len(q) - n : TailOf(q, n)[k] = q[n + k]
<1>1. PICK m \in Nat : m = Len(q) /\ n <= m
  OBVIOUS
<1>2. /\ SubSeq(q, 1, n) \in Seq(T) /\ Len(SubSeq(q, 1, n)) = n
      /\ \A i \in 1..n : SubSeq(q, 1, n)[i] = q[i]
  OBVIOUS
<1>3. SubSeq(q, n + 1, m) \in Seq(T) /\ Len(SubSeq(q, n + 1, m)) = m - n
  BY <1>1
<1>4. \A k \in 1..m - n : SubSeq(q, n + 1, m)[k] = q[n + k]
  BY <1>1
<1>5. PICK a \in Seq(T), b \in Seq(T) : a = SubSeq(q, 1, n) /\ b = SubSeq(q, n + 1, m)
  BY <1>2, <1>3
<1>6. a \o b \in Seq(T) /\ JoinAt(a, b, a \o b)
  BY Joined
<1>7. PICK r \in Seq(T) : r = a \o b
  BY <1>6
<1>8. Len(a) = n /\ Len(b) = m - n /\ (\A i \in 1..n : a[i] = q[i]) /\ \A k \in 1..m - n : b[k] = q[n + k]
  BY <1>2, <1>3, <1>4, <1>5
<1>9. /\ Len(r) = m /\ (\A i \in 1..n : r[i] = a[i])
      /\ \A i \in n + 1..m : r[i] = b[i - n]
  <2>1. n + (m - n) = m
    BY <1>1
  <2> QED
    BY <1>6, <1>7, <1>8, <2>1 DEF JoinAt
<1>10. ASSUME NEW i \in 1..m PROVE r[i] = q[i]
  <2>1. CASE i <= n
    BY <1>8, <1>9, <2>1
  <2>2. CASE i > n
    <3>1. i - n \in 1..m - n /\ n + (i - n) = i /\ i \in n + 1..m
      BY <2>2
    <3>2. r[i] = b[i - n] /\ b[i - n] = q[n + (i - n)]
      BY <1>8, <1>9, <3>1
    <3> QED
      BY <3>1, <3>2
  <2> QED
    BY <2>1, <2>2
<1>11. r = q
  BY <1>1, <1>9, <1>10
<1> QED
  BY <1>1, <1>3, <1>4, <1>5, <1>7, <1>11 DEF TailOf

LEMMA PrefixIs ==
    ASSUME NEW T, NEW q \in Seq(T), NEW n \in Nat, n <= Len(q)
    PROVE  /\ SubSeq(q, 1, n) \in Seq(T) /\ Len(SubSeq(q, 1, n)) = n
           /\ SubSeq(q, 1, n) = [i \in 1..n |-> q[i]]
           /\ \A i \in 1..n : SubSeq(q, 1, n)[i] = q[i]
<1>1. SubSeq(q, 1, n) \in Seq(T) /\ Len(SubSeq(q, 1, n)) = n /\ \A i \in 1..n : SubSeq(q, 1, n)[i] = q[i]
  OBVIOUS
<1>2. SubSeq(q, 1, n) = [i \in 1..n |-> q[i]]
  BY <1>1
<1> QED
  BY <1>1, <1>2

LEMMA FilteredFrom ==
    ASSUME NEW T, NEW q \in Seq(T), NEW G
    PROVE  /\ Filtered(q, G) \in Seq(T)
           /\ \A k \in 1..Len(Filtered(q, G)) :
                 \E j \in 1..Len(q) : Filtered(q, G)[k] = q[j] /\ q[j] \in G
<1>1. PICK at : at = {k \in DOMAIN q : q[k] \in G} /\ at \subseteq DOMAIN q
  OBVIOUS
<1>2. Picked(q, at) \in Seq(T) /\ ToSet(Picked(q, at)) = {q[i] : i \in at}
  BY <1>1, PickedIs
<1>3. PICK f \in Seq(T) : f = Picked(q, at)
  BY <1>2
<1>4. ASSUME NEW k \in 1..Len(f) PROVE \E j \in 1..Len(q) : f[k] = q[j] /\ q[j] \in G
  <2>1. f[k] \in ToSet(f)
    BY DEF ToSet
  <2>2. PICK j \in at : f[k] = q[j]
    BY <1>2, <1>3, <2>1
  <2>3. j \in 1..Len(q) /\ q[j] \in G
    BY <1>1
  <2> QED
    BY <2>2, <2>3
<1> QED
  BY <1>1, <1>3, <1>4 DEF Filtered

LEMMA FlattenFirst ==
    ASSUME NEW T, NEW ss \in Seq(Seq(T)), Len(ss) > 0, \A k \in 2..Len(ss) : ss[k] = <<>>
    PROVE  FlattenSeq(ss) = ss[1]
<1>1. PICK S : S = Seq(T)
  OBVIOUS
<1>2. PICK n \in Nat : n = Len(ss) /\ 1 <= n
  OBVIOUS
<1>3. PICK a \in Seq(S), b \in Seq(S) : /\ a = SubSeq(ss, 1, 1) /\ b = TailOf(ss, 1) /\ ss = a \o b
                                       /\ Len(b) = n - 1 /\ \A k \in 1..n - 1 : b[k] = ss[1 + k]
  <2>1. ss \in Seq(S) /\ 1 \in Nat /\ 1 <= Len(ss)
    BY <1>1, <1>2
  <2>2. /\ SubSeq(ss, 1, 1) \in Seq(S) /\ TailOf(ss, 1) \in Seq(S) /\ ss = SubSeq(ss, 1, 1) \o TailOf(ss, 1)
        /\ Len(TailOf(ss, 1)) = Len(ss) - 1
        /\ \A k \in 1..Len(ss) - 1 : TailOf(ss, 1)[k] = ss[1 + k]
    BY <2>1, SplitAt
  <2> QED
    BY <1>2, <2>2
<1>4. PICK x \in S : x = ss[1]
  BY <1>1, <1>2, ElementOfSeq
<1>5. a = <<x>>
  <2>1. Len(a) = 1 /\ a[1] = ss[1]
    BY <1>1, <1>2, <1>3
  <2> QED
    BY <1>4, <2>1
<1>6. FlattenSeq(a) = x
  BY <1>1, <1>5, FlattenOne
<1>7. FlattenSeq(b) = <<>>
  <2>1. ASSUME NEW k \in 1..n - 1 PROVE b[k] = <<>>
    <3>1. 1 + k \in 2..n
      BY <1>2
    <3> QED
      BY <1>2, <1>3, <3>1
  <2> QED
    BY <1>1, <1>3, <2>1, FlattenBlank
<1>8. FlattenSeq(ss) = FlattenSeq(a) \o FlattenSeq(b)
  BY <1>1, <1>3, FlattenJoined
<1> QED
  BY <1>1, <1>4, <1>6, <1>7, <1>8

LEMMA FlattenOnes ==
    ASSUME NEW T, NEW ss \in Seq(Seq(T)), NEW q \in Seq(T), Len(ss) = Len(q),
           \A k \in 1..Len(q) : ss[k] = <<q[k]>>
    PROVE  FlattenSeq(ss) = q
<1>1. PICK n \in Nat : n = Len(q) /\ DOMAIN q = 1..n /\ DOMAIN ss = 1..n
  OBVIOUS
<1>2. PICK f \in Maps(T, Seq(T)) : f = [x \in T |-> <<x>>]
  <2>1. \A x \in T : <<x>> \in Seq(T)
    OBVIOUS
  <2> QED
    BY <2>1 DEF Maps
<1>3. \A k \in 1..n : f[q[k]] = <<q[k]>>
  BY <1>1, <1>2, ElementOfSeq
<1>4. Spread(f, q) = q
  BY <1>1, <1>3, SpreadKeeps
<1>5. Each(f, q) = ss
  <2>1. Each(f, q) = [k \in 1..n |-> f[q[k]]]
    BY <1>1 DEF Each
  <2>2. Each(f, q) = [k \in 1..n |-> ss[k]]
    BY <1>1, <1>3, <2>1, ZenonT(30)
  <2> QED
    BY <1>1, <2>2
<1> QED
  BY <1>4, <1>5 DEF Spread

(* Two sequences of parts that agree from one start to the next.            *)
SamePart(a, b, i, m) == FlattenSeq(SubSeq(a, i, m)) = FlattenSeq(SubSeq(b, i, m))
LEMMA SplitFlat ==
    ASSUME NEW T, NEW a \in Seq(Seq(T)), NEW i \in 1..Len(a), NEW m \in i..Len(a)
    PROVE  /\ FlattenSeq(SubSeq(a, i, Len(a))) = FlattenSeq(SubSeq(a, i, m)) \o FlattenSeq(SubSeq(a, m + 1, Len(a)))
<1>1. PICK S : S = Seq(T)
  OBVIOUS
<1>2. PICK n \in Nat : n = Len(a)
  OBVIOUS
<1>3. PICK b \in Seq(S) : b = SubSeq(a, i, n) /\ Len(b) = n - i + 1 /\ \A k \in 1..n - i + 1 : b[k] = a[i + k - 1]
  <2>1. SubSeq(a, i, n) \in Seq(S) /\ Len(SubSeq(a, i, n)) = n - i + 1 /\ \A k \in 1..n - i + 1 : SubSeq(a, i, n)[k] = a[i + k - 1]
    BY <1>1, <1>2
  <2> QED
    BY <2>1
<1>4. PICK j \in Nat : j = m - i + 1 /\ j <= n - i + 1
  BY <1>2
<1>5. PICK c \in Seq(S), d \in Seq(S) : /\ c = SubSeq(b, 1, j) /\ d = TailOf(b, j) /\ b = c \o d
                                       /\ Len(d) = n - i + 1 - j /\ \A k \in 1..n - i + 1 - j : d[k] = b[j + k]
  <2>1. j <= Len(b)
    BY <1>3, <1>4
  <2>2. /\ SubSeq(b, 1, j) \in Seq(S) /\ TailOf(b, j) \in Seq(S) /\ b = SubSeq(b, 1, j) \o TailOf(b, j)
        /\ Len(TailOf(b, j)) = Len(b) - j
        /\ \A k \in 1..Len(b) - j : TailOf(b, j)[k] = b[j + k]
    BY <2>1, SplitAt
  <2>3. Len(b) - j = n - i + 1 - j
    BY <1>3
  <2> QED
    BY <2>2, <2>3
<1>6. c = SubSeq(a, i, m)
  BY <1>1, <1>2, <1>3, <1>4, <1>5
<1>7. d = SubSeq(a, m + 1, n)
  <2>1. SubSeq(a, m + 1, n) \in Seq(S) /\ Len(SubSeq(a, m + 1, n)) = n - m /\ \A k \in 1..n - m : SubSeq(a, m + 1, n)[k] = a[m + k]
    BY <1>1, <1>2
  <2>2. ASSUME NEW k \in 1..n - m PROVE d[k] = a[m + k]
    <3>1. j + k \in 1..n - i + 1 /\ k \in 1..n - i + 1 - j /\ i + (j + k) - 1 = m + k
      BY <1>2, <1>4
    <3>2. d[k] = b[j + k] /\ b[j + k] = a[i + (j + k) - 1]
      BY <1>3, <1>5, <3>1
    <3> QED
      BY <3>1, <3>2
  <2>3. Len(d) = n - m
    <3>1. n - i + 1 - j = n - m
      BY <1>2, <1>4
    <3> QED
      BY <1>5, <3>1
  <2>4. PICK e \in Seq(S) : e = SubSeq(a, m + 1, n) /\ Len(e) = n - m /\ \A k \in 1..n - m : e[k] = a[m + k]
    BY <2>1
  <2>5. n - m \in Nat
    BY <1>2
  <2>6. d = e
    <3>1. Len(d) = Len(e)
      BY <2>3, <2>4
    <3>2. \A k \in 1..Len(d) : d[k] = e[k]
      BY <2>2, <2>3, <2>4
    <3> QED
      BY <3>1, <3>2, SeqEqual
  <2> QED
    BY <2>4, <2>6
<1>8. FlattenSeq(b) = FlattenSeq(c) \o FlattenSeq(d)
  BY <1>1, <1>5, FlattenJoined
<1> QED
  BY <1>2, <1>3, <1>6, <1>7, <1>8

LEMMA Regrouped ==
    ASSUME NEW T, NEW a \in Seq(Seq(T)), NEW b \in Seq(Seq(T)), Len(a) = Len(b),
           NEW Starts, Len(a) > 0 => 1 \in Starts,
           \A i \in 1..Len(a) : i \in Starts =>
              \E m \in i..Len(a) : (m < Len(a) => m + 1 \in Starts) /\ SamePart(a, b, i, m)
    PROVE  FlattenSeq(a) = FlattenSeq(b)
<1>1. PICK n \in Nat : n = Len(a) /\ n = Len(b)
  OBVIOUS
<1> DEFINE S == {d \in Nat : d < n /\ n - d \in Starts => SamePart(a, b, n - d, n)}
<1>2. ASSUME NEW d \in Nat, \A k \in 0..d - 1 : k \in S PROVE d \in S
  <2>1. SUFFICES ASSUME d < n, n - d \in Starts PROVE SamePart(a, b, n - d, n)
    OBVIOUS
  <2>2. PICK i \in 1..n : i = n - d
    BY <2>1
  <2>3. PICK m \in i..n : (m < n => m + 1 \in Starts) /\ SamePart(a, b, i, m)
    BY <1>1, <2>1, <2>2
  <2>4. CASE m = n
    BY <2>2, <2>3, <2>4
  <2>5. CASE m < n
    <3>1. PICK k \in 0..d - 1 : n - k = m + 1
      <4>1. n - m - 1 \in 0..d - 1 /\ n - (n - m - 1) = m + 1
        BY <2>2, <2>5
      <4> QED
        BY <4>1
    <3>2. SamePart(a, b, m + 1, n)
      <4>1. k \in S /\ k \in Nat /\ k < n
        BY <1>2, <2>1, <3>1
      <4> QED
        BY <2>3, <2>5, <3>1, <4>1
    <3>3. i \in 1..Len(a) /\ m \in i..Len(a) /\ i \in 1..Len(b) /\ m \in i..Len(b)
      BY <1>1
    <3>4. FlattenSeq(SubSeq(a, i, n)) = FlattenSeq(SubSeq(a, i, m)) \o FlattenSeq(SubSeq(a, m + 1, n))
      BY <1>1, <3>3, SplitFlat
    <3>5. FlattenSeq(SubSeq(b, i, n)) = FlattenSeq(SubSeq(b, i, m)) \o FlattenSeq(SubSeq(b, m + 1, n))
      BY <1>1, <3>3, SplitFlat
    <3> QED
      BY <2>2, <2>3, <3>2, <3>4, <3>5 DEF SamePart
  <2> QED
    BY <2>4, <2>5
<1>3. Nat \subseteq S
  <2> HIDE DEF S
  <2> QED
    BY <1>2, StrongInduction
<1>4. CASE n = 0
  <2>1. a = <<>> /\ b = <<>>
    BY <1>1, <1>4, EmptySeq
  <2> QED
    BY <2>1
<1>5. CASE n > 0
  <2>1. n - 1 \in Nat /\ n - (n - 1) = 1
    BY <1>5
  <2>2. SamePart(a, b, 1, n)
    <3>1. n - 1 \in S
      BY <1>3, <2>1
    <3>2. n - 1 < n /\ n - (n - 1) \in Starts
      BY <1>1, <1>5, <2>1
    <3>3. SamePart(a, b, n - (n - 1), n)
      BY <3>1, <3>2
    <3> QED
      BY <2>1, <3>3
  <2>3. SubSeq(a, 1, n) = a /\ SubSeq(b, 1, n) = b
    BY <1>1
  <2> QED
    BY <2>2, <2>3 DEF SamePart
<1> QED
  BY <1>4, <1>5

LEMMA SubSeqFirst ==
    ASSUME NEW T, NEW a \in Seq(Seq(T)), NEW i \in 1..Len(a), NEW m \in i..Len(a),
           \A k \in i + 1..m : a[k] = <<>>
    PROVE  FlattenSeq(SubSeq(a, i, m)) = a[i]
<1>1. PICK S : S = Seq(T)
  OBVIOUS
<1>2. PICK b \in Seq(S) : b = SubSeq(a, i, m) /\ Len(b) = m - i + 1 /\ \A k \in 1..m - i + 1 : b[k] = a[i + k - 1]
  <2>1. SubSeq(a, i, m) \in Seq(S) /\ Len(SubSeq(a, i, m)) = m - i + 1 /\ \A k \in 1..m - i + 1 : SubSeq(a, i, m)[k] = a[i + k - 1]
    BY <1>1
  <2> QED
    BY <2>1
<1>3. ASSUME NEW k \in 2..Len(b) PROVE b[k] = <<>>
  <2>1. k \in 1..m - i + 1 /\ i + k - 1 \in i + 1..m
    BY <1>2
  <2> QED
    BY <1>2, <2>1
<1>4. Len(b) > 0
  BY <1>2
<1>5. FlattenSeq(b) = b[1]
  BY <1>1, <1>3, <1>4, FlattenFirst
<1>6. 1 \in 1..m - i + 1 /\ i + 1 - 1 = i
  OBVIOUS
<1> QED
  BY <1>2, <1>5, <1>6

LEMMA FlattenStart ==
    ASSUME NEW T, NEW ss \in Seq(Seq(T)), NEW q \in Seq(T), Len(q) <= Len(ss),
           \A k \in 1..Len(q) : ss[k] = <<q[k]>>
    PROVE  /\ FlattenSeq(ss) \in Seq(T) /\ Len(q) <= Len(FlattenSeq(ss))
           /\ \A k \in 1..Len(q) : FlattenSeq(ss)[k] = q[k]
<1>1. PICK S : S = Seq(T)
  OBVIOUS
<1>2. PICK n \in Nat : n = Len(q) /\ n <= Len(ss)
  OBVIOUS
<1>3. PICK a \in Seq(S), b \in Seq(S) : a = SubSeq(ss, 1, n) /\ ss = a \o b
  <2>1. n <= Len(ss) /\ ss \in Seq(S)
    BY <1>1, <1>2
  <2>2. SubSeq(ss, 1, n) \in Seq(S) /\ TailOf(ss, n) \in Seq(S) /\ ss = SubSeq(ss, 1, n) \o TailOf(ss, n)
    BY <2>1, SplitAt
  <2> QED
    BY <2>2
<1>4. Len(a) = n /\ \A k \in 1..n : a[k] = ss[k]
  BY <1>1, <1>2, <1>3, PrefixIs
<1>5. FlattenSeq(a) = q
  BY <1>1, <1>2, <1>4, FlattenOnes
<1>6. PICK r \in Seq(T) : r = FlattenSeq(b)
  BY <1>1, FlattenType
<1>7. FlattenSeq(ss) = q \o r
  BY <1>1, <1>3, <1>5, <1>6, FlattenJoined
<1>8. q \o r \in Seq(T) /\ JoinAt(q, r, q \o r)
  BY Joined
<1> QED
  BY <1>7, <1>8 DEF JoinAt

LEMMA FlatElements ==
    ASSUME NEW T, NEW ss \in Seq(Seq(T))
    PROVE  /\ \A k \in 1..Len(FlattenSeq(ss)) : \E i \in 1..Len(ss) : \E j \in 1..Len(ss[i]) : FlattenSeq(ss)[k] = ss[i][j]
           /\ \A i \in 1..Len(ss) : \A j \in 1..Len(ss[i]) : \E k \in 1..Len(FlattenSeq(ss)) : FlattenSeq(ss)[k] = ss[i][j]
<1>1. PICK q, o : q \in Seq(T) /\ q = FlattenSeq(ss) /\ FlatAt(ss, o, q)
  BY FlattenAt
<1>2. DOMAIN q = 1..Len(q)
  OBVIOUS
<1>3. ASSUME NEW k \in 1..Len(q) PROVE \E i \in 1..Len(ss) : \E j \in 1..Len(ss[i]) : q[k] = ss[i][j]
  BY <1>1, <1>2 DEF FlatAt
<1>4. ASSUME NEW i \in 1..Len(ss), NEW j \in 1..Len(ss[i]) PROVE \E k \in 1..Len(q) : q[k] = ss[i][j]
  <2>1. o[i - 1] + j \in DOMAIN q /\ q[o[i - 1] + j] = ss[i][j]
    BY <1>1 DEF FlatAt
  <2> QED
    BY <1>2, <2>1
<1> QED
  BY <1>1, <1>3, <1>4

LEMMA SpreadFiltered ==
    ASSUME NEW T, NEW U, NEW f \in Maps(T, Seq(U)), NEW q \in Seq(T), NEW G,
           \A x \in T : x \notin G => f[x] = <<>>
    PROVE  Spread(f, Filtered(q, G)) = Spread(f, q)
<1>1. PICK n \in Nat : n = Len(q) /\ DOMAIN q = 1..n
  OBVIOUS
<1>2. PICK keep \in Maps(T, Seq(T)) : keep = Keep(T, G) /\ \A x \in T : keep[x] = IF x \in G THEN <<x>> ELSE <<>>
  BY KeepIs
<1>3. PICK ss \in Seq(Seq(T)) : ss = Each(keep, q) /\ Len(ss) = n /\ \A k \in 1..n : ss[k] = keep[q[k]]
  BY <1>1, EachIs
<1>4. Spread(f, FlattenSeq(ss)) = FlattenSeq(SpreadParts(f, ss))
  BY SpreadFlat
<1>5. Filtered(q, G) = FlattenSeq(ss)
  BY <1>2, <1>3, FilteredSpread DEF Spread
<1>6. SpreadParts(f, ss) = Each(f, q)
  <2>1. ASSUME NEW k \in 1..n PROVE Spread(f, ss[k]) = f[q[k]]
    <3>1. PICK x \in T : x = q[k]
      BY <1>1, ElementOfSeq
    <3>2. Spread(f, <<>>) = <<>> /\ Spread(f, <<x>>) = f[x]
      BY SpreadOne
    <3>3. ss[k] = IF x \in G THEN <<x>> ELSE <<>>
      BY <1>2, <1>3, <3>1
    <3> QED
      BY <3>1, <3>2, <3>3
  <2>2. SpreadParts(f, ss) = [k \in 1..n |-> Spread(f, ss[k])] /\ Each(f, q) = [k \in 1..n |-> f[q[k]]]
    BY <1>1, <1>3 DEF SpreadParts, Each
  <2> QED
    BY <2>1, <2>2
<1> QED
  BY <1>4, <1>5, <1>6 DEF Spread

LEMMA FirstOfOne == ASSUME NEW j \in Nat PROVE FirstOf({j}) = j
<1>1. \E i \in {j} : \A k \in {j} : i <= k
  OBVIOUS
<1>2. FirstOf({j}) \in {j}
  BY <1>1, Zenon DEF FirstOf
<1> QED
  BY <1>2

(* What is filtered from a flattened sequence, part by part.                *)
FilteredParts(ss, G) == [i \in 1..Len(ss) |-> Filtered(ss[i], G)]
LEMMA FilteredFlat ==
    ASSUME NEW T, NEW ss \in Seq(Seq(T)), NEW G
    PROVE  Filtered(FlattenSeq(ss), G) = FlattenSeq(FilteredParts(ss, G))
<1>1. PICK f \in Maps(T, Seq(T)) : f = Keep(T, G)
  BY KeepIs
<1>2. PICK q \in Seq(T) : q = FlattenSeq(ss)
  BY FlattenAt
<1>3. Filtered(q, G) = Spread(f, q)
  BY <1>1, FilteredSpread
<1>4. Spread(f, q) = FlattenSeq(SpreadParts(f, ss))
  BY <1>2, SpreadFlat
<1>5. PICK n \in Nat : n = Len(ss)
  OBVIOUS
<1>6. ASSUME NEW i \in 1..n PROVE Spread(f, ss[i]) = Filtered(ss[i], G)
  <2>1. PICK p \in Seq(T) : p = ss[i]
    BY <1>5
  <2> QED
    BY <1>1, <2>1, FilteredSpread
<1>7. SpreadParts(f, ss) = FilteredParts(ss, G)
  BY <1>5, <1>6 DEF SpreadParts, FilteredParts
<1> QED
  BY <1>2, <1>3, <1>4, <1>7

(* Two elements of a flattened sequence come from one part or from two, in  *)
(* this order.                                                              *)
PlacesOf(ss, x, y, i, j, a, b) ==
    x = ss[i][a] /\ y = ss[j][b] /\ (i < j \/ (i = j /\ a < b))
LEMMA FlatPairs ==
    ASSUME NEW T, NEW ss \in Seq(Seq(T)), NEW q, q = FlattenSeq(ss),
           NEW k \in 1..Len(q), NEW m \in 1..Len(q), k < m
    PROVE  \E i, j \in 1..Len(ss) : \E a \in 1..Len(ss[i]), b \in 1..Len(ss[j]) :
              PlacesOf(ss, q[k], q[m], i, j, a, b)
<1>1. PICK o : FlatAt(ss, o, q) /\ q \in Seq(T)
  BY FlattenAt
<1>2. k \in DOMAIN q /\ m \in DOMAIN q
  BY <1>1
<1>3. PICK i \in 1..Len(ss) : \E a \in 1..Len(ss[i]) : k = o[i - 1] + a /\ q[k] = ss[i][a]
  BY <1>1, <1>2 DEF FlatAt
<1>4. PICK a \in 1..Len(ss[i]) : k = o[i - 1] + a /\ q[k] = ss[i][a]
  BY <1>3
<1>5. PICK j \in 1..Len(ss) : \E b \in 1..Len(ss[j]) : m = o[j - 1] + b /\ q[m] = ss[j][b]
  BY <1>1, <1>2 DEF FlatAt
<1>6. PICK b \in 1..Len(ss[j]) : m = o[j - 1] + b /\ q[m] = ss[j][b]
  BY <1>5
<1>7. o[i - 1] + a < o[j - 1] + b
  BY <1>4, <1>6
<1>8. i < j \/ (i = j /\ a < b)
  BY <1>1, <1>7, FlatOrder
<1>9. PlacesOf(ss, q[k], q[m], i, j, a, b)
  BY <1>4, <1>6, <1>8 DEF PlacesOf
<1> QED
  BY <1>9

LEMMA TwoJoined ==
    ASSUME NEW S, NEW a \in S, NEW b \in S PROVE <<a>> \o <<b>> = <<a, b>>
<1>1. PICK u \in Seq(S), v \in Seq(S), w \in Seq(S) : u = <<a>> /\ v = <<b>> /\ w = <<a, b>>
  <2>1. <<a>> \in Seq(S) /\ <<b>> \in Seq(S) /\ <<a, b>> \in Seq(S)
    OBVIOUS
  <2> QED
    BY <2>1
<1>2. Len(u) = 1 /\ u[1] = a /\ Len(v) = 1 /\ v[1] = b /\ Len(w) = 2 /\ w[1] = a /\ w[2] = b
  BY <1>1
<1>3. PICK r \in Seq(S) : r = u \o v /\ JoinAt(u, v, r)
  BY Joined
<1>4. Len(r) = 2 /\ r[1] = a /\ r[2] = b
  BY <1>2, <1>3 DEF JoinAt
<1>5. \A k \in 1..Len(r) : r[k] = w[k]
  BY <1>2, <1>4
<1>6. r = w
  BY <1>2, <1>4, <1>5, SeqEqual
<1> QED
  BY <1>1, <1>3, <1>6

LEMMA ThreeJoined ==
    ASSUME NEW S, NEW a \in S, NEW b \in S, NEW c \in S PROVE <<a, b>> \o <<c>> = <<a, b, c>>
<1>1. PICK u \in Seq(S), v \in Seq(S), w \in Seq(S) : u = <<a, b>> /\ v = <<c>> /\ w = <<a, b, c>>
  <2>1. <<a, b>> \in Seq(S) /\ <<c>> \in Seq(S) /\ <<a, b, c>> \in Seq(S)
    OBVIOUS
  <2> QED
    BY <2>1
<1>2. /\ Len(u) = 2 /\ u[1] = a /\ u[2] = b /\ Len(v) = 1 /\ v[1] = c
      /\ Len(w) = 3 /\ w[1] = a /\ w[2] = b /\ w[3] = c
  BY <1>1
<1>3. PICK r \in Seq(S) : r = u \o v /\ JoinAt(u, v, r)
  BY Joined
<1>4. Len(r) = 3 /\ r[1] = a /\ r[2] = b /\ r[3] = c
  BY <1>2, <1>3 DEF JoinAt
<1>5. \A k \in 1..Len(r) : r[k] = w[k]
  BY <1>2, <1>4
<1>6. r = w
  BY <1>2, <1>4, <1>5, SeqEqual
<1> QED
  BY <1>1, <1>3, <1>6

IsThree(T, a, b, c, p) ==
    /\ p \in Seq(Seq(T)) /\ FlattenSeq(p) = (a \o b) \o c
    /\ Len(p) = 3 /\ p[1] = a /\ p[2] = b /\ p[3] = c
LEMMA FlattenThree ==
    ASSUME NEW T, NEW a \in Seq(T), NEW b \in Seq(T), NEW c \in Seq(T)
    PROVE  \E p : IsThree(T, a, b, c, p)
<1>1. PICK S : S = Seq(T)
  OBVIOUS
<1>2. PICK u \in Seq(S), v \in Seq(S), w \in Seq(S), uv \in Seq(S), p \in Seq(S) :
         u = <<a>> /\ v = <<b>> /\ w = <<c>> /\ uv = <<a, b>> /\ p = <<a, b, c>>
  <2>1. a \in S /\ b \in S /\ c \in S
    BY <1>1
  <2>2. <<a>> \in Seq(S) /\ <<b>> \in Seq(S) /\ <<c>> \in Seq(S) /\ <<a, b>> \in Seq(S) /\ <<a, b, c>> \in Seq(S)
    BY <2>1
  <2> QED
    BY <2>2
<1>3. u \o v = uv /\ uv \o w = p
  BY <1>1, <1>2, TwoJoined, ThreeJoined
<1>4. Len(p) = 3 /\ p[1] = a /\ p[2] = b /\ p[3] = c
  BY <1>2
<1>5. u \in Seq(Seq(T)) /\ v \in Seq(Seq(T)) /\ w \in Seq(Seq(T)) /\ uv \in Seq(Seq(T)) /\ p \in Seq(Seq(T))
  BY <1>1, <1>2
<1>6. FlattenSeq(u) = a /\ FlattenSeq(v) = b /\ FlattenSeq(w) = c
  BY <1>2, FlattenOne
<1>7. FlattenSeq(u \o v) = FlattenSeq(u) \o FlattenSeq(v)
  BY <1>5, FlattenJoined
<1>8. FlattenSeq(uv \o w) = FlattenSeq(uv) \o FlattenSeq(w)
  BY <1>5, FlattenJoined
<1>9. FlattenSeq(p) = (a \o b) \o c
  BY <1>3, <1>6, <1>7, <1>8
<1>10. IsThree(T, a, b, c, p)
  BY <1>4, <1>5, <1>9 DEF IsThree
<1> QED
  BY <1>10

FlatBoth(ss, q) ==
    /\ \A k \in 1..Len(q) : \E i \in 1..Len(ss) : \E j \in 1..Len(ss[i]) : q[k] = ss[i][j]
    /\ \A i \in 1..Len(ss) : \A j \in 1..Len(ss[i]) : \E k \in 1..Len(q) : q[k] = ss[i][j]
LEMMA FlatBothWays ==
    ASSUME NEW T, NEW ss \in Seq(Seq(T)), NEW q, q = FlattenSeq(ss) PROVE FlatBoth(ss, q)
<1>1. PICK o : FlatAt(ss, o, q) /\ q \in Seq(T)
  BY FlattenAt
<1>2. DOMAIN q = 1..Len(q)
  BY <1>1
<1>3. ASSUME NEW k \in 1..Len(q) PROVE \E i \in 1..Len(ss) : \E j \in 1..Len(ss[i]) : q[k] = ss[i][j]
  BY <1>1, <1>2 DEF FlatAt
<1>4. ASSUME NEW i \in 1..Len(ss), NEW j \in 1..Len(ss[i]) PROVE \E k \in 1..Len(q) : q[k] = ss[i][j]
  <2>1. o[i - 1] + j \in DOMAIN q /\ q[o[i - 1] + j] = ss[i][j]
    BY <1>1 DEF FlatAt
  <2> QED
    BY <1>2, <2>1
<1> QED
  BY <1>3, <1>4 DEF FlatBoth

(* What is picked comes in the order of the places it is picked from.       *)
PicksUp(q, at, r) ==
    \A k \in DOMAIN r : \A m \in 1..k - 1 : \E p, o \in at : p < o /\ r[m] = q[p] /\ r[k] = q[o]
LEMMA PickedUp ==
    ASSUME NEW T, NEW q \in Seq(T), NEW at, at \subseteq DOMAIN q
    PROVE  PicksUp(q, at, Picked(q, at))
<1>1. PICK r : r = Picked(q, at)
  OBVIOUS
<1>2. \A k \in DOMAIN r : \A m \in 1..k - 1 : \E p, o \in at : p < o /\ r[m] = q[p] /\ r[k] = q[o]
  BY <1>1, PickedIs
<1> QED
  BY <1>1, <1>2 DEF PicksUp

(* A set of numbers has one ascending sequence.                             *)
LEMMA AscendingFirst ==
    ASSUME NEW p \in Seq(Nat), NEW q \in Seq(Nat),
           \A i, k \in 1..Len(p) : i < k => p[i] < p[k],
           \A i, k \in 1..Len(q) : i < k => q[i] < q[k],
           \A i \in 1..Len(p) : \E k \in 1..Len(q) : q[k] = p[i],
           \A i \in 1..Len(q) : \E k \in 1..Len(p) : p[k] = q[i]
    PROVE  Len(p) <= Len(q) /\ \A i \in 1..Len(p) : p[i] = q[i]
<1>1. PICK n \in Nat, m \in Nat : n = Len(p) /\ m = Len(q)
  OBVIOUS
<1>2. (\A i \in 1..n : p[i] \in Nat) /\ (\A i \in 1..m : q[i] \in Nat)
  <2>1. \A i \in 1..Len(p) : p[i] \in Nat
    BY ElementOfSeq
  <2>2. \A i \in 1..Len(q) : q[i] \in Nat
    BY ElementOfSeq
  <2> QED
    BY <1>1, <2>1, <2>2
<1> DEFINE S == {i \in Nat : i \in 1..n => i \in 1..m /\ p[i] = q[i]}
<1>3. ASSUME NEW i \in Nat, \A k \in 0..i - 1 : k \in S PROVE i \in S
  <2> SUFFICES ASSUME i \in 1..n PROVE i \in 1..m /\ p[i] = q[i]
    OBVIOUS
  <2>1. \A k \in 1..n : k < i => k \in 1..m /\ p[k] = q[k]
    <3>1. \A k \in 1..n : k < i => k \in 0..i - 1
      OBVIOUS
    <3> QED
      BY <1>3, <3>1
  <2>2. PICK j \in 1..m : q[j] = p[i]
    BY <1>1
  <2>3. ~(j < i)
    <3> SUFFICES ASSUME j < i PROVE FALSE
      OBVIOUS
    <3>1. j \in 1..n
      OBVIOUS
    <3>2. p[j] = q[j] /\ p[j] < p[i]
      BY <1>1, <2>1, <3>1
    <3> QED
      BY <1>2, <2>2, <3>1, <3>2
  <2>4. i \in 1..m /\ ~(j < i)
    BY <2>3
  <2>5. PICK k \in 1..n : p[k] = q[i]
    BY <1>1, <2>4
  <2>6. ~(k < i)
    <3> SUFFICES ASSUME k < i PROVE FALSE
      OBVIOUS
    <3>1. k \in 1..m /\ p[k] = q[k]
      BY <2>1
    <3>2. q[k] < q[i]
      BY <1>1, <2>4, <3>1
    <3> QED
      BY <1>2, <2>4, <2>5, <3>1, <3>2
  <2>7. CASE i < j
    <3>1. q[i] < q[j]
      BY <1>1, <2>4, <2>7
    <3>2. k = i \/ i < k
      BY <2>6
    <3>3. p[i] = p[k] \/ p[i] < p[k]
      BY <1>1, <3>2
    <3> QED
      BY <1>2, <2>2, <2>4, <2>5, <3>1, <3>3
  <2>8. CASE i = j
    BY <2>2, <2>4, <2>8
  <2> QED
    BY <2>4, <2>7, <2>8
<1>4. Nat \subseteq S
  <2> HIDE DEF S
  <2> QED
    BY <1>3, StrongInduction
<1>5. \A i \in 1..n : i \in 1..m /\ p[i] = q[i]
  BY <1>4
<1>6. n <= m
  <2> HIDE DEF S
  <2>1. CASE n = 0
    BY <2>1
  <2>2. CASE n # 0
    <3>1. n \in 1..n
      BY <2>2
    <3>2. n \in 1..m
      BY <1>5, <3>1
    <3> QED
      BY <3>2
  <2> QED
    BY <2>1, <2>2
<1> QED
  BY <1>1, <1>5, <1>6

LEMMA SameAscending ==
    ASSUME NEW p \in Seq(Nat), NEW q \in Seq(Nat),
           \A i, k \in 1..Len(p) : i < k => p[i] < p[k],
           \A i, k \in 1..Len(q) : i < k => q[i] < q[k],
           \A i \in 1..Len(p) : \E k \in 1..Len(q) : q[k] = p[i],
           \A i \in 1..Len(q) : \E k \in 1..Len(p) : p[k] = q[i]
    PROVE  p = q
<1>1. Len(p) <= Len(q) /\ \A i \in 1..Len(p) : p[i] = q[i]
  BY AscendingFirst
<1>2. Len(q) <= Len(p)
  BY AscendingFirst
<1>3. Len(p) = Len(q)
  BY <1>1, <1>2
<1> QED
  BY <1>1, <1>3, SeqEqual

(* How many records have smaller positions.                                 *)
PositionsOf(ss) == {s.pos : s \in ss}
OneEach(ss) == \A s, t \in ss : s.pos = t.pos => s = t
LEMMA CountedByPosition ==
    ASSUME NEW ss, OneEach(ss), IsFiniteSet(PositionsOf(ss))
    PROVE  IsFiniteSet(ss) /\ Cardinality(ss) = Cardinality(PositionsOf(ss))
<1> DEFINE f == [s \in ss |-> s.pos]
<1>1. f \in Bijection(ss, PositionsOf(ss))
  <2>1. f \in [ss -> PositionsOf(ss)]
    BY DEF PositionsOf
  <2>2. \A s, t \in ss : f[s] = f[t] => s = t
    BY DEF OneEach
  <2>3. \A x \in PositionsOf(ss) : \E s \in ss : f[s] = x
    BY DEF PositionsOf
  <2> HIDE DEF f
  <2> QED
    BY <2>1, <2>2, <2>3 DEF Bijection, Injection, Surjection, IsInjective
<1> HIDE DEF f
<1>2. f \in Injection(ss, PositionsOf(ss))
  BY <1>1 DEF Bijection
<1>3. IsFiniteSet(ss)
  BY <1>2, FS_Injection
<1> QED
  BY <1>1, <1>3, FS_Bijection DEF ExistsBijection

=============================================================================
