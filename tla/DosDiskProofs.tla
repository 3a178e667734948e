---------------------------- MODULE DosDiskProofs ----------------------------
(***************************************************************************)
(* Lemmas about the operators of DosDisk.                                  *)
(***************************************************************************)
EXTENDS DosDisk, FiniteSetTheorems, WellFoundedInduction, TLAPS

-----------------------------------------------------------------------------
(* Numbers and recursion.                                                   *)

\* Every set of numbers that is not empty has a least one.
LEMMA LeastNumber == ASSUME NEW S \in SUBSET Nat, S # {}
                     PROVE  \E x \in S : \A y \in S : x <= y
<1>1. PICK x \in S : \A y \in S : ~(<<y, x>> \in OpToRel(<, Nat))
  BY NatLessThanWellFounded, WFMin
<1>2. \A y \in S : ~(y < x)
  BY <1>1 DEF OpToRel
<1> QED BY <1>2

\* Min picks it.
LEMMA MinOfNumbers == ASSUME NEW S \in SUBSET Nat, S # {}
                      PROVE  Min(S) \in S /\ \A y \in S : Min(S) <= y
  BY LeastNumber DEF Min

\* Induction over a set of numbers.
LEMMA NumbersInduct == ASSUME NEW S \in SUBSET Nat, 0 \in S, \A n \in S : n + 1 \in S
                       PROVE  S = Nat
<1> SUFFICES ASSUME Nat \ S # {} PROVE FALSE
  OBVIOUS
<1>1. PICK x \in Nat \ S : \A y \in Nat \ S : x <= y
  BY LeastNumber
<1>2. x - 1 \in Nat /\ x - 1 \in S
  BY <1>1
<1> QED BY <1>1, <1>2

\* Max picks the largest of finitely many numbers.
LEMMA MaxOfNumbers == ASSUME NEW n \in Nat, NEW S \in SUBSET (1..n), S # {}
                      PROVE  Max(S) \in S /\ \A y \in S : Max(S) >= y
<1> DEFINE T == {n - x : x \in S}
<1>1. T \in SUBSET Nat /\ T # {}
  <2>1. \A x \in S : n - x \in Nat
    OBVIOUS
  <2> QED BY <2>1
<1>2. PICK z \in T : \A y \in T : z <= y
  BY <1>1, LeastNumber
<1>3. PICK x \in S : z = n - x
  BY <1>2
<1> HIDE DEF T
<1>5. \A y \in S : n - y \in T
  BY DEF T
<1>4. ASSUME NEW y \in S PROVE x >= y
  <2>1. z <= n - y
    BY <1>5, <1>2
  <2> QED BY <2>1, <1>3
<1> QED BY <1>3, <1>4 DEF Max

\* A fold takes an element away and goes on with the rest: the functions that do
\* so on all subsets of S, for a choice ch of the element and a step h.
Recursions(S, V, base, ch, h) ==
    {it \in [SUBSET S -> V] :
        it = [s \in SUBSET S |-> IF s = {} THEN base ELSE h[<<ch[s], it[s \ {ch[s]}]>>]]}
Chooses(S, ch)  == \A s \in SUBSET S : s # {} => ch[s] \in s
StepsIn(S, V, h) == \A x \in S, v \in V : h[<<x, v>>] \in V

\* There is one on every finite set.
LEMMA Recursion ==
  ASSUME NEW S, IsFiniteSet(S), NEW V, NEW base \in V, NEW ch, Chooses(S, ch), NEW h, StepsIn(S, V, h)
  PROVE  Recursions(S, V, base, ch, h) # {}
<1> USE DEF Chooses, StepsIn
<1> DEFINE D(n) == {s \in SUBSET S : Cardinality(s) <= n}
           F(s, it) == IF s = {} THEN base ELSE h[<<ch[s], it[s \ {ch[s]}]>>]
           Good == {n \in Nat : \E it \in [D(n) -> V] : \A s \in D(n) : it[s] = F(s, it)}
<1>1. \A s \in SUBSET S : IsFiniteSet(s) /\ Cardinality(s) \in Nat
  BY FS_Subset, FS_CardinalityType
<1>9. \A s \in SUBSET S, x \in S : x \in s => Cardinality(s \ {x}) = Cardinality(s) - 1
  BY <1>1, FS_RemoveElement
<1>2. 0 \in Good
  <2> DEFINE it == [s \in D(0) |-> base]
  <2>1. \A s \in D(0) : s = {}
    <3> SUFFICES ASSUME NEW s \in D(0) PROVE s = {}
      OBVIOUS
    <3>1. IsFiniteSet(s) /\ Cardinality(s) = 0
      BY <1>1
    <3> QED BY <3>1, FS_EmptySet
  <2>2. it \in [D(0) -> V] /\ \A s \in D(0) : it[s] = F(s, it)
    BY <2>1
  <2> QED BY <2>2
<1>3. ASSUME NEW n \in Good PROVE n + 1 \in Good
  <2>1. PICK it \in [D(n) -> V] : \A s \in D(n) : it[s] = F(s, it)
    OBVIOUS
  <2> DEFINE it2 == [s \in D(n + 1) |-> F(s, it)]
  <2>2. ASSUME NEW s \in D(n + 1), s # {} PROVE s \ {ch[s]} \in D(n) /\ s \ {ch[s]} \in D(n + 1) /\ ch[s] \in S
    <3>1. ch[s] \in s /\ IsFiniteSet(s) /\ Cardinality(s) <= n + 1
      BY <2>2, <1>1
    <3>2. Cardinality(s \ {ch[s]}) = Cardinality(s) - 1
      BY <3>1, <1>9
    <3>3. s \in SUBSET S /\ s \ {ch[s]} \in SUBSET S
      OBVIOUS
    <3>4. Cardinality(s \ {ch[s]}) <= n /\ Cardinality(s \ {ch[s]}) <= n + 1
      BY <3>1, <3>2, <3>3, <1>1
    <3> QED BY <3>1, <3>3, <3>4
  <2>3. it2 \in [D(n + 1) -> V]
    BY <2>2
  <2>4. \A s \in D(n) : it2[s] = it[s]
    BY <2>1, <1>1
  <2>5. ASSUME NEW s \in D(n + 1) PROVE it2[s] = F(s, it2)
    <3>1. CASE s = {}
      BY <3>1
    <3>2. CASE s # {}
      <4>1. it2[s] = h[<<ch[s], it[s \ {ch[s]}]>>]
        BY <3>2
      <4>2. it2[s \ {ch[s]}] = it[s \ {ch[s]}]
        BY <3>2, <2>2, <2>4
      <4> HIDE DEF it2
      <4> QED BY <3>2, <4>1, <4>2
    <3> QED BY <3>1, <3>2
  <2>6. \E j \in [D(n + 1) -> V] : \A s \in D(n + 1) : j[s] = F(s, j)
    <3> HIDE DEF it2, F
    <3> QED BY <2>3, <2>5
  <2> HIDE DEF D, F
  <2> QED BY <2>6
<1>4. Good = Nat
  <2>1. Good \in SUBSET Nat
    BY DEF Good
  <2> HIDE DEF Good
  <2> QED BY <2>1, <1>2, <1>3, NumbersInduct
<1>5. Cardinality(S) \in Nat /\ D(Cardinality(S)) = SUBSET S
  <2>1. \A s \in SUBSET S : Cardinality(s) <= Cardinality(S)
    BY FS_Subset
  <2>2. Cardinality(S) \in Nat
    BY FS_CardinalityType
  <2>3. D(Cardinality(S)) = {s \in SUBSET S : TRUE}
    BY <2>1
  <2> QED BY <2>2, <2>3
<1>6. PICK it \in [SUBSET S -> V] : \A s \in SUBSET S : it[s] = F(s, it)
  <2>1. Cardinality(S) \in Good
    BY <1>4, <1>5
  <2>2. \E it \in [D(Cardinality(S)) -> V] : \A s \in D(Cardinality(S)) : it[s] = F(s, it)
    BY <2>1
  <2> HIDE DEF Good, D
  <2> QED BY <1>5, <2>2
<1>7. it = [s \in SUBSET S |-> F(s, it)]
  BY <1>6
<1> QED BY <1>7 DEF Recursions

-----------------------------------------------------------------------------
(* How much a directory and a disk hold.                                    *)

\* The size of a directory is the sum of the lengths of its files, from the first slot on.
LEMMA SizeAdds ==
  ASSUME NEW n \in Nat, NEW slots, DOMAIN slots = 1..n, \A i \in 1..n : Len(slots[i].text) \in Nat
  PROVE  \E g \in [0..n -> Nat] : /\ g[0] = 0 /\ g[n] = Size(slots)
                                  /\ \A k \in 1..n : g[k] = g[k - 1] + Len(slots[k].text)
<1> DEFINE F(it) == [s \in SUBSET (DOMAIN slots) |->
                       IF s = {} THEN 0 ELSE it[s \ {Max(s)}] + Len(slots[Max(s)].text)]
           iter == CHOOSE it : it = F(it)
           S == 1..n
           ch == [s \in SUBSET S |-> Max(s)]
           h == [p \in S \X Nat |-> p[2] + Len(slots[p[1]].text)]
           g == [k \in 0..n |-> iter[1..k]]
<1>1. Size(slots) = iter[DOMAIN slots]
  BY DEF Size, FoldLeft, MapThenFoldSet
<1>2. \E it : it = F(it)
  <2>1. IsFiniteSet(S)
    BY FS_Interval
  <2>2. \A s \in SUBSET S : s # {} => ch[s] \in s
    BY MaxOfNumbers
  <2>3. \A x \in S, v \in Nat : h[<<x, v>>] = v + Len(slots[x].text) /\ h[<<x, v>>] \in Nat
    OBVIOUS
  <2> HIDE DEF ch, h
  <2>4. PICK it \in [SUBSET S -> Nat] :
               it = [s \in SUBSET S |-> IF s = {} THEN 0 ELSE h[<<ch[s], it[s \ {ch[s]}]>>]]
    <3>1. Chooses(S, ch) /\ StepsIn(S, Nat, h)
      BY <2>2, <2>3 DEF Chooses, StepsIn
    <3> HIDE DEF S
    <3>2. Recursions(S, Nat, 0, ch, h) # {}
      BY <2>1, <3>1, Recursion
    <3> QED BY <3>2 DEF Recursions
  <2>5. \A s \in SUBSET S : s # {} => /\ ch[s] = Max(s) /\ ch[s] \in S
                                      /\ h[<<ch[s], it[s \ {ch[s]}]>>] = it[s \ {Max(s)}] + Len(slots[Max(s)].text)
    BY <2>2, <2>3 DEF ch
  <2>6. it = F(it)
    BY <2>4, <2>5
  <2> QED BY <2>6
<1>3. iter = F(iter)
  <2> HIDE DEF F
  <2> QED BY <1>2
<1>4. iter[{}] = 0 /\ 1..0 = {}
  <2> HIDE DEF iter
  <2>1. iter[{}] = F(iter)[{}]
    BY <1>3
  <2> QED BY <2>1
<1>5. ASSUME NEW k \in 1..n PROVE iter[1..k] = iter[1..(k - 1)] + Len(slots[k].text)
  <2> HIDE DEF iter
  <2>1. 1..k \in SUBSET S /\ 1..k # {}
    <3>1. \A i \in 1..k : i \in 1..n
      OBVIOUS
    <3>2. k \in 1..k
      OBVIOUS
    <3> QED BY <3>1, <3>2
  <2>2. Max(1..k) \in 1..k /\ \A y \in 1..k : Max(1..k) >= y
    BY <2>1, MaxOfNumbers
  <2>3. Max(1..k) = k
    BY <2>2
  <2>4. (1..k) \ {k} = 1..(k - 1)
    OBVIOUS
  <2>5. iter[1..k] = F(iter)[1..k]
    BY <1>3
  <2> QED BY <2>1, <2>3, <2>4, <2>5
<1> HIDE DEF iter
<1>6. {k \in Nat : k <= n => iter[1..k] \in Nat} = Nat
  <2> DEFINE P == {k \in Nat : k <= n => iter[1..k] \in Nat}
  <2>1. 0 \in P
    BY <1>4
  <2>2. ASSUME NEW k \in P PROVE k + 1 \in P
    <3>1. CASE k + 1 <= n
      <4>1. iter[1..(k + 1)] = iter[1..k] + Len(slots[k + 1].text)
        BY <3>1, <1>5
      <4> QED BY <3>1, <4>1
    <3> QED BY <3>1
  <2>3. P \in SUBSET Nat
    BY DEF P
  <2> HIDE DEF P
  <2>4. P = Nat
    BY <2>1, <2>2, <2>3, NumbersInduct
  <2> QED BY <2>4 DEF P
<1>7. g \in [0..n -> Nat]
  <2>1. \A k \in 0..n : iter[1..k] \in Nat
    BY <1>6
  <2> QED BY <2>1
<1>8. g[0] = 0 /\ g[n] = Size(slots) /\ \A k \in 1..n : g[k] = g[k - 1] + Len(slots[k].text)
  BY <1>1, <1>4, <1>5
<1> QED BY <1>7, <1>8

\* Changing one slot changes the size by the difference of the two lengths.
LEMMA SizeOfChange ==
  ASSUME NEW n \in Nat, NEW i \in 1..n, NEW one, NEW two, DOMAIN one = 1..n, DOMAIN two = 1..n,
         \A j \in 1..n : Len(one[j].text) \in Nat /\ Len(two[j].text) \in Nat,
         \A j \in 1..n : j # i => two[j].text = one[j].text
  PROVE  /\ Size(one) \in Nat /\ Size(two) \in Nat
         /\ Size(two) + Len(one[i].text) = Size(one) + Len(two[i].text)
<1>1. PICK g \in [0..n -> Nat] : /\ g[0] = 0 /\ g[n] = Size(one)
                                 /\ \A k \in 1..n : g[k] = g[k - 1] + Len(one[k].text)
  BY SizeAdds
<1>2. PICK h \in [0..n -> Nat] : /\ h[0] = 0 /\ h[n] = Size(two)
                                 /\ \A k \in 1..n : h[k] = h[k - 1] + Len(two[k].text)
  BY SizeAdds
<1> DEFINE P == {k \in Nat : k <= n => IF k < i THEN h[k] = g[k]
                                       ELSE h[k] + Len(one[i].text) = g[k] + Len(two[i].text)}
<1>3. 0 \in P
  BY <1>1, <1>2
<1>4. ASSUME NEW k \in P PROVE k + 1 \in P
  <2>1. CASE k + 1 <= n
    <3>1. k \in Nat /\ i \in Nat /\ k \in 0..n /\ k + 1 \in 1..n /\ k + 1 - 1 = k
      BY <2>1
    <3>2. g[k + 1] = g[k] + Len(one[k + 1].text) /\ h[k + 1] = h[k] + Len(two[k + 1].text)
      <4> HIDE DEF P
      <4>1. /\ g[k + 1] = g[k + 1 - 1] + Len(one[k + 1].text)
            /\ h[k + 1] = h[k + 1 - 1] + Len(two[k + 1].text)
        BY <3>1, <1>1, <1>2
      <4> QED BY <4>1, <3>1
    <3>3. g[k] \in Nat /\ h[k] \in Nat /\ Len(one[k + 1].text) \in Nat /\ Len(two[k + 1].text) \in Nat
          /\ Len(one[i].text) \in Nat /\ Len(two[i].text) \in Nat
      BY <3>1
    <3>4. k + 1 # i => Len(two[k + 1].text) = Len(one[k + 1].text)
      BY <3>1
    <3>5. IF k < i THEN h[k] = g[k] ELSE h[k] + Len(one[i].text) = g[k] + Len(two[i].text)
      BY <2>1
    <3>6. IF k + 1 < i THEN h[k + 1] = g[k + 1] ELSE h[k + 1] + Len(one[i].text) = g[k + 1] + Len(two[i].text)
      <4> HIDE DEF P
      <4>1. CASE k + 1 = i
        <5>1. k < i /\ ~(k + 1 < i)
          BY <4>1, <3>1
        <5>2. h[k] = g[k]
          BY <5>1, <3>5
        <5>3. h[k + 1] = g[k] + Len(two[i].text) /\ g[k + 1] = g[k] + Len(one[i].text)
          <6>1. one[i] = one[k + 1] /\ two[i] = two[k + 1]
            BY <4>1
          <6> QED BY <6>1, <5>2, <3>2
        <5> DEFINE a == g[k]
                   b == Len(one[i].text)
                   c == Len(two[i].text)
        <5>4. a \in Nat /\ b \in Nat /\ c \in Nat
          BY <3>3
        <5>5. h[k + 1] = a + c /\ g[k + 1] = a + b
          BY <5>3
        <5> HIDE DEF a, b, c
        <5>6. h[k + 1] + b = g[k + 1] + c
          BY <5>4, <5>5
        <5> QED BY <5>1, <5>6 DEF b, c
      <4>2. CASE k + 1 # i
        <5>1. k + 1 < i <=> k < i
          BY <4>2, <3>1
        <5>2. h[k + 1] = h[k] + Len(one[k + 1].text)
          BY <4>2, <3>2, <3>4
        <5> DEFINE a == Len(one[k + 1].text)
                   b == Len(one[i].text)
                   c == Len(two[i].text)
        <5>3. a \in Nat /\ b \in Nat /\ c \in Nat
          BY <3>3
        <5> HIDE DEF a, b, c
        <5>4. IF k < i THEN h[k] = g[k] ELSE h[k] + b = g[k] + c
          BY <3>5 DEF b, c
        <5>5. h[k + 1] = h[k] + a /\ g[k + 1] = g[k] + a
          BY <5>2, <3>2 DEF a
        <5> DEFINE u == h[k]
                   v == g[k]
        <5>7. u \in Nat /\ v \in Nat
          BY <3>3
        <5>8. (IF k < i THEN u = v ELSE u + b = v + c) /\ h[k + 1] = u + a /\ g[k + 1] = v + a
          BY <5>4, <5>5
        <5> HIDE DEF u, v
        <5>9. IF k < i THEN u + a = v + a ELSE u + a + b = v + a + c
          BY <5>3, <5>7, <5>8
        <5>6. IF k < i THEN h[k + 1] = g[k + 1] ELSE h[k + 1] + b = g[k + 1] + c
          BY <5>8, <5>9
        <5> QED BY <5>1, <5>6 DEF b, c
      <4> QED BY <4>1, <4>2
    <3> QED BY <3>6
  <2> QED BY <2>1
<1>5. P = Nat
  <2>1. P \in SUBSET Nat
    BY DEF P
  <2> HIDE DEF P
  <2> QED BY <1>3, <1>4, <2>1, NumbersInduct
<1>6. n \in P
  BY <1>5
<1> QED BY <1>1, <1>2, <1>6

\* Slots that hold the same texts have the same size; a slot more adds its length.
LEMMA SizeOfAppend ==
  ASSUME NEW n \in Nat, NEW one, NEW two, DOMAIN one = 1..n, DOMAIN two = 1..(n + 1),
         \A j \in 1..n : Len(one[j].text) \in Nat,
         \A j \in 1..(n + 1) : Len(two[j].text) \in Nat,
         \A j \in 1..n : two[j].text = one[j].text
  PROVE  Size(one) \in Nat /\ Size(two) = Size(one) + Len(two[n + 1].text)
<1>1. PICK g \in [0..n -> Nat] : /\ g[0] = 0 /\ g[n] = Size(one)
                                 /\ \A k \in 1..n : g[k] = g[k - 1] + Len(one[k].text)
  BY SizeAdds
<1>9. n + 1 \in Nat
  OBVIOUS
<1>2. PICK h \in [0..(n + 1) -> Nat] : /\ h[0] = 0 /\ h[n + 1] = Size(two)
                                 /\ \A k \in 1..(n + 1) : h[k] = h[k - 1] + Len(two[k].text)
  BY <1>9, SizeAdds
<1> DEFINE P == {k \in Nat : k <= n => h[k] = g[k]}
<1>3. 0 \in P
  BY <1>1, <1>2
<1>4. ASSUME NEW k \in P PROVE k + 1 \in P
  <2>1. CASE k + 1 <= n
    <3>1. k \in 0..n /\ k + 1 \in 1..n /\ k + 1 - 1 = k
      BY <2>1
    <3>2. g[k + 1] = g[k] + Len(one[k + 1].text) /\ h[k + 1] = h[k] + Len(two[k + 1].text)
      BY <3>1, <1>1, <1>2
    <3>3. two[k + 1].text = one[k + 1].text
      BY <3>1
    <3>4. h[k] = g[k]
      BY <2>1
    <3>5. h[k + 1] = g[k + 1]
      BY <3>2, <3>3, <3>4
    <3> QED BY <3>5
  <2> QED BY <2>1
<1>5. P = Nat
  <2>1. P \in SUBSET Nat
    BY DEF P
  <2> HIDE DEF P
  <2> QED BY <1>3, <1>4, <2>1, NumbersInduct
<1>6. h[n] = g[n]
  BY <1>5
<1>7. n + 1 \in 1..(n + 1) /\ n + 1 - 1 = n
  OBVIOUS
<1>8. h[n + 1] = h[n] + Len(two[n + 1].text)
  BY <1>2, <1>7
<1> QED BY <1>1, <1>2, <1>6, <1>8

\* The element of a set that a sum over it takes first.
Pick(s) == CHOOSE x \in s : TRUE

\* What holds of the empty set, and of a set when it holds of it without the
\* element Pick takes, holds of all subsets of a finite set.
LEMMA SetsInduct ==
  ASSUME NEW S, IsFiniteSet(S), NEW T, {} \in T,
         \A s \in SUBSET S : s # {} /\ s \ {Pick(s)} \in T => s \in T
  PROVE  \A s \in SUBSET S : s \in T
<1> DEFINE P == {n \in Nat : \A s \in SUBSET S : Cardinality(s) <= n => s \in T}
<1>1. \A s \in SUBSET S : IsFiniteSet(s) /\ Cardinality(s) \in Nat
  BY FS_Subset, FS_CardinalityType
<1>2. 0 \in P
  <2> SUFFICES ASSUME NEW s \in SUBSET S, Cardinality(s) <= 0 PROVE s \in T
    OBVIOUS
  <2>1. IsFiniteSet(s) /\ Cardinality(s) = 0
    BY <1>1
  <2> QED BY <2>1, FS_EmptySet
<1>3. ASSUME NEW n \in P PROVE n + 1 \in P
  <2> SUFFICES ASSUME NEW s \in SUBSET S, Cardinality(s) <= n + 1, s # {} PROVE s \in T
    OBVIOUS
  <2>1. Pick(s) \in s
    BY DEF Pick
  <2>2. Cardinality(s \ {Pick(s)}) = Cardinality(s) - 1
    BY <2>1, <1>1, FS_RemoveElement
  <2>3. s \ {Pick(s)} \in SUBSET S /\ Cardinality(s) \in Nat /\ n \in Nat
    BY <1>1
  <2>4. Cardinality(s \ {Pick(s)}) <= n
    BY <2>2, <2>3
  <2>5. s \ {Pick(s)} \in T
    BY <2>3, <2>4
  <2> QED BY <2>5
<1>4. P = Nat
  <2>1. P \in SUBSET Nat
    BY DEF P
  <2> HIDE DEF P
  <2> QED BY <1>2, <1>3, <2>1, NumbersInduct
<1>5. Cardinality(S) \in P /\ \A s \in SUBSET S : Cardinality(s) <= Cardinality(S)
  BY <1>4, FS_CardinalityType, FS_Subset
<1> QED BY <1>5

\* What a disk uses is the sum of the sizes of its directories, one picked after the other.
LEMMA UsedAdds ==
  ASSUME NEW dk, \A d \in Dirs : Size(dk[d]) \in Nat
  PROVE  \E g \in [SUBSET Dirs -> Nat] :
            /\ g[{}] = 0 /\ g[Dirs] = Used(dk)
            /\ \A s \in SUBSET Dirs : s # {} => g[s] = Size(dk[Pick(s)]) + g[s \ {Pick(s)}]
<1> DEFINE F(it) == [s \in SUBSET Dirs |->
                       IF s = {} THEN 0 ELSE Size(dk[Pick(s)]) + it[s \ {Pick(s)}]]
           iter == CHOOSE it : it = F(it)
           ch == [s \in SUBSET Dirs |-> Pick(s)]
           h == [p \in Dirs \X Nat |-> Size(dk[p[1]]) + p[2]]
<1>1. Used(dk) = iter[Dirs]
  BY DEF Used, MapThenSumSet, MapThenFoldSet, Pick
<1>2. \E it : it = F(it)
  <2>1. IsFiniteSet(Dirs)
    BY DosAssumption
  <2>2. \A s \in SUBSET Dirs : s # {} => ch[s] \in s
    BY DEF Pick
  <2>3. \A x \in Dirs, v \in Nat : h[<<x, v>>] = Size(dk[x]) + v /\ h[<<x, v>>] \in Nat
    OBVIOUS
  <2> HIDE DEF ch, h
  <2>4. Chooses(Dirs, ch) /\ StepsIn(Dirs, Nat, h)
    BY <2>2, <2>3 DEF Chooses, StepsIn
  <2>5. Recursions(Dirs, Nat, 0, ch, h) # {}
    BY <2>1, <2>4, Recursion
  <2>6. PICK it \in [SUBSET Dirs -> Nat] :
               it = [s \in SUBSET Dirs |-> IF s = {} THEN 0 ELSE h[<<ch[s], it[s \ {ch[s]}]>>]]
    BY <2>5 DEF Recursions
  <2>7. \A s \in SUBSET Dirs : s # {} => /\ ch[s] = Pick(s) /\ ch[s] \in Dirs
                                         /\ h[<<ch[s], it[s \ {ch[s]}]>>] = Size(dk[Pick(s)]) + it[s \ {Pick(s)}]
    BY <2>2, <2>3 DEF ch
  <2>8. it = F(it)
    BY <2>6, <2>7
  <2> QED BY <2>8
<1>3. iter = F(iter)
  <2> HIDE DEF F
  <2> QED BY <1>2
<1> HIDE DEF iter
<1>4. iter[{}] = 0
  <2>1. iter[{}] = F(iter)[{}]
    BY <1>3
  <2> QED BY <2>1
<1>5. ASSUME NEW s \in SUBSET Dirs, s # {} PROVE iter[s] = Size(dk[Pick(s)]) + iter[s \ {Pick(s)}]
  <2>1. iter[s] = F(iter)[s]
    BY <1>3
  <2> QED BY <2>1, <1>5
<1>6. \A s \in SUBSET Dirs : iter[s] \in Nat
  <2> DEFINE T == {s \in SUBSET Dirs : iter[s] \in Nat}
  <2>1. {} \in T
    BY <1>4
  <2>2. ASSUME NEW s \in SUBSET Dirs, s # {}, s \ {Pick(s)} \in T PROVE s \in T
    <3>1. Pick(s) \in Dirs
      BY <2>2 DEF Pick
    <3> QED BY <3>1, <2>2, <1>5
  <2> HIDE DEF T
  <2>3. \A s \in SUBSET Dirs : s \in T
    BY <2>1, <2>2, SetsInduct, DosAssumption
  <2> QED BY <2>3 DEF T
<1>7. iter = [s \in SUBSET Dirs |-> iter[s]]
  BY <1>3
<1>8. iter \in [SUBSET Dirs -> Nat]
  BY <1>6, <1>7
<1> QED BY <1>8, <1>1, <1>4, <1>5

\* Changing one directory changes what is used by the difference of the two sizes.
LEMMA UsedOfChange ==
  ASSUME NEW one, NEW two, NEW d \in Dirs,
         \A e \in Dirs : Size(one[e]) \in Nat /\ Size(two[e]) \in Nat,
         \A e \in Dirs : e # d => two[e] = one[e]
  PROVE  /\ Used(one) \in Nat /\ Used(two) \in Nat
         /\ Used(two) + Size(one[d]) = Used(one) + Size(two[d])
<1>1. PICK g \in [SUBSET Dirs -> Nat] :
            /\ g[{}] = 0 /\ g[Dirs] = Used(one)
            /\ \A s \in SUBSET Dirs : s # {} => g[s] = Size(one[Pick(s)]) + g[s \ {Pick(s)}]
  BY UsedAdds
<1>6. (\A e \in Dirs : Size(one[e]) \in Nat) /\ (\A e \in Dirs : Size(two[e]) \in Nat)
  OBVIOUS
<1>2. PICK h \in [SUBSET Dirs -> Nat] :
            /\ h[{}] = 0 /\ h[Dirs] = Used(two)
            /\ \A s \in SUBSET Dirs : s # {} => h[s] = Size(two[Pick(s)]) + h[s \ {Pick(s)}]
  BY <1>6, UsedAdds
<1> DEFINE T == {s \in SUBSET Dirs : IF d \in s THEN h[s] + Size(one[d]) = g[s] + Size(two[d]) ELSE h[s] = g[s]}
<1>3. {} \in T
  BY <1>1, <1>2
<1>4. ASSUME NEW s \in SUBSET Dirs, s # {}, s \ {Pick(s)} \in T PROVE s \in T
  <2> DEFINE r == s \ {Pick(s)}
  <2>1. Pick(s) \in s /\ r \in SUBSET Dirs
    BY <1>4 DEF Pick
  <2>2. g[s] = Size(one[Pick(s)]) + g[r] /\ h[s] = Size(two[Pick(s)]) + h[r]
    BY <1>1, <1>2, <1>4
  <2>3. g[r] \in Nat /\ h[r] \in Nat /\ Size(one[Pick(s)]) \in Nat /\ Size(two[Pick(s)]) \in Nat
        /\ Size(one[d]) \in Nat /\ Size(two[d]) \in Nat
    BY <2>1
  <2>4. IF d \in r THEN h[r] + Size(one[d]) = g[r] + Size(two[d]) ELSE h[r] = g[r]
    BY <1>4
  <2>5. CASE Pick(s) = d
    <3>1. d \in s /\ d \notin r
      BY <2>1, <2>5
    <3>2. h[s] + Size(one[d]) = g[s] + Size(two[d])
      BY <3>1, <2>2, <2>3, <2>4, <2>5
    <3> QED BY <3>1, <3>2
  <2>6. CASE Pick(s) # d
    <3>1. d \in s <=> d \in r
      BY <2>1, <2>6
    <3>2. Size(two[Pick(s)]) = Size(one[Pick(s)])
      BY <2>1, <2>6
    <3> HIDE DEF r
    <3>3. IF d \in s THEN h[s] + Size(one[d]) = g[s] + Size(two[d]) ELSE h[s] = g[s]
      BY <3>1, <3>2, <2>2, <2>3, <2>4
    <3> QED BY <3>3
  <2> QED BY <2>5, <2>6
<1>5. Dirs \in T
  <2> HIDE DEF T
  <2>1. \A s \in SUBSET Dirs : s \in T
    BY <1>3, <1>4, SetsInduct, DosAssumption
  <2> QED BY <2>1
<1> QED BY <1>1, <1>2, <1>5

-----------------------------------------------------------------------------
(* Slots.                                                                   *)

\* A well-formed disk has at most one slot for a name, and SlotOf finds it.
LEMMA SlotFound ==
  ASSUME NEW dk, WellFormed(dk), NEW d \in Dirs, NEW n
  PROVE  /\ Len(dk[d]) \in Nat /\ DOMAIN dk[d] = 1..Len(dk[d])
         /\ \A i \in 1..Len(dk[d]) : dk[d][i] \in Slot
         /\ SlotOf(dk, d, n) \in 0..Len(dk[d])
         /\ SlotOf(dk, d, n) # 0 => /\ SlotOf(dk, d, n) \in 1..Len(dk[d])
                                    /\ dk[d][SlotOf(dk, d, n)].attr # "free"
                                    /\ dk[d][SlotOf(dk, d, n)].name = n
         /\ \A i \in 1..Len(dk[d]) : dk[d][i].attr # "free" /\ dk[d][i].name = n => SlotOf(dk, d, n) = i
<1> DEFINE I == {i \in 1..Len(dk[d]) : dk[d][i].attr # "free" /\ dk[d][i].name = n}
<1>1. dk[d] \in Seq(Slot)
  BY DEF WellFormed
<1>2. Len(dk[d]) \in Nat /\ DOMAIN dk[d] = 1..Len(dk[d]) /\ \A i \in 1..Len(dk[d]) : dk[d][i] \in Slot
  BY <1>1
<1>3. SlotOf(dk, d, n) = IF I # {} THEN Min(I) ELSE 0
  BY DEF SlotOf, SelectInSeq
<1>4. I \in SUBSET Nat
  BY <1>2
<1>5. I # {} => Min(I) \in I
  BY <1>4, MinOfNumbers
<1>6. \A i, j \in 1..Len(dk[d]) : i \in I /\ j \in I => i = j
  BY DEF WellFormed
<1>7. CASE I = {}
  BY <1>2, <1>3, <1>7
<1>8. CASE I # {}
  <2>1. SlotOf(dk, d, n) \in I
    BY <1>3, <1>5, <1>8
  <2> QED BY <2>1, <1>2, <1>6
<1> QED BY <1>7, <1>8

\* What a name of a directory means is said by its slot.
LEMMA SlotSays ==
  ASSUME NEW dk, WellFormed(dk), NEW d \in Dirs, NEW n, NEW i \in 1..Len(dk[d]),
         dk[d][i].attr # "free", dk[d][i].name = n
  PROVE  SlotOf(dk, d, n) = i /\ Attr(dk, d, n) = dk[d][i].attr /\ Text(dk, d, n) = dk[d][i].text
<1>1. SlotOf(dk, d, n) = i /\ i # 0
  BY SlotFound
<1>2. d # NoDir
  BY DosAssumption
<1> QED BY <1>1, <1>2 DEF Attr, Text

\* A name that is not free has a slot.
LEMMA NamedHasSlot ==
  ASSUME NEW dk, WellFormed(dk), NEW d \in Dirs, NEW n
  PROVE  /\ SlotOf(dk, d, n) = 0 <=> Attr(dk, d, n) = "free"
         /\ Attr(dk, d, n) # "free" => /\ Attr(dk, d, n) \in FileAttrs \union DirAttrs
                                       /\ Text(dk, d, n) \in Seq(STRING)
<1>1. d # NoDir
  BY DosAssumption
<1>2. CASE SlotOf(dk, d, n) = 0
  BY <1>1, <1>2 DEF Attr
<1>3. CASE SlotOf(dk, d, n) # 0
  <2> DEFINE i == SlotOf(dk, d, n)
  <2>1. i \in 1..Len(dk[d]) /\ dk[d][i].attr # "free" /\ dk[d][i] \in Slot
    BY <1>3, SlotFound
  <2>2. Attr(dk, d, n) = dk[d][i].attr /\ Text(dk, d, n) = dk[d][i].text
    BY <1>1, <1>3 DEF Attr, Text
  <2>3. dk[d][i].attr \in FileAttrs \union DirAttrs \union {"free"} /\ dk[d][i].text \in Seq(STRING)
    BY <2>1 DEF Slot
  <2> QED BY <1>3, <2>1, <2>2, <2>3
<1> QED BY <1>2, <1>3

\* No other file than n of directory d is touched from disk one to disk two, or moved.
Spares(one, two, d, n) ==
    \A e \in Dirs, m \in Names : <<e, m>> # <<d, n>> =>
        /\ Attr(two, e, m) = Attr(one, e, m)
        /\ SlotOf(two, e, m) = SlotOf(one, e, m) /\ Child(two, e, m) = Child(one, e, m)
        /\ Attr(one, e, m) # "free" => Text(two, e, m) = Text(one, e, m)

\* Slot i of directory d of disk one becomes the slot new in disk two, at its end or in its place.
Puts(one, two, d, i, new) ==
    \E slots \in Seq(Slot) :
        /\ two = [one EXCEPT ![d] = slots]
        /\ i \in 1..Len(slots) /\ Len(slots) = (IF i = Len(one[d]) + 1 THEN i ELSE Len(one[d]))
        /\ slots[i] = new
        /\ \A j \in 1..Len(slots) : j # i => slots[j] = one[d][j]

\* Such a change leaves a well-formed disk when name n is in no other slot, and spares the other files.
LEMMA SlotPut ==
  ASSUME NEW one, WellFormed(one), NEW two, NEW d \in Dirs, NEW n \in Names, NEW new \in Slot, NEW i,
         Puts(one, two, d, i, new),
         i \in 1..Len(one[d]) => one[d][i].attr = "free" \/ one[d][i].name = n,
         new.attr = "free" \/ (new.name = n /\ SlotOf(one, d, n) \in {0, i}),
         new.attr \notin DirAttrs
  PROVE  /\ WellFormed(two) /\ Spares(one, two, d, n)
         /\ new.attr # "free" => /\ Attr(two, d, n) = new.attr /\ Text(two, d, n) = new.text
                                 /\ SlotOf(two, d, n) = i
         /\ new.attr = "free" /\ SlotOf(one, d, n) \in {0, i} => Attr(two, d, n) = "free"
<1>1. PICK slots \in Seq(Slot) :
        /\ two = [one EXCEPT ![d] = slots]
        /\ i \in 1..Len(slots) /\ Len(slots) = (IF i = Len(one[d]) + 1 THEN i ELSE Len(one[d]))
        /\ slots[i] = new
        /\ \A j \in 1..Len(slots) : j # i => slots[j] = one[d][j]
  BY DEF Puts
<1>2. /\ one \in [Dirs -> Seq(Slot)] /\ two \in [Dirs -> Seq(Slot)]
      /\ two[d] = slots /\ \A e \in Dirs : e # d => two[e] = one[e]
  BY <1>1 DEF WellFormed
<1>3. Len(one[d]) \in Nat /\ \A j \in 1..Len(slots) : j # i => j \in 1..Len(one[d]) /\ j \in Nat
  BY <1>1, <1>2
<1>4. ASSUME NEW j \in 1..Len(slots), j # i, slots[j].attr # "free", new.attr # "free"
      PROVE  slots[j].name # n
  BY <1>1, <1>3, <1>4, SlotFound
<1>5. WellFormed(two)
  <2> SUFFICES ASSUME NEW e \in Dirs, NEW j \in 1..Len(two[e]), NEW k \in 1..Len(two[e])
               PROVE  /\ two[e][j].attr \in DirAttrs => two[e][j].opens \in Dirs
                      /\ two[e][j].attr # "free" /\ two[e][k].attr # "free" /\ two[e][j].name = two[e][k].name
                            => j = k
    BY <1>2 DEF WellFormed
  <2>1. CASE e # d
    BY <2>1, <1>2 DEF WellFormed
  <2>2. CASE e = d
    <3>1. two[e] = slots
      BY <2>2, <1>2
    <3>2. j # i => j \in 1..Len(one[d]) /\ slots[j] = one[d][j]
      BY <3>1, <1>1, <1>3
    <3>3. k # i => k \in 1..Len(one[d]) /\ slots[k] = one[d][k]
      BY <3>1, <1>1, <1>3
    <3>4. slots[j].attr \in DirAttrs => slots[j].opens \in Dirs
      BY <3>2, <1>1 DEF WellFormed
    <3>5. CASE j # i /\ k # i
      BY <3>1, <3>2, <3>3, <3>4, <3>5 DEF WellFormed
    <3>6. CASE j = i
      BY <3>1, <3>4, <3>6, <1>1, <1>4
    <3>7. CASE k = i
      BY <3>1, <3>4, <3>7, <1>1, <1>4
    <3> QED BY <3>5, <3>6, <3>7
  <2> QED BY <2>1, <2>2
<1>6. Spares(one, two, d, n)
  <2> SUFFICES ASSUME NEW e \in Dirs, NEW m \in Names, <<e, m>> # <<d, n>>
               PROVE  /\ Attr(two, e, m) = Attr(one, e, m)
                      /\ SlotOf(two, e, m) = SlotOf(one, e, m) /\ Child(two, e, m) = Child(one, e, m)
                      /\ Attr(one, e, m) # "free" => Text(two, e, m) = Text(one, e, m)
    BY DEF Spares
  <2>1. CASE e # d
    BY <2>1, <1>2 DEF Attr, Text, SlotOf, Child
  <2>2. CASE e = d
    <3>1. m # n
      BY <2>2
    <3>2. CASE SlotOf(one, d, m) # 0
      <4> DEFINE k == SlotOf(one, d, m)
      <4>1. k \in 1..Len(one[d]) /\ one[d][k].attr # "free" /\ one[d][k].name = m
        BY <3>2, <1>5, SlotFound
      <4>2. k # i /\ k \in 1..Len(slots)
        BY <4>1, <3>1, <1>1, <1>3
      <4>3. two[d][k] = one[d][k] /\ k \in 1..Len(two[d])
        BY <4>2, <1>1, <1>2
      <4> HIDE DEF k
      <4>4. Attr(two, d, m) = one[d][k].attr /\ Text(two, d, m) = one[d][k].text /\ SlotOf(two, d, m) = k
        BY <4>1, <4>3, <1>5, SlotSays
      <4>5. Attr(one, d, m) = one[d][k].attr /\ Text(one, d, m) = one[d][k].text /\ SlotOf(one, d, m) = k
        BY <4>1, SlotSays
      <4>6. Child(two, d, m) = Child(one, d, m)
        BY <4>3, <4>4, <4>5 DEF Child
      <4> QED BY <4>4, <4>5, <4>6, <2>2
    <3>3. CASE SlotOf(one, d, m) = 0
      <4>1. SlotOf(two, d, m) = 0
        <5> SUFFICES ASSUME SlotOf(two, d, m) # 0 PROVE FALSE
          OBVIOUS
        <5> DEFINE k == SlotOf(two, d, m)
        <5>1. k \in 1..Len(two[d]) /\ two[d][k].attr # "free" /\ two[d][k].name = m
          BY <1>5, SlotFound
        <5>2. k # i
          BY <5>1, <3>1, <1>1, <1>2
        <5>3. k \in 1..Len(one[d]) /\ one[d][k] = two[d][k] /\ k # 0
          BY <5>1, <5>2, <1>1, <1>2, <1>3
        <5> HIDE DEF k
        <5> QED BY <5>1, <5>3, <3>3, SlotFound
      <4>2. Attr(two, d, m) = "free" /\ Attr(one, d, m) = "free"
        BY <4>1, <3>3 DEF Attr
      <4>3. Child(two, d, m) = Child(one, d, m)
        BY <4>2 DEF Child, DirAttrs
      <4> QED BY <4>1, <4>2, <4>3, <3>3, <2>2
    <3> QED BY <3>2, <3>3
  <2> QED BY <2>1, <2>2
<1>7. ASSUME new.attr # "free"
      PROVE  Attr(two, d, n) = new.attr /\ Text(two, d, n) = new.text /\ SlotOf(two, d, n) = i
  <2>1. i \in 1..Len(two[d]) /\ two[d][i] = new /\ new.name = n
    BY <1>1, <1>2, <1>7
  <2> QED BY <2>1, <1>5, <1>7, SlotSays
<1>8. ASSUME new.attr = "free", SlotOf(one, d, n) \in {0, i} PROVE Attr(two, d, n) = "free"
  <2> SUFFICES ASSUME SlotOf(two, d, n) # 0 PROVE FALSE
    BY DEF Attr
  <2> DEFINE k == SlotOf(two, d, n)
  <2>1. k \in 1..Len(two[d]) /\ two[d][k].attr # "free" /\ two[d][k].name = n
    BY <1>5, SlotFound
  <2>2. k # i
    BY <2>1, <1>1, <1>2, <1>8
  <2>3. k \in 1..Len(one[d]) /\ one[d][k] = two[d][k] /\ k # 0
    BY <2>1, <2>2, <1>1, <1>2, <1>3
  <2> HIDE DEF k
  <2>4. SlotOf(one, d, n) = k
    BY <2>1, <2>3, SlotFound
  <2> QED BY <2>2, <2>3, <2>4, <1>8
<1> QED BY <1>5, <1>6, <1>7, <1>8

\* The size of a directory is a number, and so is what a disk uses.
LEMMA SizeType == ASSUME NEW slots \in Seq(Slot)
                  PROVE  Size(slots) \in Nat /\ \A i \in 1..Len(slots) : Len(slots[i].text) \in Nat
<1>1. Len(slots) \in Nat /\ DOMAIN slots = 1..Len(slots)
  OBVIOUS
<1>2. \A i \in 1..Len(slots) : slots[i].text \in Seq(STRING)
  <2>1. \A s \in Slot : s.text \in Seq(STRING)
    BY DEF Slot
  <2>2. \A i \in 1..Len(slots) : slots[i] \in Slot
    OBVIOUS
  <2> QED BY <2>1, <2>2
<1>3. \A i \in 1..Len(slots) : Len(slots[i].text) \in Nat
  BY <1>2
<1>4. \E g \in [0..Len(slots) -> Nat] : g[Len(slots)] = Size(slots)
  BY <1>1, <1>3, SizeAdds
<1> QED BY <1>1, <1>3, <1>4

\* What the files of a disk hold together is a number.
LEMMA UsedType == ASSUME NEW dk, WellFormed(dk) PROVE Used(dk) \in Nat
<1>1. \A e \in Dirs : Size(dk[e]) \in Nat
  BY SizeType DEF WellFormed
<1>2. Root \in Dirs
  BY DosAssumption
<1> QED BY <1>1, <1>2, UsedOfChange

\* A slot put in a directory changes what the disk uses by the lengths of the two texts.
LEMMA UsedPut ==
  ASSUME NEW one, WellFormed(one), NEW two, WellFormed(two), NEW d \in Dirs, NEW i, NEW new,
         Puts(one, two, d, i, new)
  PROVE  /\ Used(one) \in Nat /\ Used(two) \in Nat /\ Len(new.text) \in Nat
         /\ i = Len(one[d]) + 1 => Used(two) = Used(one) + Len(new.text)
         /\ i # Len(one[d]) + 1 => /\ Len(one[d][i].text) \in Nat
                                   /\ Used(two) + Len(one[d][i].text) = Used(one) + Len(new.text)
<1>1. PICK slots \in Seq(Slot) :
        /\ two = [one EXCEPT ![d] = slots]
        /\ i \in 1..Len(slots) /\ Len(slots) = (IF i = Len(one[d]) + 1 THEN i ELSE Len(one[d]))
        /\ slots[i] = new
        /\ \A j \in 1..Len(slots) : j # i => slots[j] = one[d][j]
  BY DEF Puts
<1>2. /\ one[d] \in Seq(Slot)
      /\ two[d] = slots /\ \A e \in Dirs : e # d => two[e] = one[e]
  BY <1>1 DEF WellFormed
<1>3. \A e \in Dirs : Size(one[e]) \in Nat /\ Size(two[e]) \in Nat
  BY SizeType DEF WellFormed
<1>4. Used(one) \in Nat /\ Used(two) \in Nat /\ Used(two) + Size(one[d]) = Used(one) + Size(slots)
  BY <1>2, <1>3, UsedOfChange
<1>5. Size(one[d]) \in Nat /\ Size(slots) \in Nat
  BY <1>2, <1>3
<1>6. /\ Len(one[d]) \in Nat /\ DOMAIN one[d] = 1..Len(one[d]) /\ DOMAIN slots = 1..Len(slots)
      /\ \A j \in 1..Len(one[d]) : Len(one[d][j].text) \in Nat
      /\ \A j \in 1..Len(slots) : Len(slots[j].text) \in Nat
  BY <1>2, SizeType
<1>7. CASE i = Len(one[d]) + 1
  <2>1. Len(slots) = Len(one[d]) + 1 /\ \A j \in 1..Len(one[d]) : slots[j] = one[d][j]
    BY <1>1, <1>6, <1>7
  <2>2. DOMAIN slots = 1..(Len(one[d]) + 1) /\ slots[Len(one[d]) + 1] = new
    BY <1>1, <1>6, <1>7, <2>1
  <2>3. Size(slots) = Size(one[d]) + Len(new.text)
    BY <2>1, <2>2, <1>6, SizeOfAppend
  <2>4. Len(new.text) \in Nat
    BY <1>1, <1>6
  <2> QED BY <2>3, <2>4, <1>4, <1>5, <1>7
<1>8. CASE i # Len(one[d]) + 1
  <2>1. Len(slots) = Len(one[d]) /\ i \in 1..Len(one[d])
    BY <1>1, <1>8
  <2>2. Size(slots) + Len(one[d][i].text) = Size(one[d]) + Len(slots[i].text)
    <3> DEFINE old == one[d]
               n == Len(old)
    <3>1. n \in Nat /\ i \in 1..n /\ DOMAIN old = 1..n /\ DOMAIN slots = 1..n
      BY <2>1, <1>6
    <3>2. \A j \in 1..n : Len(old[j].text) \in Nat /\ Len(slots[j].text) \in Nat
      BY <2>1, <1>6
    <3>3. \A j \in 1..n : j # i => slots[j].text = old[j].text
      BY <2>1, <1>1
    <3> HIDE DEF old, n
    <3>4. Size(slots) + Len(old[i].text) = Size(old) + Len(slots[i].text)
      BY <3>1, <3>2, <3>3, SizeOfChange
    <3> QED BY <3>4 DEF old
  <2>3. slots[i] = new /\ Len(new.text) \in Nat /\ Len(one[d][i].text) \in Nat
    BY <2>1, <1>1, <1>6
  <2> DEFINE a == Len(one[d][i].text)
             b == Len(new.text)
             x == Size(one[d])
             y == Size(slots)
  <2>4. a \in Nat /\ b \in Nat /\ x \in Nat /\ y \in Nat /\ y + a = x + b /\ Used(two) + x = Used(one) + y
    BY <2>2, <2>3, <1>4, <1>5
  <2> HIDE DEF a, b, x, y
  <2>5. Used(two) + a = Used(one) + b
    BY <2>4, <1>4
  <2> QED BY <2>4, <2>5, <1>4, <1>8 DEF a, b
<1> QED BY <1>7, <1>8

\* PutText gives a file another text, and nothing else changes.
LEMMA TextPut ==
  ASSUME NEW dk, WellFormed(dk), NEW d \in Dirs, NEW n \in Names, Attr(dk, d, n) \in FileAttrs,
         NEW t \in Seq(STRING)
  PROVE  /\ WellFormed(PutText(dk, d, n, t)) /\ Spares(dk, PutText(dk, d, n, t), d, n)
         /\ Attr(PutText(dk, d, n, t), d, n) = Attr(dk, d, n)
         /\ Text(PutText(dk, d, n, t), d, n) = t
         /\ SlotOf(PutText(dk, d, n, t), d, n) = SlotOf(dk, d, n)
         /\ Text(dk, d, n) \in Seq(STRING) /\ Used(dk) \in Nat /\ Used(PutText(dk, d, n, t)) \in Nat
         /\ Used(PutText(dk, d, n, t)) + Len(Text(dk, d, n)) = Used(dk) + Len(t)
<1> DEFINE i == SlotOf(dk, d, n)
           new == [dk[d][i] EXCEPT !.text = t]
           slots == [dk[d] EXCEPT ![i] = new]
           two == PutText(dk, d, n, t)
<1>1. d # NoDir /\ i # 0
  BY DosAssumption DEF Attr, FileAttrs
<1>2. i \in 1..Len(dk[d]) /\ dk[d][i].attr # "free" /\ dk[d][i].name = n /\ dk[d][i] \in Slot
      /\ Len(dk[d]) \in Nat /\ dk[d] \in Seq(Slot)
  BY <1>1, SlotFound DEF WellFormed
<1>3. Attr(dk, d, n) = dk[d][i].attr /\ Text(dk, d, n) = dk[d][i].text
  BY <1>1 DEF Attr, Text
<1>4. new \in Slot /\ new.name = n /\ new.attr = dk[d][i].attr /\ new.text = t
  BY <1>2 DEF Slot
<1>5. /\ slots \in Seq(Slot) /\ Len(slots) = Len(dk[d]) /\ slots[i] = new
      /\ \A j \in 1..Len(slots) : j # i => slots[j] = dk[d][j]
  BY <1>2, <1>4
<1>6. two = [dk EXCEPT ![d] = slots]
  BY DEF PutText
<1>7. Puts(dk, two, d, i, new)
  <2>1. i \in 1..Len(slots) /\ Len(slots) = (IF i = Len(dk[d]) + 1 THEN i ELSE Len(dk[d]))
    BY <1>2, <1>5
  <2> HIDE DEF slots, two, new, i
  <2> QED BY <1>5, <1>6, <2>1 DEF Puts
<1>8. new.attr \notin DirAttrs /\ new.attr # "free"
  BY <1>3, <1>4 DEF FileAttrs, DirAttrs
<1> HIDE DEF slots, two, new
<1>9. /\ WellFormed(two) /\ Spares(dk, two, d, n) /\ Attr(two, d, n) = new.attr
      /\ Text(two, d, n) = new.text /\ SlotOf(two, d, n) = i
  BY <1>2, <1>4, <1>7, <1>8, SlotPut
<1>10. i # Len(dk[d]) + 1
  BY <1>2
<1>11. Used(dk) \in Nat /\ Used(two) \in Nat /\ Used(two) + Len(dk[d][i].text) = Used(dk) + Len(new.text)
  BY <1>7, <1>9, <1>10, UsedPut
<1>12. dk[d][i].text \in Seq(STRING)
  BY <1>2 DEF Slot
<1> QED BY <1>3, <1>4, <1>9, <1>11, <1>12 DEF two

\* remove: the name is free, nothing else changes, and the disk is used no more than before.
LEMMA FileDeleted ==
  ASSUME NEW dk, WellFormed(dk), NEW d \in Dirs, NEW n \in Names, Attr(dk, d, n) # "free"
  PROVE  /\ WellFormed(Delete(dk, d, n)) /\ Spares(dk, Delete(dk, d, n), d, n)
         /\ Attr(Delete(dk, d, n), d, n) = "free"
         /\ Used(dk) \in Nat /\ Used(Delete(dk, d, n)) \in Nat /\ Used(Delete(dk, d, n)) <= Used(dk)
<1> DEFINE i == SlotOf(dk, d, n)
           slots == [dk[d] EXCEPT ![i] = Free]
           two == Delete(dk, d, n)
<1>1. d # NoDir /\ i # 0
  BY DosAssumption DEF Attr
<1>2. i \in 1..Len(dk[d]) /\ dk[d][i].attr # "free" /\ dk[d][i].name = n
      /\ Len(dk[d]) \in Nat /\ dk[d] \in Seq(Slot)
  BY <1>1, SlotFound DEF WellFormed
<1>3. Free \in Slot /\ Free.attr = "free" /\ Free.text = <<>> /\ Len(<<>>) = 0
  BY DosAssumption DEF Free, Slot
<1>4. /\ slots \in Seq(Slot) /\ Len(slots) = Len(dk[d]) /\ slots[i] = Free
      /\ \A j \in 1..Len(slots) : j # i => slots[j] = dk[d][j]
  BY <1>2, <1>3
<1>5. two = [dk EXCEPT ![d] = slots]
  BY DEF Delete
<1>6. Puts(dk, two, d, i, Free)
  <2>1. i \in 1..Len(slots) /\ Len(slots) = (IF i = Len(dk[d]) + 1 THEN i ELSE Len(dk[d]))
    BY <1>2, <1>4
  <2> HIDE DEF slots, two, i
  <2> QED BY <1>4, <1>5, <2>1 DEF Puts
<1>7. Free.attr \notin DirAttrs
  BY <1>3 DEF DirAttrs
<1> HIDE DEF slots, two
<1>8. WellFormed(two) /\ Spares(dk, two, d, n) /\ Attr(two, d, n) = "free"
  <2>1. SlotOf(dk, d, n) \in {0, i}
    OBVIOUS
  <2> HIDE DEF i
  <2>2. i \in 1..Len(dk[d]) => dk[d][i].attr = "free" \/ dk[d][i].name = n
    BY <1>2
  <2>3. Free.attr = "free" \/ (Free.name = n /\ SlotOf(dk, d, n) \in {0, i})
    BY <1>3
  <2>4. Free \in Slot /\ Free.attr \notin DirAttrs /\ Puts(dk, two, d, i, Free)
    BY <1>3, <1>6, <1>7
  <2>5. /\ WellFormed(two) /\ Spares(dk, two, d, n)
        /\ Free.attr = "free" /\ SlotOf(dk, d, n) \in {0, i} => Attr(two, d, n) = "free"
    BY <2>2, <2>3, <2>4, SlotPut
  <2> QED BY <1>3, <2>1, <2>5
<1>9. i # Len(dk[d]) + 1
  BY <1>2
<1>10. Used(dk) \in Nat /\ Used(two) \in Nat /\ Len(dk[d][i].text) \in Nat
       /\ Used(two) + Len(dk[d][i].text) = Used(dk) + Len(Free.text)
  BY <1>6, <1>8, <1>9, UsedPut
<1>11. Used(two) <= Used(dk)
  <2> HIDE DEF i
  <2> QED BY <1>3, <1>10
<1> QED BY <1>8, <1>10, <1>11 DEF two

\* fopen(name, "wb+"): an empty file, with the attribute it had if it was there.
LEMMA FileCreated ==
  ASSUME NEW dk, WellFormed(dk), NEW d \in Dirs, NEW n \in Names, Writable(dk, d, n)
  PROVE  /\ WellFormed(Create(dk, d, n)) /\ Spares(dk, Create(dk, d, n), d, n)
         /\ Attr(Create(dk, d, n), d, n) = "plain" /\ Text(Create(dk, d, n), d, n) = <<>>
         /\ Attr(dk, d, n) # "free" => SlotOf(Create(dk, d, n), d, n) = SlotOf(dk, d, n)
         /\ Used(dk) \in Nat /\ Used(Create(dk, d, n)) \in Nat /\ Used(Create(dk, d, n)) <= Used(dk)
<1> DEFINE new == [Free EXCEPT !.name = n, !.attr = "plain"]
           free == SelectInSeq(dk[d], LAMBDA s : s.attr = "free")
           I == {j \in 1..Len(dk[d]) : dk[d][j].attr = "free"}
           two == Create(dk, d, n)
<1>1. <<>> \in Seq(STRING) /\ Len(<<>>) = 0 /\ Used(dk) \in Nat
  BY UsedType
<1>2. CASE SlotOf(dk, d, n) # 0
  <2>1. two = PutText(dk, d, n, <<>>)
    BY <1>2 DEF Create
  <2>2. Attr(dk, d, n) = "plain" /\ "plain" \in FileAttrs
    BY <1>2, NamedHasSlot DEF Writable, FileAttrs
  <2>3. /\ WellFormed(two) /\ Spares(dk, two, d, n) /\ Attr(two, d, n) = "plain"
        /\ Text(two, d, n) = <<>> /\ Text(dk, d, n) \in Seq(STRING) /\ Used(two) \in Nat
        /\ SlotOf(two, d, n) = SlotOf(dk, d, n)
        /\ Used(two) + Len(Text(dk, d, n)) = Used(dk) + Len(<<>>)
    <3>1. Attr(dk, d, n) \in FileAttrs /\ <<>> \in Seq(STRING)
      BY <2>2, <1>1
    <3> DEFINE t2 == <<>>
    <3>2. t2 \in Seq(STRING) /\ t2 = <<>>
      BY <1>1
    <3> HIDE DEF t2
    <3>3. /\ WellFormed(PutText(dk, d, n, t2)) /\ Spares(dk, PutText(dk, d, n, t2), d, n)
          /\ Attr(PutText(dk, d, n, t2), d, n) = Attr(dk, d, n)
          /\ Text(PutText(dk, d, n, t2), d, n) = t2 /\ Used(PutText(dk, d, n, t2)) \in Nat
          /\ SlotOf(PutText(dk, d, n, t2), d, n) = SlotOf(dk, d, n)
          /\ Text(dk, d, n) \in Seq(STRING)
          /\ Used(PutText(dk, d, n, t2)) + Len(Text(dk, d, n)) = Used(dk) + Len(t2)
      BY <3>1, <3>2, TextPut
    <3> QED BY <2>1, <2>2, <3>2, <3>3
  <2>4. Len(Text(dk, d, n)) \in Nat
    BY <2>3
  <2>5. Used(two) <= Used(dk)
    BY <1>1, <2>3, <2>4
  <2> QED BY <1>1, <2>3, <2>5
<1>3. CASE SlotOf(dk, d, n) = 0
  <2>1. new \in Slot /\ new.name = n /\ new.attr = "plain" /\ new.text = <<>>
    <3>1. (CHOOSE m \in Names : TRUE) \in Names
      BY DosAssumption
    <3>2. "plain" \in FileAttrs
      BY DEF FileAttrs
    <3>3. new = [name |-> n, attr |-> "plain", text |-> <<>>, opens |-> NoDir]
      <4> DEFINE c == CHOOSE m \in Names : TRUE
      <4>1. Free = [name |-> c, attr |-> "free", text |-> <<>>, opens |-> NoDir]
        BY DEF Free
      <4> HIDE DEF c
      <4>2. new = [[name |-> c, attr |-> "free", text |-> <<>>, opens |-> NoDir] EXCEPT !.name = n, !.attr = "plain"]
        BY <4>1
      <4> HIDE DEF new
      <4> QED BY <4>2
    <3> HIDE DEF new
    <3> QED BY <3>2, <3>3, <1>1 DEF Slot
  <2>2. dk \in [Dirs -> Seq(Slot)] /\ dk[d] \in Seq(Slot) /\ Len(dk[d]) \in Nat
    BY DEF WellFormed
  <2>3. \E i \in 1..(Len(dk[d]) + 1) :
            /\ Puts(dk, two, d, i, new)
            /\ i \in 1..Len(dk[d]) => dk[d][i].attr = "free"
    <3>1. free = IF I # {} THEN Min(I) ELSE 0
      BY DEF SelectInSeq
    <3>2. CASE I # {}
      <4>1. I \in SUBSET Nat
        BY <2>2
      <4>2. free \in I
        BY <3>1, <3>2, <4>1, MinOfNumbers
      <4> DEFINE slots == [dk[d] EXCEPT ![free] = new]
      <4>3. free \in 1..Len(dk[d]) /\ dk[d][free].attr = "free" /\ free # 0
        BY <4>2, <2>2
      <4> HIDE DEF new, free, I
      <4>4. two = [dk EXCEPT ![d] = slots]
        <5>1. two = [dk EXCEPT ![d][free] = new]
          BY <1>3, <4>3 DEF Create, free, new
        <5> QED BY <5>1
      <4>5. /\ slots \in Seq(Slot) /\ Len(slots) = Len(dk[d]) /\ slots[free] = new
            /\ \A j \in 1..Len(slots) : j # free => slots[j] = dk[d][j]
        BY <2>1, <2>2, <4>3
      <4>6. Puts(dk, two, d, free, new)
        <5>1. free # Len(dk[d]) + 1 /\ free \in 1..Len(slots)
          BY <2>2, <4>3, <4>5
        <5> HIDE DEF slots, two
        <5> QED BY <4>4, <4>5, <5>1 DEF Puts
      <4>7. free \in 1..(Len(dk[d]) + 1)
        BY <2>2, <4>3
      <4> QED BY <4>3, <4>6, <4>7
    <3>3. CASE I = {}
      <4> DEFINE slots == Append(dk[d], new)
                 i == Len(dk[d]) + 1
      <4>1. free = 0
        BY <3>1, <3>3
      <4> HIDE DEF new, free, I
      <4>2. two = [dk EXCEPT ![d] = slots]
        <5>1. two = [dk EXCEPT ![d] = Append(@, new)]
          BY <1>3, <4>1 DEF Create, free, new
        <5> QED BY <5>1
      <4>3. /\ slots \in Seq(Slot) /\ Len(slots) = i /\ slots[i] = new
            /\ \A j \in 1..Len(slots) : j # i => slots[j] = dk[d][j]
        BY <2>1, <2>2
      <4>4. Puts(dk, two, d, i, new)
        <5>1. i \in 1..Len(slots)
          BY <2>2, <4>3
        <5> HIDE DEF slots, two
        <5> QED BY <4>2, <4>3, <5>1 DEF Puts
      <4>5. i \in 1..(Len(dk[d]) + 1) /\ i \notin 1..Len(dk[d])
        BY <2>2
      <4> QED BY <4>4, <4>5
    <3> QED BY <3>2, <3>3
  <2>4. PICK i \in 1..(Len(dk[d]) + 1) :
            /\ Puts(dk, two, d, i, new)
            /\ i \in 1..Len(dk[d]) => dk[d][i].attr = "free"
    BY <2>3
  <2>5. new.attr \notin DirAttrs /\ new.attr # "free"
    BY <2>1 DEF DirAttrs
  <2> HIDE DEF new, two, free, I
  <2>6. /\ WellFormed(two) /\ Spares(dk, two, d, n)
        /\ Attr(two, d, n) = new.attr /\ Text(two, d, n) = new.text
    <3>1. i \in 1..Len(dk[d]) => dk[d][i].attr = "free" \/ dk[d][i].name = n
      BY <2>4
    <3>2. new.attr = "free" \/ (new.name = n /\ SlotOf(dk, d, n) \in {0, i})
      BY <1>3, <2>1
    <3>3. Puts(dk, two, d, i, new)
      BY <2>4
    <3> QED BY <2>1, <2>5, <3>1, <3>2, <3>3, SlotPut
  <2>7. Used(two) \in Nat /\ Used(two) <= Used(dk)
    <3>1. /\ Used(two) \in Nat
          /\ i = Len(dk[d]) + 1 => Used(two) = Used(dk) + Len(new.text)
          /\ i # Len(dk[d]) + 1 => /\ Len(dk[d][i].text) \in Nat
                                   /\ Used(two) + Len(dk[d][i].text) = Used(dk) + Len(new.text)
      BY <2>4, <2>6, UsedPut
    <3>2. Len(new.text) = 0
      BY <1>1, <2>1
    <3>3. CASE i = Len(dk[d]) + 1
      BY <1>1, <3>1, <3>2, <3>3
    <3>4. CASE i # Len(dk[d]) + 1
      <4> DEFINE k == Len(dk[d][i].text)
      <4>1. k \in Nat /\ Used(two) + k = Used(dk)
        BY <1>1, <3>1, <3>2, <3>4
      <4> HIDE DEF k
      <4> QED BY <1>1, <3>1, <4>1
    <3> QED BY <3>3, <3>4
  <2>8. new.attr = "plain" /\ new.text = <<>>
    BY <2>1
  <2>9. Attr(dk, d, n) = "free"
    BY <1>3 DEF Attr
  <2> QED BY <1>1, <2>6, <2>7, <2>8, <2>9 DEF two
<1> QED BY <1>2, <1>3 DEF two

\* A write goes to the end of its file, all of it when the disk has room, and never fills more than the disk.
LEMMA FileWritten ==
  ASSUME NEW dk, WellFormed(dk), Used(dk) <= Room, NEW d \in Dirs, NEW n \in Names,
         Attr(dk, d, n) \in FileAttrs, NEW t \in Seq(STRING)
  PROVE  /\ WellFormed(Write(dk, d, n, t)) /\ Spares(dk, Write(dk, d, n, t), d, n)
         /\ Attr(Write(dk, d, n, t), d, n) = Attr(dk, d, n)
         /\ SlotOf(Write(dk, d, n, t), d, n) = SlotOf(dk, d, n)
         /\ Fits(dk, t) => Text(Write(dk, d, n, t), d, n) = Text(dk, d, n) \o t
         /\ Used(Write(dk, d, n, t)) \in Nat /\ Used(Write(dk, d, n, t)) <= Room
<1> DEFINE old == Text(dk, d, n)
           part == IF Fits(dk, t) THEN t ELSE SubSeq(t, 1, Room - Used(dk))
           two == PutText(dk, d, n, old \o part)
<1>1. Used(dk) \in Nat /\ Room \in Nat
  BY UsedType, DosAssumption
<1>2. part \in Seq(STRING) /\ Len(part) + Used(dk) <= Room
  <2>1. CASE Fits(dk, t)
    <3>1. part = t
      BY <2>1
    <3>2. Used(dk) + Len(t) <= Room /\ Len(t) \in Nat
      BY <2>1 DEF Fits
    <3> HIDE DEF part
    <3> QED BY <1>1, <3>1, <3>2
  <2>2. CASE ~Fits(dk, t)
    <3> DEFINE k == Room - Used(dk)
    <3>1. k \in Nat /\ k <= Len(t) /\ k + Used(dk) = Room
      BY <1>1, <2>2 DEF Fits
    <3>2. part = SubSeq(t, 1, k)
      BY <2>2
    <3> HIDE DEF k, part
    <3>3. part \in Seq(STRING) /\ Len(part) = k
      BY <3>1, <3>2
    <3> QED BY <1>1, <3>1, <3>3
  <2> QED BY <2>1, <2>2
<1>3. old \in Seq(STRING)
  BY NamedHasSlot DEF FileAttrs
<1> HIDE DEF part, old
<1>4. old \o part \in Seq(STRING) /\ Len(old \o part) = Len(old) + Len(part)
  BY <1>2, <1>3
<1>5. /\ WellFormed(two) /\ Spares(dk, two, d, n)
      /\ Attr(two, d, n) = Attr(dk, d, n) /\ Text(two, d, n) = old \o part
      /\ SlotOf(two, d, n) = SlotOf(dk, d, n)
      /\ Used(two) \in Nat /\ Used(two) + Len(old) = Used(dk) + (Len(old) + Len(part))
  <2> DEFINE t2 == old \o part
  <2>1. t2 \in Seq(STRING) /\ Len(t2) = Len(old) + Len(part)
    BY <1>4
  <2> HIDE DEF t2
  <2>2. /\ WellFormed(PutText(dk, d, n, t2)) /\ Spares(dk, PutText(dk, d, n, t2), d, n)
        /\ Attr(PutText(dk, d, n, t2), d, n) = Attr(dk, d, n)
        /\ Text(PutText(dk, d, n, t2), d, n) = t2 /\ Used(PutText(dk, d, n, t2)) \in Nat
        /\ SlotOf(PutText(dk, d, n, t2), d, n) = SlotOf(dk, d, n)
        /\ Used(PutText(dk, d, n, t2)) + Len(Text(dk, d, n)) = Used(dk) + Len(t2)
    BY <2>1, TextPut
  <2> QED BY <2>1, <2>2 DEF t2, old
<1>6. Len(old) \in Nat /\ Len(part) \in Nat
  BY <1>2, <1>3
<1>7. Used(two) <= Room
  <2> HIDE DEF two
  <2> QED BY <1>1, <1>2, <1>5, <1>6
<1>8. two = Write(dk, d, n, t)
  BY DEF Write, part, old
<1>9. Fits(dk, t) => part = t
  BY DEF part
<1> QED BY <1>5, <1>7, <1>8, <1>9 DEF old

=============================================================================
