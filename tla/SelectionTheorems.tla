-------------------------- MODULE SelectionTheorems --------------------------
(***************************************************************************)
(* What a selection holds, for any sequence and any set.                    *)
(***************************************************************************)
EXTENDS Selection, FiniteSetTheorems, SequenceTheorems, TLAPS

\* The rank of a position counts from 1 to the number of positions, and grows
\* with the position.
LEMMA RankProperties ==
    ASSUME NEW n \in Nat, NEW I \in SUBSET (1..n)
    PROVE  /\ IsFiniteSet(I) /\ Cardinality(I) \in Nat
           /\ \A i \in I : Rank(I, i) \in 1..Cardinality(I)
           /\ \A i, j \in I : i < j => Rank(I, i) < Rank(I, j)
<1>0. \A i \in I : i \in Int
  OBVIOUS
<1>1. IsFiniteSet(I) /\ Cardinality(I) \in Nat
  <2>1. IsFiniteSet(1..n)
    BY FS_Interval
  <2>2. IsFiniteSet(I)
    BY <2>1, FS_Subset
  <2>3. QED
    BY <2>2, FS_CardinalityType
<1> DEFINE Upto(i) == {j \in I : j <= i}
<1>2. ASSUME NEW i \in I
      PROVE  /\ IsFiniteSet(Upto(i)) /\ Cardinality(Upto(i)) \in Nat
             /\ Cardinality(Upto(i)) <= Cardinality(I)
  <2>1. Upto(i) \in SUBSET I
    OBVIOUS
  <2>2. QED
    BY <1>1, <2>1, FS_Subset, FS_CardinalityType
<1>3. ASSUME NEW i \in I PROVE Cardinality(Upto(i)) # 0
  <2>1. i \in Upto(i)
    OBVIOUS
  <2>2. QED
    BY <1>2, <2>1, FS_EmptySet
<1>4. ASSUME NEW i \in I, NEW j \in I, i < j
      PROVE  Cardinality(Upto(i)) < Cardinality(Upto(j))
  <2>1. Upto(i) \in SUBSET Upto(j)
    <3>1. ASSUME NEW x \in I, x <= i PROVE x <= j
      BY <1>0, <1>4, <3>1
    <3>2. QED
      BY <3>1
  <2>2. j \in Upto(j) /\ j \notin Upto(i)
    BY <1>0, <1>4
  <2>3. QED
    BY <1>2, <2>1, <2>2, FS_Subset
<1>5. QED
  BY <1>1, <1>2, <1>3, <1>4 DEF Rank

\* Every number up to the number of positions is the rank of one of them.
LEMMA RankOnto ==
    ASSUME NEW n \in Nat, NEW I \in SUBSET (1..n), NEW k \in 1..Cardinality(I)
    PROVE  \E i \in I : Rank(I, i) = k
<1> DEFINE r == [i \in I |-> Rank(I, i)]
<1>1. IsFiniteSet(I) /\ Cardinality(I) \in Nat
  BY RankProperties
<1>2. r \in [I -> 1..Cardinality(I)]
  BY RankProperties
<1>3. ASSUME NEW i \in I, NEW j \in I, r[i] = r[j] PROVE i = j
  <2>1. Rank(I, i) = Rank(I, j)
    BY <1>3
  <2>2. \A x \in I : x \in Int /\ Rank(I, x) \in Int
    <3>1. \A x \in I : Rank(I, x) \in 1..Cardinality(I)
      BY RankProperties
    <3>2. QED
      BY <1>1, <3>1
  <2>3. \A x, y \in I : x < y => Rank(I, x) < Rank(I, y)
    BY RankProperties
  <2>4. ~(i < j) /\ ~(j < i)
    BY <2>1, <2>2, <2>3
  <2>5. QED
    BY <2>2, <2>4
<1>4. r \in Injection(I, 1..Cardinality(I))
  BY <1>2, <1>3 DEF Injection, IsInjective
<1>5. IsFiniteSet(1..Cardinality(I)) /\ Cardinality(1..Cardinality(I)) = Cardinality(I)
  BY <1>1, FS_Interval
<1>6. r \in Surjection(I, 1..Cardinality(I))
  BY <1>4, <1>5, FS_Injection
<1>7. QED
  BY <1>6 DEF Surjection

\* A selection is a sequence over the set whose elements are, one for one and
\* in the same order, the selected positions of the original.
THEOREM OnlyIndex ==
    ASSUME NEW T, NEW s \in Seq(T), NEW S
    PROVE  LET n == Cardinality(Places(s, S))
           IN  /\ n \in Nat
               /\ Only(s, S) \in Seq(T) /\ DOMAIN Only(s, S) = 1..n
               /\ \E f \in [1..n -> Places(s, S)] :
                     /\ \A k \in 1..n : Only(s, S)[k] = s[f[k]]
                     /\ \A k, l \in 1..n : k < l => f[k] < f[l]
                     /\ \A i \in Places(s, S) : \E k \in 1..n : f[k] = i
<1> DEFINE I == Places(s, S)
           n == Cardinality(I)
           f == [k \in 1..n |-> CHOOSE i \in I : Rank(I, i) = k]
<1>1. Len(s) \in Nat /\ I \in SUBSET (1..Len(s))
  BY LenProperties DEF Places
<1>2. n \in Nat
  BY <1>1, RankProperties
<1>3. ASSUME NEW k \in 1..n PROVE f[k] \in I /\ Rank(I, f[k]) = k
  <2>1. \E i \in I : Rank(I, i) = k
    BY <1>1, RankOnto
  <2>2. QED
    BY <2>1
<1>4. \A i \in I : Rank(I, i) \in 1..n
  BY <1>1, RankProperties
<1>5. \A i, j \in I : i < j => Rank(I, i) < Rank(I, j)
  BY <1>1, RankProperties
<1>6. \A i \in I : i \in Int
  BY <1>1
<1> HIDE DEF I
<1>7. /\ Only(s, S) \in Seq(T) /\ DOMAIN Only(s, S) = 1..n
      /\ \A k \in 1..n : Only(s, S)[k] = s[f[k]]
  <2> DEFINE g == [k \in 1..n |-> s[f[k]]]
  <2>1. Only(s, S) = SubSeq([k \in 1..n |-> s[CHOOSE i \in I : Rank(I, i) = k]], 1, n)
    BY DEF Only, I
  <2>2. g = [k \in 1..n |-> s[CHOOSE i \in I : Rank(I, i) = k]]
    OBVIOUS
  <2>3. Only(s, S) = SubSeq(g, 1, n)
    BY <2>1, <2>2
  <2> HIDE DEF n, f
  <2>4. \A k \in 1..n : g[k] = s[f[k]] /\ g[k] \in T
    BY <1>1, <1>3, ElementOfSeq
  <2> HIDE DEF g
  <2>5. /\ SubSeq(g, 1, n) \in Seq(T)
        /\ Len(SubSeq(g, 1, n)) = IF 1 <= n THEN n - 1 + 1 ELSE 0
        /\ \A k \in 1..(n - 1 + 1) : SubSeq(g, 1, n)[k] = g[1 + k - 1]
    BY <1>2, <2>4, SubSeqProperties
  <2>6. Len(SubSeq(g, 1, n)) = n /\ \A k \in 1..n : SubSeq(g, 1, n)[k] = g[k]
    BY <1>2, <2>5
  <2>7. DOMAIN SubSeq(g, 1, n) = 1..n
    BY <2>5, <2>6, LenProperties
  <2>8. QED
    BY <2>3, <2>4, <2>5, <2>6, <2>7
<1> HIDE DEF n, f
<1>8. ASSUME NEW k \in 1..n, NEW l \in 1..n, k < l PROVE f[k] < f[l]
  <2>1. f[k] \in Int /\ f[l] \in Int
    BY <1>3, <1>6
  <2>2. ~(f[l] < f[k]) /\ f[k] # f[l]
    BY <1>2, <1>3, <1>5, <1>8
  <2>3. QED
    BY <2>1, <2>2
<1>9. ASSUME NEW i \in I PROVE \E k \in 1..n : f[k] = i
  <2>1. Rank(I, i) \in 1..n /\ f[Rank(I, i)] \in I /\ Rank(I, f[Rank(I, i)]) = Rank(I, i)
    BY <1>3, <1>4
  <2>2. ~(i < f[Rank(I, i)]) /\ ~(f[Rank(I, i)] < i)
    BY <1>2, <1>5, <2>1
  <2>3. f[Rank(I, i)] = i
    BY <1>6, <2>1, <2>2
  <2>4. QED
    BY <2>1, <2>3
<1>10. f \in [1..n -> I]
  BY <1>3 DEF f
<1>11. QED
  BY <1>2, <1>7, <1>8, <1>9, <1>10 DEF I, n

\* A selection is a sequence of members of the set that occur in the original,
\* and misses none of them.
THEOREM OnlyMembers ==
    ASSUME NEW T, NEW s \in Seq(T), NEW S
    PROVE  /\ Only(s, S) \in Seq(T)
           /\ Only(s, S) \in Seq(S)
           /\ Len(Only(s, S)) = Cardinality(Places(s, S))
           /\ Range(Only(s, S)) = Range(s) \cap S
<1> DEFINE n == Cardinality(Places(s, S))
           o == Only(s, S)
<1>1. n \in Nat /\ DOMAIN o = 1..n
  BY OnlyIndex
<1>2. PICK f \in [1..n -> Places(s, S)] :
        /\ \A k \in 1..n : o[k] = s[f[k]]
        /\ \A k, l \in 1..n : k < l => f[k] < f[l]
        /\ \A i \in Places(s, S) : \E k \in 1..n : f[k] = i
  BY OnlyIndex
<1>3. \A i \in Places(s, S) : i \in DOMAIN s /\ s[i] \in T /\ s[i] \in S
  BY LenProperties DEF Places
<1>4. o = [k \in 1..n |-> o[k]]
  <2>1. o \in Seq(T)
    BY OnlyIndex
  <2>2. o \in [1..Len(o) -> T]
    BY <2>1, LenProperties
  <2>3. QED
    BY <1>1, <2>2
<1> HIDE DEF n, o
<1>5. \A k \in 1..n : o[k] \in T /\ o[k] \in S
  BY <1>2, <1>3
<1>6. o \in Seq(T) /\ o \in Seq(S) /\ Len(o) = n
  <2>1. o \in [1..n -> T] /\ o \in [1..n -> S]
    BY <1>4, <1>5
  <2>2. o \in Seq(T) /\ o \in Seq(S)
    BY <1>1, <2>1, SeqDef
  <2>3. QED
    BY <1>1, <2>2, LenProperties
<1>7. ASSUME NEW x \in Range(o) PROVE x \in Range(s) \cap S
  BY <1>1, <1>2, <1>3 DEF Range
<1>8. ASSUME NEW x \in Range(s) \cap S PROVE x \in Range(o)
  <2>1. PICK i \in Places(s, S) : s[i] = x
    BY DEF Range, Places
  <2>2. PICK k \in 1..n : f[k] = i
    BY <1>2
  <2>3. QED
    BY <1>1, <1>2, <2>1, <2>2 DEF Range
<1>9. QED
  BY <1>6, <1>7, <1>8 DEF n, o

\* A selection from a sequence without repetitions has none.
THEOREM OnlyInjective ==
    ASSUME NEW T, NEW s \in Seq(T), NEW S, IsInjective(s)
    PROVE  IsInjective(Only(s, S))
<1> DEFINE n == Cardinality(Places(s, S))
           o == Only(s, S)
<1>1. n \in Nat /\ DOMAIN o = 1..n
  BY OnlyIndex
<1>2. PICK f \in [1..n -> Places(s, S)] :
        /\ \A k \in 1..n : o[k] = s[f[k]]
        /\ \A k, l \in 1..n : k < l => f[k] < f[l]
  BY OnlyIndex
<1>3. \A i \in Places(s, S) : i \in DOMAIN s /\ i \in Int
  BY LenProperties DEF Places
<1> HIDE DEF n, o
<1>4. ASSUME NEW k \in 1..n, NEW l \in 1..n, o[k] = o[l] PROVE k = l
  <2>1. f[k] = f[l]
    BY <1>2, <1>3, <1>4 DEF IsInjective
  <2>2. ~(k < l) /\ ~(l < k)
    BY <1>2, <1>3, <2>1
  <2>3. QED
    BY <1>1, <2>2
<1>5. QED
  BY <1>1, <1>4 DEF IsInjective, o

\* A selection keeps the order of what it selects.
THEOREM OnlyOrder ==
    ASSUME NEW T, NEW s \in Seq(T), NEW S, NEW x \in S, NEW y \in S, Before(s, x, y)
    PROVE  Before(Only(s, S), x, y)
<1> DEFINE n == Cardinality(Places(s, S))
           o == Only(s, S)
<1>1. n \in Nat /\ DOMAIN o = 1..n
  BY OnlyIndex
<1>2. PICK f \in [1..n -> Places(s, S)] :
        /\ \A k \in 1..n : o[k] = s[f[k]]
        /\ \A k, l \in 1..n : k < l => f[k] < f[l]
        /\ \A i \in Places(s, S) : \E k \in 1..n : f[k] = i
  BY OnlyIndex
<1>3. PICK i \in DOMAIN s, j \in DOMAIN s : i < j /\ s[i] = x /\ s[j] = y
  BY DEF Before
<1>4. i \in Places(s, S) /\ j \in Places(s, S) /\ i \in Int /\ j \in Int
  BY <1>3, LenProperties DEF Places
<1> HIDE DEF n, o
<1>5. PICK k \in 1..n : f[k] = i
  BY <1>2, <1>4
<1>6. PICK l \in 1..n : f[l] = j
  BY <1>2, <1>4
<1>7. k < l
  <2>1. ~(l < k) /\ k # l
    BY <1>2, <1>3, <1>4, <1>5, <1>6
  <2>2. QED
    BY <1>1, <2>1
<1>8. o[k] = x /\ o[l] = y
  BY <1>2, <1>3, <1>5, <1>6
<1>9. Before(o, x, y)
  BY <1>1, <1>7, <1>8 DEF Before
<1>10. QED
  BY <1>9 DEF o

\* What a bounded retention keeps: nothing new, everything that is not subject
\* to it, at most n of what is and exactly n when anything had to go, the
\* newest ones, and the order of all that stays.
THEOREM TrimmedProperties ==
    ASSUME NEW T, NEW s \in Seq(T), IsInjective(s), NEW S, NEW n \in Nat
    PROVE  /\ Trimmed(s, S, n) \in Seq(T)
           /\ IsInjective(Trimmed(s, S, n))
           /\ Range(Trimmed(s, S, n)) \subseteq Range(s)
           /\ Range(s) \ S \subseteq Range(Trimmed(s, S, n))
           /\ Cardinality(Range(Trimmed(s, S, n)) \cap S) <= n
           /\ \A x \in Range(s) \ Range(Trimmed(s, S, n)) :
                 Cardinality(Range(Trimmed(s, S, n)) \cap S) = n
           /\ \A x \in Range(Trimmed(s, S, n)) \cap S, y \in S :
                 Before(s, x, y) => y \in Range(Trimmed(s, S, n))
           /\ \A x, y \in Range(Trimmed(s, S, n)) :
                 Before(s, x, y) => Before(Trimmed(s, S, n), x, y)
<1> DEFINE chosen == Only(s, S)
           out == {chosen[i] : i \in 1..(Len(chosen) - n)}
           kept == Range(s) \ out
<1>1. Len(chosen) \in Nat /\ DOMAIN chosen = 1..Len(chosen) /\ Range(chosen) = Range(s) \cap S
  <2>1. chosen \in Seq(T) /\ Range(chosen) = Range(s) \cap S
    BY OnlyMembers
  <2>2. QED
    BY <2>1, LenProperties
<1>2. Trimmed(s, S, n) = Only(s, kept)
  BY DEF Trimmed
<1> HIDE DEF chosen
<1>3. out \subseteq S
  BY <1>1 DEF Range
<1>4. /\ Only(s, kept) \in Seq(T) /\ IsInjective(Only(s, kept))
      /\ Range(Only(s, kept)) = Range(s) \cap kept
  BY OnlyMembers, OnlyInjective
<1>5. Cardinality(kept \cap S) <= n
  <2> DEFINE from == IF Len(chosen) > n THEN Len(chosen) - n + 1 ELSE 1
             last == from..Len(chosen)
             h == [i \in last |-> chosen[i]]
  <2>1. from \in Int /\ IsFiniteSet(last) /\ Cardinality(last) <= n
    <3>1. from \in Int /\ Len(chosen) \in Int /\ Len(chosen) - from + 1 <= n
      BY <1>1
    <3> HIDE DEF from
    <3>2. /\ IsFiniteSet(last)
          /\ Cardinality(last) = IF from > Len(chosen) THEN 0 ELSE Len(chosen) - from + 1
      BY <3>1, FS_Interval
    <3>3. QED
      BY <3>1, <3>2
  <2>2. \A x \in kept \cap S : \E i \in last : chosen[i] = x
    <3>1. SUFFICES ASSUME NEW x \in kept \cap S PROVE \E i \in last : chosen[i] = x
      OBVIOUS
    <3>2. PICK i \in 1..Len(chosen) : chosen[i] = x
      BY <1>1 DEF Range
    <3>3. ~(i \in 1..(Len(chosen) - n))
      BY <3>2
    <3>4. i \in last
      BY <1>1, <3>3
    <3>5. QED
      BY <3>2, <3>4
  <2> HIDE DEF last, kept
  <2>3. kept \cap S \in SUBSET {h[i] : i \in last}
    BY <2>2
  <2>4. /\ IsFiniteSet({h[i] : i \in last})
        /\ Cardinality({h[i] : i \in last}) <= Cardinality(last)
    <3>1. h \in [last -> {h[i] : i \in last}]
      OBVIOUS
    <3>2. h \in Surjection(last, {h[i] : i \in last})
      BY <3>1 DEF Surjection
    <3>3. QED
      BY <2>1, <3>2, FS_Surjection
  <2>5. /\ IsFiniteSet(kept \cap S)
        /\ Cardinality(kept \cap S) <= Cardinality({h[i] : i \in last})
    BY <2>3, <2>4, FS_Subset
  <2>6. /\ Cardinality(kept \cap S) \in Nat /\ Cardinality(last) \in Nat
        /\ Cardinality({h[i] : i \in last}) \in Nat
    BY <2>1, <2>4, <2>5, FS_CardinalityType
  <2>7. QED
    BY <2>1, <2>4, <2>5, <2>6
<1>6. Range(s) \cap kept = kept
  OBVIOUS
<1>7. IsInjective(chosen)
  BY OnlyInjective DEF chosen
<1>8. ASSUME kept # Range(s) PROVE Cardinality(kept \cap S) = n
  <2> DEFINE from == Len(chosen) - n + 1
             last == from..Len(chosen)
             h == [i \in last |-> chosen[i]]
  <2>1. Len(chosen) - n \in Int /\ Len(chosen) - n >= 1
    BY <1>1, <1>8
  <2>2. IsFiniteSet(last) /\ Cardinality(last) = n
    <3>1. /\ from \in Int /\ Len(chosen) \in Int /\ Len(chosen) - from + 1 = n
          /\ from > Len(chosen) => n = 0
      BY <1>1, <2>1
    <3> HIDE DEF from
    <3>2. /\ IsFiniteSet(last)
          /\ Cardinality(last) = IF from > Len(chosen) THEN 0 ELSE Len(chosen) - from + 1
      BY <3>1, FS_Interval
    <3>3. QED
      BY <3>1, <3>2
  <2>3. \A i \in last : i \in 1..Len(chosen) /\ i \notin 1..(Len(chosen) - n)
    BY <1>1, <2>1
  <2>4. \A i \in last : chosen[i] \in kept \cap S
    <3>1. ASSUME NEW i \in last PROVE chosen[i] \in Range(s) \cap S /\ chosen[i] \notin out
      <4>1. chosen[i] \in Range(s) \cap S
        BY <1>1, <2>3 DEF Range
      <4>2. \A k \in 1..(Len(chosen) - n) : chosen[k] # chosen[i]
        BY <1>1, <1>7, <2>1, <2>3 DEF IsInjective
      <4>3. QED
        BY <4>1, <4>2
    <3>2. QED
      BY <3>1
  <2>5. \A i, j \in last : chosen[i] = chosen[j] => i = j
    BY <1>1, <1>7, <2>3 DEF IsInjective
  <2>6. IsFiniteSet(kept \cap S)
    <3>1. [i \in 1..Len(chosen) |-> chosen[i]] \in Surjection(1..Len(chosen), Range(s) \cap S)
      BY <1>1 DEF Range, Surjection
    <3>2. IsFiniteSet(1..Len(chosen))
      BY <1>1, FS_Interval
    <3>3. IsFiniteSet(Range(s) \cap S)
      BY <3>1, <3>2, FS_Surjection
    <3>4. kept \cap S \in SUBSET (Range(s) \cap S)
      OBVIOUS
    <3>5. QED
      BY <3>3, <3>4, FS_Subset
  <2> HIDE DEF last, kept
  <2>7. h \in Injection(last, kept \cap S)
    BY <2>4, <2>5 DEF Injection, IsInjective
  <2>8. Cardinality(last) <= Cardinality(kept \cap S)
    BY <2>6, <2>7, FS_Injection
  <2>9. Cardinality(kept \cap S) \in Nat
    BY <2>6, FS_CardinalityType
  <2>10. QED
    BY <1>5, <2>2, <2>8, <2>9
<1>9. ASSUME NEW x \in kept \cap S, NEW y \in S, Before(s, x, y) PROVE y \in kept
  <2>1. Before(chosen, x, y)
    BY <1>9, OnlyOrder DEF chosen
  <2>2. PICK k \in 1..Len(chosen), l \in 1..Len(chosen) :
          k < l /\ chosen[k] = x /\ chosen[l] = y
    BY <1>1, <2>1 DEF Before
  <2>3. k \notin 1..(Len(chosen) - n)
    BY <2>2
  <2>4. l \notin 1..(Len(chosen) - n)
    BY <1>1, <2>2, <2>3
  <2>5. \A i \in 1..(Len(chosen) - n) : chosen[i] # y
    <3>1. \A i \in 1..(Len(chosen) - n) : i \in 1..Len(chosen)
      BY <1>1
    <3>2. QED
      BY <1>1, <1>7, <2>2, <2>4, <3>1 DEF IsInjective
  <2>6. y \in Range(s)
    BY <1>1, <2>2 DEF Range
  <2>7. QED
    BY <2>5, <2>6
<1>10. ASSUME NEW x \in kept, NEW y \in kept, Before(s, x, y)
       PROVE  Before(Only(s, kept), x, y)
  BY <1>10, OnlyOrder
<1> HIDE DEF kept, out
<1>11. Trimmed(s, S, n) = Only(s, kept) /\ Range(Only(s, kept)) = kept
  BY <1>2, <1>4, <1>6
<1>12. Only(s, kept) \in Seq(T) /\ IsInjective(Only(s, kept))
  BY <1>4
<1>13. kept \subseteq Range(s) /\ Range(s) \ S \subseteq kept
  BY <1>3 DEF kept
<1>14. QED
  BY <1>5, <1>8, <1>9, <1>10, <1>11, <1>12, <1>13

\* The part of it that only speaks of the members: which of them stay, and how
\* many.
THEOREM TrimmedMembers ==
    ASSUME NEW T, NEW s \in Seq(T), IsInjective(s), NEW S, NEW n \in Nat
    PROVE  /\ Trimmed(s, S, n) \in Seq(T)
           /\ IsInjective(Trimmed(s, S, n))
           /\ Range(Trimmed(s, S, n)) \subseteq Range(s)
           /\ Range(s) \ S \subseteq Range(Trimmed(s, S, n))
           /\ Cardinality(Range(Trimmed(s, S, n)) \cap S) <= n
  BY TrimmedProperties

\* A sequence without repetitions is as long as its range is large.
THEOREM InjectiveLen ==
    ASSUME NEW T, NEW s \in Seq(T), IsInjective(s)
    PROVE  IsFiniteSet(Range(s)) /\ Cardinality(Range(s)) = Len(s)
<1>1. Len(s) \in Nat /\ DOMAIN s = 1..Len(s) /\ s \in [1..Len(s) -> T]
  BY LenProperties
<1>2. IsFiniteSet(1..Len(s)) /\ Cardinality(1..Len(s)) = Len(s)
  <2>1. 1 \in Int /\ Len(s) \in Int
    BY <1>1
  <2>2. /\ IsFiniteSet(1..Len(s))
        /\ Cardinality(1..Len(s)) = IF 1 > Len(s) THEN 0 ELSE Len(s) - 1 + 1
    BY <2>1, FS_Interval
  <2>3. QED
    BY <1>1, <2>2
<1>3. s \in [1..Len(s) -> Range(s)]
  BY <1>1 DEF Range
<1>4. s \in Surjection(1..Len(s), Range(s)) /\ s \in Injection(1..Len(s), Range(s))
  BY <1>1, <1>3 DEF Surjection, Injection, IsInjective, Range
<1>5. QED
  BY <1>2, <1>4, FS_Surjection

=============================================================================
