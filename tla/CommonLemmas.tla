---------------------------- MODULE CommonLemmas ----------------------------
(***************************************************************************)
(* Facts about numbers and finite sets that the proofs about several       *)
(* modules need: the slots of a ring, least elements, and the sorted       *)
(* enumeration of a finite set.                                            *)
(***************************************************************************)
EXTENDS Integers, FiniteSetTheorems, SequencesExt, TLAPS

(***************************************************************************)
(* Rings: of numbers less than a ring of k apart, no two have the same     *)
(* slot.                                                                   *)
(***************************************************************************)
LEMMA ModRange ==
    ASSUME NEW k \in Nat \ {0}, NEW i \in Nat
    PROVE  i % k \in 0..k-1 /\ i % k \in Nat
OBVIOUS

LEMMA Division ==
    ASSUME NEW k \in Nat \ {0}, NEW i \in Nat
    PROVE  \E a \in Nat : i = k * a + (i % k)
<1>1. i \div k \in Nat
  OBVIOUS
<1>2. i = k * (i \div k) + (i % k)
  OBVIOUS
<1> QED BY <1>1, <1>2

LEMMA Remainder ==
    ASSUME NEW k \in Nat \ {0}, NEW n \in Nat, NEW a \in Int, NEW r \in 0..k-1,
           n = k * a + r
    PROVE  n % k = r
OBVIOUS

LEMMA ModDiffers ==
    ASSUME NEW k \in Nat \ {0}, NEW i \in Nat, NEW n \in Nat, i < n, n - i < k
    PROVE  i % k # n % k
<1>1. PICK a \in Nat : i = k * a + (i % k)
  BY Division
<1>2. PICK b \in Nat : n = k * b + (n % k)
  BY Division
<1>3. SUFFICES ASSUME i % k = n % k PROVE FALSE
  OBVIOUS
<1>4. PICK r \in 0..k-1 : r = i % k
  BY ModRange
<1>5. i = k * a + r /\ n = k * b + r
  BY <1>1, <1>2, <1>3, <1>4
<1>6. CASE b <= a
  <2>1. k * b <= k * a
    BY <1>6
  <2> QED BY <2>1, <1>5
<1>7. CASE b >= a + 1
  <2>1. k * b >= k * (a + 1)
    BY <1>7
  <2>2. k * (a + 1) = k * a + k
    OBVIOUS
  <2> QED BY <2>1, <2>2, <1>5
<1> QED BY <1>6, <1>7

LEMMA ModAdd ==
    ASSUME NEW k \in Nat \ {0}, NEW i \in Nat, NEW j \in Nat
    PROVE  ((i % k) + j) % k = (i + j) % k
<1>1. PICK a \in Nat : i = k * a + (i % k)
  BY Division
<1>2. PICK r \in 0..k-1 : r = i % k
  BY ModRange
<1>r. PICK s \in Nat : s = r + j
  OBVIOUS
<1>3. PICK b \in Nat : s = k * b + (s % k)
  BY Division
<1>4. PICK t \in 0..k-1 : t = s % k
  BY ModRange
<1>5. i + j = k * (a + b) + t
  <2>1. k * (a + b) = k * a + k * b
    OBVIOUS
  <2>2. PICK x \in Nat : x = k * a
    OBVIOUS
  <2>3. PICK y \in Nat : y = k * b
    OBVIOUS
  <2>4. i = x + r /\ s = y + t
    BY <1>1, <1>2, <1>3, <1>4, <2>2, <2>3
  <2> QED BY <2>1, <2>2, <2>3, <2>4, <1>r
<1>6. (i + j) % k = t
  <2>1. i + j \in Nat /\ a + b \in Int
    OBVIOUS
  <2> QED BY <2>1, <1>5, Remainder
<1> QED BY <1>2, <1>r, <1>4, <1>6

-----------------------------------------------------------------------------
(***************************************************************************)
(* Queues.                                                                 *)
(***************************************************************************)
LEMMA Appended ==
    ASSUME NEW S, NEW s \in Seq(S), NEW e \in S
    PROVE  /\ Append(s, e) \in Seq(S) /\ Len(Append(s, e)) = Len(s) + 1
           /\ \A i \in 1..Len(s) : Append(s, e)[i] = s[i]
           /\ Append(s, e)[Len(s) + 1] = e
           /\ \A i \in 1..Len(Append(s, e)) : i \in 1..Len(s) \/ i = Len(s) + 1
OBVIOUS

LEMMA Concatenated ==
    ASSUME NEW S, NEW s \in Seq(S), NEW u \in Seq(S)
    PROVE  /\ s \o u \in Seq(S) /\ Len(s \o u) = Len(s) + Len(u)
           /\ \A i \in 1..Len(s) : (s \o u)[i] = s[i]
           /\ \A i \in 1..Len(u) : (s \o u)[Len(s) + i] = u[i]
OBVIOUS

LEMMA Removed ==
    ASSUME NEW S, NEW s \in Seq(S), s # <<>>
    PROVE  /\ Tail(s) \in Seq(S) /\ Len(Tail(s)) = Len(s) - 1
           /\ \A i \in 1..Len(Tail(s)) : Tail(s)[i] = s[i+1] /\ i + 1 \in 1..Len(s) /\ i + 1 > 1
           /\ Head(s) = s[1] /\ 1 \in 1..Len(s)
OBVIOUS

-----------------------------------------------------------------------------
(***************************************************************************)
(* A finite set can be put in the order of a key that tells its elements   *)
(* apart.  The induction is on the cardinality: of the sets without the    *)
(* property there would be a smallest one.                                 *)
(***************************************************************************)

\* A set of natural numbers has a least element.
LEMMA LeastNatural ==
    ASSUME NEW T \in SUBSET Nat, T # {}
    PROVE  \E m \in T : \A k \in T : m <= k
<1>1. PICK m \in T : \A k \in T : <<k, m>> \notin OpToRel(<, Nat)
  BY WFMin, NatLessThanWellFounded, Zenon
<1>2. \A k \in T : ~(k < m)
  BY <1>1, Zenon DEF OpToRel
<1> QED BY <1>2

\* The key tells the elements of S apart.
KeyOf(key, S) == key \in [S -> Int] /\ \A a, b \in S : a # b => key[a] # key[b]

\* A finite set that is not empty has an element with the greatest key.
LEMMA GreatestKey ==
    ASSUME NEW S, IsFiniteSet(S), S # {}, NEW key \in [S -> Int]
    PROVE  \E x \in S : \A y \in S : key[y] <= key[x]
<1> DEFINE Greatest(T) == \E x \in T : \A y \in T : key[y] <= key[x]
           Bad == {Cardinality(T) : T \in {U \in SUBSET S : U # {} /\ ~Greatest(U)}}
<1> SUFFICES ASSUME ~Greatest(S) PROVE FALSE
  OBVIOUS
<1>1. \A T \in SUBSET S : IsFiniteSet(T) /\ Cardinality(T) \in Nat
  BY FS_Subset, FS_CardinalityType
<1>2. Bad \in SUBSET Nat /\ Bad # {}
  BY <1>1
<1>3. PICK T \in SUBSET S : /\ T # {} /\ ~Greatest(T)
                            /\ \A k \in Bad : Cardinality(T) <= k
  BY <1>2, LeastNatural
<1>4. PICK x \in T : TRUE
  BY <1>3
<1> DEFINE U == T \ {x}
<1>5. U \in SUBSET S /\ Cardinality(U) = Cardinality(T) - 1
  BY <1>1, <1>4, FS_RemoveElement
<1>6. U = {} \/ Greatest(U)
  <2> SUFFICES ASSUME U # {}, ~Greatest(U) PROVE FALSE
    OBVIOUS
  <2>1. Cardinality(U) \in Bad
    <3> HIDE DEF Greatest
    <3> QED BY <1>5
  <2> HIDE DEF Bad
  <2>2. Cardinality(T) <= Cardinality(T) - 1
    BY <2>1, <1>3, <1>5
  <2> QED BY <2>2, <1>1
<1>7. key[x] \in Int /\ \A y \in U : key[y] \in Int
  BY <1>4, <1>5
<1>8. Greatest(T)
  <2>1. CASE U = {}
    BY <2>1, <1>4, <1>7
  <2>2. CASE Greatest(U)
    <3>1. PICK y \in U : \A z \in U : key[z] <= key[y]
      BY <2>2
    <3>2. CASE key[y] <= key[x]
      BY <3>1, <3>2, <1>4, <1>7
    <3>3. CASE key[x] <= key[y]
      BY <3>1, <3>3, <1>4, <1>7
    <3> QED BY <3>1, <3>2, <3>3, <1>7
  <2> QED BY <2>1, <2>2, <1>6
<1> QED BY <1>3, <1>8

\* A finite set can be enumerated in the order of the keys.
LEMMA SortedEnumeration ==
    ASSUME NEW S, IsFiniteSet(S), NEW key, KeyOf(key, S)
    PROVE  \E g \in Bijection(1..Cardinality(S), S) :
              \A i, j \in 1..Cardinality(S) : i < j => key[g[i]] < key[g[j]]
<1> DEFINE Sorted(T) == \E g \in Bijection(1..Cardinality(T), T) :
                            \A i, j \in 1..Cardinality(T) : i < j => key[g[i]] < key[g[j]]
           Bad == {Cardinality(T) : T \in {U \in SUBSET S : ~Sorted(U)}}
<1> SUFFICES ASSUME ~Sorted(S) PROVE FALSE
  OBVIOUS
<1>1. \A T \in SUBSET S : IsFiniteSet(T) /\ Cardinality(T) \in Nat
  BY FS_Subset, FS_CardinalityType
<1>2. Bad \in SUBSET Nat /\ Bad # {}
  BY <1>1
<1>3. PICK T \in SUBSET S : ~Sorted(T) /\ \A k \in Bad : Cardinality(T) <= k
  BY <1>2, LeastNatural
<1> DEFINE n == Cardinality(T)
<1>4. n \in Nat
  BY <1>1
<1>5. T # {}
  <2> SUFFICES ASSUME T = {} PROVE Sorted(T)
    BY <1>3
  <2>1. 1..n = {}
    BY FS_EmptySet
  <2>2. Bijection({}, {}) # {}
    <3>1. [i \in {} |-> i] \in [{} -> {}]
      OBVIOUS
    <3> QED BY <3>1 DEF Bijection, Injection, IsInjective, Surjection
  <2> QED BY <2>1, <2>2
<1>6. PICK x \in T : \A y \in T : key[y] <= key[x]
  <2>1. [y \in T |-> key[y]] \in [T -> Int]
    BY DEF KeyOf
  <2> QED BY <2>1, <1>1, <1>5, GreatestKey
<1> DEFINE U == T \ {x}
<1>7. U \in SUBSET S /\ Cardinality(U) = n - 1 /\ n > 0
  <2>1. U \in SUBSET S /\ Cardinality(U) = n - 1
    BY <1>1, <1>6, FS_RemoveElement
  <2> QED BY <2>1, <1>1
<1>8. PICK g \in Bijection(1..n-1, U) :
          \A i, j \in 1..n-1 : i < j => key[g[i]] < key[g[j]]
  <2>1. Sorted(U)
    <3> SUFFICES ASSUME ~Sorted(U) PROVE FALSE
      OBVIOUS
    <3>1. Cardinality(U) \in Bad
      <4> HIDE DEF Sorted
      <4> QED BY <1>7
    <3>2. n <= n - 1
      BY <3>1, <1>3, <1>7
    <3> QED BY <3>2, <1>4
  <2> QED BY <2>1, <1>7
<1> DEFINE h == [i \in 1..n |-> IF i = n THEN x ELSE g[i]]
<1> HIDE DEF n
<1>9. g \in [1..n-1 -> U] /\ (\A i, j \in 1..n-1 : g[i] = g[j] => i = j)
      /\ \A y \in U : \E i \in 1..n-1 : g[i] = y
  BY <1>8 DEF Bijection, Injection, IsInjective, Surjection
<1>10. \A i \in 1..n : i = n \/ i \in 1..n-1
  BY <1>4
<1>11. h \in Bijection(1..n, T)
  <2>1. h \in [1..n -> T]
    BY <1>4, <1>6, <1>9, <1>10
  <2>2. ASSUME NEW i \in 1..n, NEW j \in 1..n, h[i] = h[j] PROVE i = j
    BY <2>2, <1>4, <1>9, <1>10
  <2>3. ASSUME NEW y \in T PROVE \E i \in 1..n : h[i] = y
    <3>1. CASE y = x
      BY <3>1, <1>4, <1>7
    <3>2. CASE y # x
      <4>1. PICK i \in 1..n-1 : g[i] = y
        BY <3>2, <1>9
      <4> QED BY <4>1, <1>4
    <3> QED BY <3>1, <3>2
  <2> QED BY <2>1, <2>2, <2>3 DEF Bijection, Injection, IsInjective, Surjection
<1>12. ASSUME NEW i \in 1..n, NEW j \in 1..n, i < j PROVE key[h[i]] < key[h[j]]
  <2>1. i \in 1..n-1 /\ h[i] = g[i]
    BY <1>12, <1>4
  <2>2. CASE j = n
    <3>1. h[j] = x /\ g[i] \in T /\ g[i] # x
      BY <2>1, <2>2, <1>4, <1>9
    <3> QED BY <3>1, <2>1, <1>6 DEF KeyOf
  <2>3. CASE j \in 1..n-1
    BY <2>1, <2>3, <1>4, <1>8, <1>12
  <2> QED BY <2>2, <2>3, <1>10
<1> QED BY <1>3, <1>11, <1>12 DEF n

\* What SetToSeqs has: every element of S, once.
LEMMA SetToSeqsEnumerate ==
    ASSUME NEW S, IsFiniteSet(S), NEW s \in SetToSeqs(S)
    PROVE  /\ s \in Seq(S) /\ Len(s) = Cardinality(S)
           /\ \A x \in S : \E i \in 1..Len(s) : s[i] = x
           /\ \A i, j \in 1..Len(s) : i # j => s[i] # s[j]
<1> DEFINE n == Cardinality(S)
<1>1. n \in Nat /\ IsFiniteSet(1..n) /\ Cardinality(1..n) = n
  BY FS_CardinalityType, FS_Interval
<1>2. s \in [1..n -> S] /\ \A i, j \in 1..n : i # j => s[i] # s[j]
  BY DEF SetToSeqs
<1> HIDE DEF n
<1>3. s \in Seq(S) /\ Len(s) = n
  BY <1>1, <1>2
<1>4. s \in Injection(1..n, S)
  BY <1>2 DEF Injection, IsInjective
<1>5. s \in Surjection(1..n, S)
  BY <1>1, <1>4, FS_Injection DEF n
<1>6. \A x \in S : \E i \in 1..n : s[i] = x
  BY <1>5 DEF Surjection
<1> QED BY <1>2, <1>3, <1>6 DEF n

\* A finite set has an enumeration in the order of the keys.
LEMMA SortedSeqExists ==
    ASSUME NEW S, IsFiniteSet(S), NEW key, KeyOf(key, S)
    PROVE  \E s \in SetToSeqs(S) :
              \A i, j \in 1..Len(s) : i < j => key[s[i]] < key[s[j]]
<1>1. PICK g \in Bijection(1..Cardinality(S), S) :
              \A i, j \in 1..Cardinality(S) : i < j => key[g[i]] < key[g[j]]
  BY SortedEnumeration
<1>2. g \in SetToSeqs(S)
  BY <1>1 DEF Bijection, Injection, IsInjective, SetToSeqs
<1>3. Len(g) = Cardinality(S)
  BY <1>2, SetToSeqsEnumerate
<1> QED BY <1>1, <1>2, <1>3

\* Numbers are their own keys.
LEMMA SortedNumbersExist ==
    ASSUME NEW S \in SUBSET Int, IsFiniteSet(S)
    PROVE  \E s \in SetToSeqs(S) : \A i, j \in 1..Len(s) : i < j => s[i] < s[j]
<1> DEFINE key == [x \in S |-> x]
<1>1. KeyOf(key, S)
  BY DEF KeyOf
<1> HIDE DEF key
<1>2. PICK s \in SetToSeqs(S) : \A i, j \in 1..Len(s) : i < j => key[s[i]] < key[s[j]]
  BY <1>1, SortedSeqExists
<1>3. \A i \in 1..Len(s) : key[s[i]] = s[i]
  <2>1. s \in Seq(S)
    BY SetToSeqsEnumerate
  <2> QED BY <2>1 DEF key
<1> QED BY <1>2, <1>3
=============================================================================
