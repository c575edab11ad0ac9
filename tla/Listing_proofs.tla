--------------------------- MODULE Listing_proofs ---------------------------
(***************************************************************************)
(* What the lists of module Listing hold, for every finite set and every   *)
(* sequence.  No induction is needed: ranks are different numbers from 1   *)
(* to the size of the set, so they are all of them.                        *)
(***************************************************************************)
EXTENDS Listing, Integers, Functions, FiniteSetTheorems, SequenceTheorems, TLAPS

\* upto tells the places of S in a linear order
Orders(S, upto) ==
  /\ upto \in [S -> SUBSET S]
  /\ \A x \in S : x \in upto[x]
  /\ \A x, y \in S : upto[x] \subseteq upto[y] \/ upto[y] \subseteq upto[x]
  /\ \A x, y \in S : upto[x] = upto[y] => x = y

\* Every element of the set has a rank of its own.
LEMMA RankIsBijective ==
  ASSUME NEW S, IsFiniteSet(S), NEW upto, Orders(S, upto)
  PROVE  /\ \A x \in S : Cardinality(upto[x]) \in 1 .. Cardinality(S)
         /\ \A x, y \in S : Cardinality(upto[x]) = Cardinality(upto[y]) => x = y
         /\ \A k \in 1 .. Cardinality(S) : \E x \in S : Cardinality(upto[x]) = k
<1> DEFINE rank == [x \in S |-> Cardinality(upto[x])]
           n == Cardinality(S)
<1>1. n \in Nat
  BY FS_CardinalityType
<1>2. ASSUME NEW x \in S
      PROVE  IsFiniteSet(upto[x]) /\ Cardinality(upto[x]) \in 1 .. n
  <2>1. upto[x] \in SUBSET S /\ x \in upto[x]
    BY DEF Orders
  <2>2. IsFiniteSet(upto[x]) /\ Cardinality(upto[x]) <= n
    BY <2>1, FS_Subset
  <2>3. Cardinality(upto[x]) \in Nat /\ Cardinality(upto[x]) # 0
    BY <2>1, <2>2, FS_CardinalityType, FS_EmptySet
  <2> QED
    BY <1>1, <2>2, <2>3
<1>3. ASSUME NEW x \in S, NEW y \in S, Cardinality(upto[x]) = Cardinality(upto[y])
      PROVE  x = y
  <2>1. CASE upto[x] \subseteq upto[y]
    BY <1>2, <1>3, <2>1, FS_Subset DEF Orders
  <2>2. CASE upto[y] \subseteq upto[x]
    BY <1>2, <1>3, <2>2, FS_Subset DEF Orders
  <2> QED
    BY <2>1, <2>2 DEF Orders
<1>4. rank \in Injection(S, 1 .. n)
  BY <1>2, <1>3 DEF Injection, IsInjective
<1>5. IsFiniteSet(1 .. n) /\ Cardinality(1 .. n) = n
  BY <1>1, FS_Interval
<1>6. rank \in Surjection(S, 1 .. n)
  BY <1>4, <1>5, FS_Injection
<1> QED
  BY <1>2, <1>3, <1>6 DEF Surjection

\* The list has every element once, at its rank.
LEMMA ListedProperties ==
  ASSUME NEW S, IsFiniteSet(S), NEW upto, Orders(S, upto)
  PROVE  /\ Cardinality(S) \in Nat
         /\ Listed(S, upto) \in [1 .. Cardinality(S) -> S]
         /\ \A k \in 1 .. Cardinality(S) : Cardinality(upto[Listed(S, upto)[k]]) = k
         /\ \A x \in S : /\ Cardinality(upto[x]) \in 1 .. Cardinality(S)
                         /\ Listed(S, upto)[Cardinality(upto[x])] = x
<1> DEFINE list == Listed(S, upto)
           n == Cardinality(S)
<1>1. n \in Nat
  BY FS_CardinalityType
<1>2. ASSUME NEW k \in 1 .. n
      PROVE  list[k] \in S /\ Cardinality(upto[list[k]]) = k
  <2>1. list[k] = CHOOSE x \in S : Cardinality(upto[x]) = k
    BY DEF Listed
  <2>2. \E x \in S : Cardinality(upto[x]) = k
    BY RankIsBijective
  <2> QED
    BY <2>1, <2>2
<1>3. list \in [1 .. n -> S]
  <2>1. list = [k \in 1 .. n |-> list[k]]
    BY DEF Listed
  <2> HIDE DEF list
  <2> QED
    BY <1>2, <2>1
<1>4. ASSUME NEW x \in S
      PROVE  Cardinality(upto[x]) \in 1 .. n /\ list[Cardinality(upto[x])] = x
  <2>1. Cardinality(upto[x]) \in 1 .. n
    BY RankIsBijective
  <2>2. /\ list[Cardinality(upto[x])] \in S
        /\ Cardinality(upto[list[Cardinality(upto[x])]]) = Cardinality(upto[x])
    BY <1>2, <2>1
  <2> HIDE DEF list
  <2> QED
    BY <2>1, <2>2, RankIsBijective
<1> QED
  BY <1>1, <1>2, <1>3, <1>4

LEMMA UpToGrows ==
  ASSUME NEW S \in SUBSET Nat, NEW x \in S, NEW y \in S, x <= y
  PROVE  UpTo(S)[x] \subseteq UpTo(S)[y]
<1> SUFFICES ASSUME NEW z \in UpTo(S)[x]
             PROVE  z \in UpTo(S)[y]
  OBVIOUS
<1>1. z \in S /\ z <= x
  BY DEF UpTo
<1>2. z \in Nat /\ x \in Nat /\ y \in Nat
  BY <1>1
<1>3. z <= y
  BY <1>1, <1>2
<1> QED
  BY <1>1, <1>3 DEF UpTo

LEMMA UpToOrders ==
  ASSUME NEW S \in SUBSET Nat
  PROVE  Orders(S, UpTo(S))
<1>1. ASSUME NEW x \in S
      PROVE  UpTo(S)[x] = {j \in S : j <= x}
  BY DEF UpTo
<1>2. UpTo(S) \in [S -> SUBSET S]
  BY DEF UpTo
<1>3. ASSUME NEW x \in S, NEW y \in S
      PROVE  /\ x \in UpTo(S)[x]
             /\ UpTo(S)[x] \subseteq UpTo(S)[y] \/ UpTo(S)[y] \subseteq UpTo(S)[x]
             /\ UpTo(S)[x] = UpTo(S)[y] => x = y
  <2>1. x \in Nat /\ y \in Nat
    OBVIOUS
  <2>2. x <= x /\ y <= y /\ (x <= y \/ y <= x)
    BY <2>1
  <2>3. x \in UpTo(S)[x] /\ y \in UpTo(S)[y]
    BY <1>1, <2>2
  <2>4. UpTo(S)[x] = UpTo(S)[y] => x <= y /\ y <= x
    BY <1>1, <2>3
  <2>5. x <= y => UpTo(S)[x] \subseteq UpTo(S)[y]
    BY UpToGrows
  <2>6. y <= x => UpTo(S)[y] \subseteq UpTo(S)[x]
    BY UpToGrows
  <2> QED
    BY <2>1, <2>2, <2>3, <2>4, <2>5, <2>6
<1> QED
  BY <1>2, <1>3 DEF Orders

\* A set of numbers, listed: every element once, growing.
LEMMA AscendingProperties ==
  ASSUME NEW S \in SUBSET Nat, IsFiniteSet(S)
  PROVE  /\ Cardinality(S) \in Nat
         /\ Ascending(S) \in [1 .. Cardinality(S) -> S]
         /\ Ascending(S) \in Seq(S) /\ Len(Ascending(S)) = Cardinality(S)
         /\ \A j, k \in 1 .. Cardinality(S) : j < k => Ascending(S)[j] < Ascending(S)[k]
         /\ \A j, k \in 1 .. Cardinality(S) : Ascending(S)[j] = Ascending(S)[k] => j = k
         /\ \A x \in S : \E k \in 1 .. Cardinality(S) : Ascending(S)[k] = x
<1> DEFINE list == Ascending(S)
           upto == UpTo(S)
           n == Cardinality(S)
<1>1. Orders(S, upto)
  BY UpToOrders
<1>2. /\ n \in Nat
      /\ list \in [1 .. n -> S]
      /\ \A k \in 1 .. n : Cardinality(upto[list[k]]) = k
      /\ \A x \in S : Cardinality(upto[x]) \in 1 .. n /\ list[Cardinality(upto[x])] = x
  BY <1>1, ListedProperties DEF Ascending
<1>3. list \in Seq(S) /\ Len(list) = n
  BY <1>2
<1>4. \A x, y \in S : x <= y => upto[x] \subseteq upto[y]
  BY UpToGrows
<1>5. \A x \in S : IsFiniteSet(upto[x]) /\ upto[x] \in SUBSET S
  BY <1>1, FS_Subset DEF Orders
<1> HIDE DEF list, upto, n
<1>6. ASSUME NEW j \in 1 .. n, NEW k \in 1 .. n, j < k
      PROVE  list[j] < list[k]
  <2>0. list[j] \in S /\ list[k] \in S /\ list[j] \in Nat /\ list[k] \in Nat
    BY <1>2
  <2> SUFFICES ASSUME list[k] <= list[j]
               PROVE  FALSE
    BY <2>0
  <2>1. upto[list[k]] \in SUBSET upto[list[j]] /\ IsFiniteSet(upto[list[j]])
    BY <2>0, <1>4, <1>5
  <2>2. Cardinality(upto[list[k]]) <= Cardinality(upto[list[j]])
    BY <2>1, FS_Subset
  <2>3. Cardinality(upto[list[k]]) = k /\ Cardinality(upto[list[j]]) = j
    BY <1>2
  <2> QED
    BY <1>2, <1>6, <2>2, <2>3
<1>7. \A j, k \in 1 .. n : list[j] = list[k] => j = k
  BY <1>2
<1> QED
  BY <1>2, <1>3, <1>6, <1>7 DEF list, upto, n

\* The elements of an interval come one after the other.
LEMMA AscendingInterval ==
  ASSUME NEW a \in Nat, NEW b \in Nat, NEW k \in 1 .. b - a + 1
  PROVE  Ascending(a .. b)[k] = a + k - 1
<1> DEFINE S == a .. b
           x == a + k - 1
<1>1. S \in SUBSET Nat /\ x \in S
  OBVIOUS
<1>2. IsFiniteSet(S)
  BY FS_Interval
<1>3. UpTo(S)[x] = a .. x
  <2>1. UpTo(S)[x] = {j \in S : j <= x}
    BY <1>1 DEF UpTo
  <2>2. x \in Nat /\ x <= b
    OBVIOUS
  <2>3. \A j \in Nat : (j \in S /\ j <= x) <=> j \in a .. x
    BY <2>2
  <2>4. S \subseteq Nat /\ a .. x \subseteq Nat
    OBVIOUS
  <2> HIDE DEF S, x
  <2> QED
    BY <2>1, <2>3, <2>4
<1>4. Cardinality(a .. x) = k
  BY FS_Interval
<1>5. Listed(S, UpTo(S))[Cardinality(UpTo(S)[x])] = x
  BY <1>1, <1>2, UpToOrders, ListedProperties
<1> QED
  BY <1>3, <1>4, <1>5 DEF Ascending

\* A filter keeps the elements at its places and no others, and keeps apart
\* what is different in the sequence.
LEMMA PickedProperties ==
  ASSUME NEW T, NEW s \in Seq(T), NEW I \in SUBSET (1 .. Len(s))
  PROVE  /\ Cardinality(I) \in Nat
         /\ Picked(s, I) \in Seq(T)
         /\ Len(Picked(s, I)) = Cardinality(I)
         /\ \A k \in 1 .. Cardinality(I) : \E i \in I : Picked(s, I)[k] = s[i]
         /\ \A i \in I : \E k \in 1 .. Cardinality(I) : Picked(s, I)[k] = s[i]
         /\ (\A i, j \in 1 .. Len(s) : s[i] = s[j] => i = j) =>
              \A j, k \in 1 .. Cardinality(I) : Picked(s, I)[j] = Picked(s, I)[k] => j = k
<1> DEFINE list == Ascending(I)
           n == Cardinality(I)
<1>1. Len(s) \in Nat
  OBVIOUS
<1>2. IsFiniteSet(I)
  <2>1. IsFiniteSet(1 .. Len(s))
    BY <1>1, FS_Interval
  <2> QED
    BY <2>1, FS_Subset
<1>3. I \in SUBSET Nat
  BY <1>1
<1>4. /\ n \in Nat
      /\ list \in [1 .. n -> I]
      /\ Len(list) = n
      /\ \A j, k \in 1 .. n : list[j] = list[k] => j = k
      /\ \A x \in I : \E k \in 1 .. n : list[k] = x
  BY <1>2, <1>3, AscendingProperties
<1>5. Picked(s, I) = [k \in 1 .. n |-> s[list[k]]]
  BY <1>4 DEF Picked
<1> HIDE DEF list, n
<1>6. \A k \in 1 .. n : list[k] \in I /\ list[k] \in 1 .. Len(s) /\ s[list[k]] \in T
  <2> SUFFICES ASSUME NEW k \in 1 .. n
               PROVE  list[k] \in I /\ list[k] \in 1 .. Len(s) /\ s[list[k]] \in T
    OBVIOUS
  <2>1. list[k] \in I
    BY <1>4
  <2>2. list[k] \in 1 .. Len(s)
    BY <2>1
  <2> QED
    BY <2>1, <2>2, ElementOfSeq
<1>7. Picked(s, I) \in [1 .. n -> T]
  BY <1>5, <1>6
<1>8. Picked(s, I) \in Seq(T) /\ Len(Picked(s, I)) = n
  BY <1>4, <1>7
<1>9. \A k \in 1 .. n : Picked(s, I)[k] = s[list[k]]
  BY <1>5
<1>10. \A i \in I : \E k \in 1 .. n : Picked(s, I)[k] = s[i]
  BY <1>4, <1>9
<1>11. ASSUME \A i, j \in 1 .. Len(s) : s[i] = s[j] => i = j,
              NEW j \in 1 .. n, NEW k \in 1 .. n, Picked(s, I)[j] = Picked(s, I)[k]
       PROVE  j = k
  <2>1. s[list[j]] = s[list[k]]
    BY <1>9, <1>11
  <2>2. list[j] = list[k]
    BY <1>6, <1>11, <2>1
  <2> QED
    BY <1>4, <2>2
<1>12. \A k \in 1 .. n : \E i \in I : Picked(s, I)[k] = s[i]
  BY <1>6, <1>9
<1> QED
  BY <1>4, <1>8, <1>10, <1>11, <1>12 DEF n

\* Without its first a elements, a sequence is its end.
LEMMA PickedEnd ==
  ASSUME NEW T, NEW s \in Seq(T), NEW a \in 0 .. Len(s)
  PROVE  Picked(s, a + 1 .. Len(s)) = SubSeq(s, a + 1, Len(s))
<1> DEFINE I == a + 1 .. Len(s)
           n == Len(s) - a
<1>1. Len(s) \in Nat /\ n \in Nat
  OBVIOUS
<1>2. IsFiniteSet(I) /\ Cardinality(I) = n
  <2>1. /\ IsFiniteSet(I)
        /\ Cardinality(I) = IF a + 1 > Len(s) THEN 0 ELSE Len(s) - (a + 1) + 1
    <3>1. a + 1 \in Int /\ Len(s) \in Int
      BY <1>1
    <3> QED
      BY ONLY <3>1, FS_Interval
  <2> QED
    BY <1>1, <2>1
<1>3. I \in SUBSET (1 .. Len(s)) /\ I \in SUBSET Nat
  BY <1>1
<1>4. Len(Ascending(I)) = n
  BY <1>2, <1>3, AscendingProperties
<1>5. ASSUME NEW k \in 1 .. n
      PROVE  Ascending(I)[k] = a + k
  <2>1. k \in 1 .. Len(s) - (a + 1) + 1 /\ a + 1 \in Nat
    BY <1>1
  <2>2. Ascending(I)[k] = a + 1 + k - 1
    BY <1>1, <2>1, AscendingInterval
  <2> QED
    BY <1>1, <2>2
<1>6. Picked(s, I) = [k \in 1 .. n |-> s[Ascending(I)[k]]]
  BY <1>4 DEF Picked
<1> HIDE DEF I
<1>7. Picked(s, I) = [k \in 1 .. n |-> s[a + k]]
  BY <1>5, <1>6
<1>8. /\ SubSeq(s, a + 1, Len(s)) \in Seq(T)
      /\ Len(SubSeq(s, a + 1, Len(s))) = n
      /\ \A k \in 1 .. n : SubSeq(s, a + 1, Len(s))[k] = s[a + k]
  BY <1>1
<1>9. SubSeq(s, a + 1, Len(s)) = [k \in 1 .. n |-> s[a + k]]
  BY <1>1, <1>8
<1> QED
  BY <1>7, <1>9 DEF I

(***************************************************************************)
(* The elements of a sequence without repetitions.                         *)
(***************************************************************************)
LEMMA ShortSeqs ==
  /\ Range(<<>>) = {} /\ IsInjective(<<>>)
  /\ \A x : Range(<<x>>) = {x} /\ IsInjective(<<x>>)
  /\ \A S : \A x \in S : <<x>> \in Seq(S) /\ <<>> \in Seq(S)
BY DEF Range, IsInjective

LEMMA ElementsTyped ==
  ASSUME NEW S, NEW s \in Seq(S)
  PROVE  Range(s) \subseteq S /\ Range(s) = {s[i] : i \in 1 .. Len(s)}
BY RangeOfSeq, RangeEquality

LEMMA HeadAndTail ==
  ASSUME NEW S, NEW s \in Seq(S), s # <<>>
  PROVE  /\ Head(s) \in S /\ Head(s) \in Range(s) /\ Tail(s) \in Seq(S)
         /\ Range(s) = {Head(s)} \cup Range(Tail(s))
         /\ IsInjective(s) => IsInjective(Tail(s)) /\ Head(s) \notin Range(Tail(s))
<1>1. /\ Len(s) \in Nat \ {0} /\ DOMAIN s = 1 .. Len(s) /\ Head(s) = s[1]
      /\ Head(s) \in S /\ Tail(s) \in Seq(S) /\ Len(Tail(s)) = Len(s) - 1
      /\ DOMAIN Tail(s) = 1 .. Len(s) - 1
      /\ \A i \in 1 .. Len(s) - 1 : Tail(s)[i] = s[i + 1]
  OBVIOUS
<1>2. Head(s) \in Range(s)
  BY <1>1 DEF Range
<1>3. Range(Tail(s)) \subseteq Range(s)
  <2>1. \A i \in 1 .. Len(s) - 1 : i + 1 \in 1 .. Len(s)
    BY <1>1
  <2> QED
    BY <1>1, <2>1 DEF Range
<1>4. Range(s) \subseteq {Head(s)} \cup Range(Tail(s))
  <2> SUFFICES ASSUME NEW i \in 1 .. Len(s), i # 1
               PROVE  s[i] \in Range(Tail(s))
    BY <1>1 DEF Range
  <2>1. i - 1 \in 1 .. Len(s) - 1 /\ i - 1 + 1 = i
    BY <1>1
  <2>2. Tail(s)[i - 1] = s[i]
    BY <1>1, <2>1
  <2> QED
    BY <1>1, <2>1, <2>2 DEF Range
<1>5. ASSUME IsInjective(s)
      PROVE  IsInjective(Tail(s)) /\ Head(s) \notin Range(Tail(s))
  <2>1. \A i, j \in 1 .. Len(s) : s[i] = s[j] => i = j
    BY <1>1, <1>5 DEF IsInjective
  <2>2. ASSUME NEW i \in 1 .. Len(s) - 1, NEW j \in 1 .. Len(s) - 1,
               Tail(s)[i] = Tail(s)[j]
        PROVE  i = j
    <3>1. i + 1 \in 1 .. Len(s) /\ j + 1 \in 1 .. Len(s) /\ s[i + 1] = s[j + 1]
      BY <1>1, <2>2
    <3> QED
      BY <2>1, <3>1
  <2>3. \A i \in 1 .. Len(s) - 1 : Tail(s)[i] # s[1]
    <3>1. \A i \in 1 .. Len(s) - 1 : i + 1 \in 1 .. Len(s) /\ i + 1 # 1 /\ 1 \in 1 .. Len(s)
      BY <1>1
    <3> QED
      BY <1>1, <2>1, <3>1
  <2> QED
    BY <1>1, <2>2, <2>3 DEF IsInjective, Range
<1> QED
  BY <1>1, <1>2, <1>3, <1>4, <1>5

LEMMA OneMore ==
  ASSUME NEW S, NEW s \in Seq(S), NEW x \in S
  PROVE  /\ Append(s, x) \in Seq(S) /\ Append(s, x) # <<>>
         /\ Range(Append(s, x)) = Range(s) \cup {x}
         /\ IsInjective(s) /\ x \notin Range(s) => IsInjective(Append(s, x))
<1>1. /\ Append(s, x) \in Seq(S) /\ Append(s, x) # <<>> /\ Len(s) \in Nat
      /\ DOMAIN s = 1 .. Len(s) /\ DOMAIN Append(s, x) = 1 .. Len(s) + 1
      /\ \A i \in 1 .. Len(s) : Append(s, x)[i] = s[i]
      /\ Append(s, x)[Len(s) + 1] = x
  OBVIOUS
<1>2. \A i : i \in 1 .. Len(s) + 1 <=> i \in 1 .. Len(s) \/ i = Len(s) + 1
  BY <1>1
<1> QED
  BY <1>1, <1>2 DEF Range, IsInjective

LEMMA CutInTwo ==
  ASSUME NEW S, NEW s \in Seq(S), NEW n \in 0 .. Len(s)
  PROVE  /\ SubSeq(s, 1, n) \in Seq(S) /\ SubSeq(s, n + 1, Len(s)) \in Seq(S)
         /\ Len(SubSeq(s, 1, n)) = n
         /\ Range(SubSeq(s, 1, n)) \cup Range(SubSeq(s, n + 1, Len(s))) = Range(s)
         /\ IsInjective(s) =>
              /\ IsInjective(SubSeq(s, 1, n)) /\ IsInjective(SubSeq(s, n + 1, Len(s)))
              /\ Range(SubSeq(s, 1, n)) \cap Range(SubSeq(s, n + 1, Len(s))) = {}
<1> DEFINE a == SubSeq(s, 1, n)
           b == SubSeq(s, n + 1, Len(s))
           m == Len(s) - n
<1>1. Len(s) \in Nat /\ n \in Nat /\ m \in Nat /\ DOMAIN s = 1 .. Len(s)
  OBVIOUS
<1>2. /\ a \in Seq(S) /\ Len(a) = n /\ DOMAIN a = 1 .. n
      /\ \A i \in 1 .. n : a[i] = s[i]
  BY <1>1
<1>3. /\ b \in Seq(S) /\ Len(b) = m /\ DOMAIN b = 1 .. m
      /\ \A i \in 1 .. m : b[i] = s[n + i]
  <2>1. b \in Seq(S)
    BY <1>1
  <2>2. Len(b) = m
    <3>1. /\ n + 1 \in Int /\ Len(s) \in Int
          /\ \A i \in n + 1 .. Len(s) : s[i] \in S
      BY <1>1
    <3>2. Len(b) = IF n + 1 <= Len(s) THEN Len(s) - (n + 1) + 1 ELSE 0
      BY ONLY <3>1, SubSeqProperties
    <3>3. \A k, l \in Nat : k <= l => (IF k + 1 <= l THEN l - (k + 1) + 1 ELSE 0) = l - k
      OBVIOUS
    <3>4. n <= Len(s)
      BY <1>1
    <3> QED
      BY ONLY <1>1, <3>2, <3>3, <3>4, Zenon
  <2>3. \A i \in 1 .. m : b[i] = s[n + i]
    BY <1>1
  <2> QED
    BY <2>1, <2>2, <2>3
<1>4. /\ \A i \in 1 .. n : i \in 1 .. Len(s)
      /\ \A i \in 1 .. m : n + i \in 1 .. Len(s)
      /\ \A i \in 1 .. n, j \in 1 .. m : i # n + j
      /\ \A i, j \in 1 .. m : n + i = n + j => i = j
  BY <1>1
<1>5. \A i \in 1 .. Len(s) : i \in 1 .. n \/ \E j \in 1 .. m : i = n + j
  <2> SUFFICES ASSUME NEW i \in 1 .. Len(s), i \notin 1 .. n
               PROVE  \E j \in 1 .. m : i = n + j
    OBVIOUS
  <2>1. i - n \in 1 .. m /\ i = n + (i - n)
    BY <1>1
  <2> QED
    BY <2>1
<1> HIDE DEF a, b, m
<1>6. Range(a) \cup Range(b) = Range(s)
  <2>1. Range(a) \subseteq Range(s)
    BY <1>1, <1>2, <1>4 DEF Range
  <2>2. Range(b) \subseteq Range(s)
    BY <1>1, <1>3, <1>4 DEF Range
  <2>3. \A i \in 1 .. Len(s) : s[i] \in Range(a) \cup Range(b)
    BY <1>2, <1>3, <1>5 DEF Range
  <2>4. Range(s) \subseteq Range(a) \cup Range(b)
    BY <1>1, <2>3 DEF Range
  <2> QED
    BY <2>1, <2>2, <2>4
<1>7. IsInjective(s) => IsInjective(a) /\ IsInjective(b) /\ Range(a) \cap Range(b) = {}
  <2> SUFFICES ASSUME IsInjective(s)
               PROVE  IsInjective(a) /\ IsInjective(b) /\ Range(a) \cap Range(b) = {}
    OBVIOUS
  <2>1. \A i, j \in 1 .. Len(s) : s[i] = s[j] => i = j
    BY <1>1 DEF IsInjective
  <2>2. IsInjective(a)
    BY <1>2, <1>4, <2>1 DEF IsInjective
  <2>3. IsInjective(b)
    <3> SUFFICES ASSUME NEW i \in 1 .. m, NEW j \in 1 .. m, b[i] = b[j]
                 PROVE  i = j
      BY <1>3 DEF IsInjective
    <3>1. s[n + i] = s[n + j]
      BY <1>3
    <3>2. n + i = n + j
      BY <1>4, <2>1, <3>1
    <3> QED
      BY <1>4, <3>2
  <2>4. \A i \in 1 .. n, j \in 1 .. m : a[i] # b[j]
    BY <1>2, <1>3, <1>4, <2>1
  <2>5. Range(a) \cap Range(b) = {}
    BY <1>2, <1>3, <2>4 DEF Range
  <2> QED
    BY <2>2, <2>3, <2>5
<1> QED
  BY <1>2, <1>3, <1>6, <1>7 DEF a, b

LEMMA Joined ==
  ASSUME NEW S, NEW s \in Seq(S), NEW t \in Seq(S)
  PROVE  /\ s \o t \in Seq(S) /\ Len(s \o t) = Len(s) + Len(t)
         /\ Range(s \o t) = Range(s) \cup Range(t)
         /\ IsInjective(s) /\ IsInjective(t) /\ Range(s) \cap Range(t) = {} =>
              IsInjective(s \o t)
<1> DEFINE m == Len(s)
           n == Len(t)
           st == s \o t
<1>1. /\ m \in Nat /\ n \in Nat /\ st \in Seq(S) /\ Len(st) = m + n
      /\ DOMAIN s = 1 .. m /\ DOMAIN t = 1 .. n /\ DOMAIN st = 1 .. m + n
      /\ \A i \in 1 .. m : st[i] = s[i]
      /\ \A i \in m + 1 .. m + n : st[i] = t[i - m]
  OBVIOUS
<1> HIDE DEF m, n, st
<1>2. \A i \in 1 .. m + n : i \in 1 .. m \/ (i \in m + 1 .. m + n /\ i - m \in 1 .. n)
  BY <1>1
<1>3. /\ \A i \in 1 .. m : i \in 1 .. m + n
      /\ \A i \in 1 .. n : m + i \in 1 .. m + n /\ st[m + i] = t[i]
  BY <1>1
<1>4. Range(st) = Range(s) \cup Range(t)
  <2>1. Range(st) \subseteq Range(s) \cup Range(t)
    BY <1>1, <1>2 DEF Range
  <2>2. \A i \in 1 .. m : s[i] \in Range(st)
    BY <1>1, <1>3 DEF Range
  <2>3. \A i \in 1 .. n : t[i] \in Range(st)
    BY <1>1, <1>3 DEF Range
  <2>4. Range(s) \cup Range(t) \subseteq Range(st)
    <3>1. Range(s) = {s[i] : i \in 1 .. m} /\ Range(t) = {t[i] : i \in 1 .. n}
      BY <1>1 DEF Range
    <3> QED
      BY <2>2, <2>3, <3>1
  <2> QED
    BY <2>1, <2>4
<1>5. ASSUME IsInjective(s), IsInjective(t), Range(s) \cap Range(t) = {}
      PROVE  IsInjective(st)
  <2>1. \A i \in 1 .. m, j \in 1 .. n : s[i] # t[j]
    BY <1>1, <1>5 DEF Range
  <2> SUFFICES ASSUME NEW i \in 1 .. m + n, NEW j \in 1 .. m + n, st[i] = st[j]
               PROVE  i = j
    BY <1>1 DEF IsInjective
  <2>2. CASE i \in 1 .. m /\ j \in 1 .. m
    BY <1>1, <1>5, <2>2 DEF IsInjective
  <2>3. CASE i \notin 1 .. m /\ j \notin 1 .. m
    <3>1. /\ i \in m + 1 .. m + n /\ i - m \in 1 .. n
          /\ j \in m + 1 .. m + n /\ j - m \in 1 .. n
      BY <1>2, <2>3
    <3>2. t[i - m] = t[j - m]
      BY <1>1, <3>1
    <3>3. i - m = j - m
      BY <1>1, <1>5, <3>1, <3>2 DEF IsInjective
    <3> QED
      BY <1>1, <3>3
  <2>4. CASE i \in 1 .. m /\ j \notin 1 .. m
    <3>1. j \in m + 1 .. m + n /\ j - m \in 1 .. n
      BY <1>2, <2>4
    <3> QED
      BY <1>1, <2>1, <2>4, <3>1
  <2>5. CASE i \notin 1 .. m /\ j \in 1 .. m
    <3>1. i \in m + 1 .. m + n /\ i - m \in 1 .. n
      BY <1>2, <2>5
    <3> QED
      BY <1>1, <2>1, <2>5, <3>1
  <2> QED
    BY <2>2, <2>3, <2>4, <2>5
<1> QED
  BY <1>1, <1>4, <1>5 DEF st, m, n
=============================================================================
