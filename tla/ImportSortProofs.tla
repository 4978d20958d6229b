-------------------------- MODULE ImportSortProofs --------------------------
(***************************************************************************)
(* What ImportSort promises, for files of any length and any limits.       *)
(*                                                                         *)
(* Two files are Alike when every region (the lines between two that no    *)
(* import may cross) has the same code lines, as many comments, the same   *)
(* texts of imports, and as many imports unless duplicates are removed.    *)
(* Alike is kept by putting the same lines before or behind both files, so *)
(* that of a flush only the group matters: a sort moves its lines by a     *)
(* bijection, blank lines do not count with grouping, and the removal of   *)
(* duplicates is followed line by line from the end of the group.  That    *)
(* the lines collected are imports of one region is an invariant of the    *)
(* scan, Collected; that the file is Alike to the one the run was given is *)
(* the other, Kept.                                                        *)
(*                                                                         *)
(* That the groups end in order needs more of the scan (OrderInv): what it *)
(* has not seen is the end of the file as it was, so that it never takes   *)
(* two neighbours for far apart, and what it has left behind is in order   *)
(* and closed.  Of imports that start alike the last one stays, and so     *)
(* what stays differs from the line that was behind it.                    *)
(*                                                                         *)
(* A second run changes nothing (StableInv), since lines that are in order *)
(* have one order only: the order of the keys is total, so that a          *)
(* permutation that is in order too gives each place its key back, and the *)
(* blank lines of a group are those the grouping would put there.  Only a  *)
(* group that no newline ends may be out of order after the first run; it  *)
(* is then not flushed by the second one either.                           *)
(***************************************************************************)
EXTENDS ImportSort, SequenceTheorems, FunctionTheorems, FiniteSetTheorems, WellFoundedInduction, TLAPS

-----------------------------------------------------------------------------
(* Numbers                                                                 *)

LEMMA LeastNumber ==
  ASSUME NEW S \in SUBSET Nat, S # {}
  PROVE  \E n \in S : \A m \in S : n <= m
<1> DEFINE less == OpToRel(<, Nat)
<1>1. IsWellFoundedOn(less, Nat)
  BY NatLessThanWellFounded
<1>2. \A x, y \in Nat : x < y => <<x, y>> \in less
  BY DEF OpToRel
<1> HIDE DEF less
<1>3. PICK n \in S : \A m \in S : ~(<<m, n>> \in less)
  BY <1>1, WFMin
<1>4. \A m \in S : ~(m < n)
  BY <1>2, <1>3
<1> QED
  BY <1>4

\* Induction: what holds of a number is membership in a set.
LEMMA InductiveSet ==
  ASSUME NEW S, 0 \in S, \A n \in Nat : n \in S => n + 1 \in S
  PROVE  Nat \subseteq S
<1> SUFFICES ASSUME Nat \ S # {}
             PROVE  FALSE
  OBVIOUS
<1>1. PICK n \in Nat \ S : \A m \in Nat \ S : n <= m
  BY LeastNumber
<1>2. n # 0 /\ n - 1 \in Nat
  BY <1>1
<1>3. n - 1 \in S
  BY <1>1, <1>2
<1> QED
  BY <1>1, <1>2, <1>3

\* Recursion, as far as a number: each value from the one before.
Successors(n, X) == [1 .. n -> [X -> X]]

Recursive(f, n, X, x, step) ==
  f \in [0 .. n -> X] /\ f[0] = x /\ \A k \in 1 .. n : f[k] = step[k][f[k - 1]]

LEMMA RecursiveValues ==
  ASSUME NEW n \in Nat, NEW X, NEW x \in X, NEW step \in Successors(n, X)
  PROVE  \E f : Recursive(f, n, X, x, step)
<1> USE DEF Successors
<1> DEFINE Fits(f, m) ==
             f \in [0 .. m -> X] /\ f[0] = x /\ \A k \in 1 .. m : f[k] = step[k][f[k - 1]]
           S == {m \in Nat : m <= n => \E f : Fits(f, m)}
<1>1. 0 \in S
  <2>1. Fits([k \in 0 .. 0 |-> x], 0)
    OBVIOUS
  <2> QED
    BY <2>1
<1>2. ASSUME NEW m \in Nat, m \in S, m + 1 <= n
      PROVE  \E f : Fits(f, m + 1)
  <2>1. PICK f : Fits(f, m)
    BY <1>2
  <2> DEFINE v == step[m + 1][f[m]]
             g == [k \in 0 .. m + 1 |-> IF k <= m THEN f[k] ELSE v]
  <2>2. v \in X
    BY <1>2, <2>1
  <2> HIDE DEF v
  <2>3. g \in [0 .. m + 1 -> X] /\ \A k \in 0 .. m : g[k] = f[k]
    BY <2>1, <2>2
  <2>4. g[m + 1] = v
    OBVIOUS
  <2> HIDE DEF g
  <2>5. ASSUME NEW k \in 1 .. m + 1
        PROVE  g[k] = step[k][g[k - 1]]
    <3>1. CASE k <= m
      <4>1. k \in 1 .. m /\ k - 1 \in 0 .. m /\ k \in 0 .. m
        BY <3>1
      <4> QED
        BY <2>1, <2>3, <4>1
    <3>2. CASE k = m + 1
      <4>1. k - 1 = m /\ m \in 0 .. m
        BY <3>2
      <4> QED
        BY <2>3, <2>4, <3>2, <4>1 DEF v
    <3> QED
      BY <3>1, <3>2
  <2>6. Fits(g, m + 1)
    BY <2>1, <2>3, <2>5
  <2> QED
    BY <2>6
<1>3. \A m \in Nat : m \in S => m + 1 \in S
  <2> HIDE DEF Fits
  <2> QED
    BY <1>2
<1>4. Nat \subseteq S
  <2> HIDE DEF S
  <2> QED
    BY <1>1, <1>3, InductiveSet
<1>5. n \in S
  BY <1>4
<1> QED
  BY <1>5 DEF Recursive

-----------------------------------------------------------------------------
(* What the lines of a file add up to                                      *)

\* Region and the sets of the properties, as functions of the option b.
Ends(b, line) == line.kind = "code" \/ (~b /\ line.nl > 1)

EndsBefore(b, f, i) == {j \in 1 .. i - 1 : Ends(b, f[j])}

Count(b, f, i) == Cardinality(EndsBefore(b, f, i))

Total(b, f) == Count(b, f, Len(f) + 1)

\* The lines of a region that are in K.
Where(b, f, K, r) == {i \in DOMAIN f : f[i] \in K /\ Count(b, f, i) = r}

Tally(b, f, K, r) == Cardinality(Where(b, f, K, r))

LEMMA SeqFacts ==
  ASSUME NEW S, NEW s \in Seq(S)
  PROVE  Len(s) \in Nat /\ DOMAIN s = 1 .. Len(s) /\ \A i \in 1 .. Len(s) : s[i] \in S
  BY LenProperties, ElementOfSeq

LEMMA CountIsNumber ==
  ASSUME NEW b, NEW f, NEW i \in Int
  PROVE  Count(b, f, i) \in Nat /\ IsFiniteSet(EndsBefore(b, f, i))
<1>1. IsFiniteSet(1 .. i - 1)
  BY FS_Interval
<1>2. EndsBefore(b, f, i) \in SUBSET (1 .. i - 1)
  BY DEF EndsBefore
<1> QED
  BY <1>1, <1>2, FS_Subset, FS_CardinalityType DEF Count

LEMMA TotalIsNumber ==
  ASSUME NEW b, NEW f \in Seq(Line)
  PROVE  /\ Total(b, f) \in Nat /\ Total(b, f) = Cardinality(EndsBefore(b, f, Len(f) + 1))
         /\ EndsBefore(b, f, Len(f) + 1) = {j \in 1 .. Len(f) : Ends(b, f[j])}
         /\ IsFiniteSet(EndsBefore(b, f, Len(f) + 1))
<1>1. Len(f) + 1 \in Int /\ 1 .. Len(f) + 1 - 1 = 1 .. Len(f)
  BY SeqFacts
<1>2. Count(b, f, Len(f) + 1) \in Nat /\ IsFiniteSet(EndsBefore(b, f, Len(f) + 1))
  BY <1>1, CountIsNumber
<1>3. EndsBefore(b, f, Len(f) + 1) = {j \in 1 .. Len(f) : Ends(b, f[j])}
  BY <1>1 DEF EndsBefore
<1> QED
  BY <1>2, <1>3 DEF Total, Count

LEMMA TallyIsNumber ==
  ASSUME NEW b, NEW f \in Seq(Line), NEW K, NEW r
  PROVE  /\ Tally(b, f, K, r) \in Nat /\ IsFiniteSet(Where(b, f, K, r))
         /\ Tally(b, f, K, r) = 0 <=> Where(b, f, K, r) = {}
<1>1. IsFiniteSet(DOMAIN f)
  BY SeqFacts, FS_Interval
<1>2. Where(b, f, K, r) \in SUBSET DOMAIN f
  BY DEF Where
<1> QED
  BY <1>1, <1>2, FS_Subset, FS_CardinalityType, FS_EmptySet DEF Tally

LEMMA DisjointUnion ==
  ASSUME NEW S, NEW T, IsFiniteSet(S), IsFiniteSet(T), S \cap T = {}
  PROVE  /\ IsFiniteSet(S \cup T) /\ Cardinality(S \cup T) = Cardinality(S) + Cardinality(T)
         /\ Cardinality(S) \in Nat /\ Cardinality(T) \in Nat
<1>1. Cardinality(S \cap T) = 0 /\ Cardinality(S) \in Nat /\ Cardinality(T) \in Nat
  BY FS_EmptySet, FS_CardinalityType
<1>2. /\ IsFiniteSet(S \cup T)
      /\ Cardinality(S \cup T) = Cardinality(S) + Cardinality(T) - Cardinality(S \cap T)
  BY FS_Union
<1> QED
  BY <1>1, <1>2

\* A set of numbers moved along.
MovedBy(S, n, T) == (\A k \in S : k + n \in T) /\ (\A t \in T : t - n \in S)

LEMMA Shifted ==
  ASSUME NEW S \in SUBSET Int, IsFiniteSet(S), NEW n \in Int, NEW T \in SUBSET Int,
         MovedBy(S, n, T)
  PROVE  IsFiniteSet(T) /\ Cardinality(T) = Cardinality(S)
<1> DEFINE f == [k \in S |-> k + n]
<1>1. f \in [S -> T]
  BY DEF MovedBy
<1>2. \A k, l \in S : f[k] = f[l] => k = l
  <2> SUFFICES ASSUME NEW k \in S, NEW l \in S, k + n = l + n
               PROVE  k = l
    OBVIOUS
  <2>1. k \in Int /\ l \in Int
    OBVIOUS
  <2> QED
    BY <2>1
<1>3. ASSUME NEW t \in T
      PROVE  \E k \in S : f[k] = t
  <2>1. t - n \in S /\ (t - n) + n = t
    BY DEF MovedBy
  <2> QED
    BY <2>1
<1>4. f \in Bijection(S, T)
  BY <1>1, <1>2, <1>3 DEF Bijection, Injection, Surjection, IsInjective
<1>5. ExistsBijection(S, T)
  BY <1>4 DEF ExistsBijection
<1> QED
  BY <1>5, FS_Bijection

LEMMA SumSplit ==
  ASSUME NEW x, NEW t \in Int, NEW c \in Int, NEW r \in Int, x = t + c
  PROVE  x = r <=> c = r - t
  OBVIOUS

LEMMA CountOfConcat ==
  ASSUME NEW b, NEW f \in Seq(Line), NEW g \in Seq(Line), NEW i \in 1 .. Len(f) + Len(g) + 1
  PROVE  Count(b, f \o g, i) =
           IF i <= Len(f) + 1 THEN Count(b, f, i) ELSE Total(b, f) + Count(b, g, i - Len(f))
<1> DEFINE h == f \o g
           n == Len(f)
<1>1. /\ n \in Nat /\ Len(g) \in Nat /\ i \in Int
      /\ \A j \in 1 .. n + Len(g) : h[j] = IF j <= n THEN f[j] ELSE g[j - n]
  BY SeqFacts, ConcatProperties
<1>2. CASE i <= n + 1
  <2>1. EndsBefore(b, h, i) = EndsBefore(b, f, i)
    BY <1>1, <1>2 DEF EndsBefore
  <2> QED
    BY <2>1, <1>2 DEF Count
<1>3. CASE ~(i <= n + 1)
  <2> DEFINE A == EndsBefore(b, f, n + 1)
             B == EndsBefore(b, g, i - n)
             C == {j + n : j \in B}
  <2>6. A = {j \in 1 .. n : Ends(b, f[j])} /\ B = {j \in 1 .. i - n - 1 : Ends(b, g[j])}
    BY TotalIsNumber DEF EndsBefore
  <2>7. EndsBefore(b, h, i) = {j \in 1 .. i - 1 : Ends(b, h[j])}
    BY DEF EndsBefore
  <2> HIDE DEF A, B
  <2>1. EndsBefore(b, h, i) = A \cup C
    <3>1. ASSUME NEW j \in 1 .. i - 1, Ends(b, h[j])
          PROVE  j \in A \cup C
      <4>1. CASE j <= n
        BY <1>1, <2>6, <3>1, <4>1
      <4>2. CASE ~(j <= n)
        <5>1. j - n \in B /\ j = (j - n) + n
          BY <1>1, <2>6, <3>1, <4>2
        <5> QED
          BY <5>1
      <4> QED
        BY <4>1, <4>2
    <3>2. ASSUME NEW j \in A
          PROVE  j \in 1 .. i - 1 /\ Ends(b, h[j])
      BY <1>1, <1>3, <2>6
    <3>3. ASSUME NEW j \in B
          PROVE  j + n \in 1 .. i - 1 /\ Ends(b, h[j + n])
      <4>1. j + n \in n + 1 .. i - 1 /\ j + n - n = j
        BY <1>1, <1>3, <2>6
      <4> QED
        BY <1>1, <1>3, <2>6, <4>1
    <3> QED
      BY <2>7, <3>1, <3>2, <3>3
  <2>2. A \cap C = {}
    BY <1>1, <2>6
  <2>3. /\ IsFiniteSet(A) /\ Cardinality(A) = Total(b, f) /\ Total(b, f) \in Nat
        /\ IsFiniteSet(B) /\ Cardinality(B) = Count(b, g, i - n)
    <3>1. i - n \in Int
      BY <1>1
    <3>2. IsFiniteSet(B) /\ Cardinality(B) = Count(b, g, i - n)
      BY <3>1, CountIsNumber DEF Count, B
    <3> QED
      BY <3>2, TotalIsNumber DEF A
  <2>4. IsFiniteSet(C) /\ Cardinality(C) = Cardinality(B)
    <3>1. B \in SUBSET Int /\ C \in SUBSET Int
      BY <1>1, <2>6
    <3>2. MovedBy(B, n, C)
      <4>1. ASSUME NEW t \in C
            PROVE  t - n \in B
        <5>1. PICK k \in B : t = k + n
          OBVIOUS
        <5>2. t - n = k
          BY <1>1, <2>6, <5>1
        <5> QED
          BY <5>2
      <4> QED
        BY <4>1 DEF MovedBy
    <3> HIDE DEF B, C
    <3>3. n \in Int
      BY <1>1
    <3> QED
      BY <2>3, <3>1, <3>2, <3>3, Shifted
  <2>5. Cardinality(A \cup C) = Cardinality(A) + Cardinality(C)
    <3> HIDE DEF A, C
    <3> QED
      BY <2>2, <2>3, <2>4, DisjointUnion
  <2> QED
    BY <1>3, <2>1, <2>3, <2>4, <2>5 DEF Count
<1> QED
  BY <1>2, <1>3

LEMMA TotalOfConcat ==
  ASSUME NEW b, NEW f \in Seq(Line), NEW g \in Seq(Line)
  PROVE  Total(b, f \o g) = Total(b, f) + Total(b, g)
<1>1. Len(f) \in Nat /\ Len(g) \in Nat /\ Len(f \o g) = Len(f) + Len(g)
  BY SeqFacts, ConcatProperties
<1>2. Total(b, f) \in Nat
  BY TotalIsNumber
<1>3. CASE Len(g) = 0
  <2>1. EndsBefore(b, g, Len(g) + 1) = {}
    <3>1. 1 .. Len(g) + 1 - 1 = {}
      BY <1>1, <1>3
    <3> QED
      BY <3>1 DEF EndsBefore
  <2>2. Total(b, g) = 0
    BY <2>1, FS_EmptySet, TotalIsNumber
  <2> QED
    BY <1>1, <1>2, <1>3, <2>2, CountOfConcat DEF Total
<1>4. CASE Len(g) # 0
  <2>1. /\ Len(f \o g) + 1 \in 1 .. Len(f) + Len(g) + 1 /\ ~(Len(f \o g) + 1 <= Len(f) + 1)
        /\ Len(f \o g) + 1 - Len(f) = Len(g) + 1
    BY <1>1, <1>4
  <2>2. Count(b, f \o g, Len(f \o g) + 1) = Total(b, f) + Count(b, g, Len(f \o g) + 1 - Len(f))
    BY <2>1, CountOfConcat
  <2> QED
    BY <2>1, <2>2 DEF Total
<1> QED
  BY <1>3, <1>4

LEMMA WhereOfConcat ==
  ASSUME NEW b, NEW f \in Seq(Line), NEW g \in Seq(Line), NEW K, NEW r \in Int
  PROVE  LET whole == Where(b, f \o g, K, r)
             left  == Where(b, f, K, r)
             right == Where(b, g, K, r - Total(b, f))
         IN  /\ left \subseteq whole
             /\ \A k \in right : k + Len(f) \in whole
             /\ \A i \in whole : i \in left \/ i - Len(f) \in right
<1> DEFINE h == f \o g
           n == Len(f)
           B == Where(b, g, K, r - Total(b, f))
<1>1. /\ n \in Nat /\ Len(g) \in Nat
      /\ DOMAIN f = 1 .. n /\ DOMAIN g = 1 .. Len(g) /\ DOMAIN h = 1 .. n + Len(g)
      /\ \A j \in 1 .. n + Len(g) : h[j] = IF j <= n THEN f[j] ELSE g[j - n]
  BY SeqFacts, ConcatProperties
<1>2. Total(b, f) \in Nat /\ \A k \in Int : Count(b, g, k) \in Nat
  BY CountIsNumber, TotalIsNumber
<1>3. ASSUME NEW i \in 1 .. n
      PROVE  i \in Where(b, h, K, r) <=> i \in Where(b, f, K, r)
  <2>1. i \in 1 .. n + Len(g) + 1 /\ i <= n + 1
    BY <1>1
  <2>2. Count(b, h, i) = Count(b, f, i)
    BY <2>1, CountOfConcat
  <2>3. h[i] = f[i] /\ i \in DOMAIN f /\ i \in DOMAIN h
    BY <1>1
  <2> QED
    BY <2>2, <2>3 DEF Where
<1>4. ASSUME NEW i \in n + 1 .. n + Len(g)
      PROVE  i \in Where(b, h, K, r) <=> i - n \in B
  <2>1. h[i] = g[i - n]
    BY <1>1
  <2>2. Count(b, h, i) = Total(b, f) + Count(b, g, i - n)
    <3>1. CASE i = n + 1
      <4>1. EndsBefore(b, g, i - n) = {}
        BY <1>1, <3>1 DEF EndsBefore
      <4>2. Count(b, g, i - n) = 0
        BY <4>1, FS_EmptySet DEF Count
      <4>3. Count(b, h, i) = Total(b, f)
        BY <1>1, <3>1, CountOfConcat DEF Total
      <4> QED
        BY <1>2, <4>2, <4>3
    <3>2. CASE i # n + 1
      BY <1>1, <3>2, CountOfConcat
    <3> QED
      BY <3>1, <3>2
  <2>3. i - n \in DOMAIN g /\ i \in DOMAIN h /\ i - n \in Int
    BY <1>1
  <2>4. Count(b, g, i - n) \in Nat
    BY <1>2, <2>3
  <2>5. Count(b, h, i) = r <=> Count(b, g, i - n) = r - Total(b, f)
    <3> HIDE DEF h
    <3>1. Total(b, f) \in Int /\ Count(b, g, i - n) \in Int
      BY <1>2, <2>4
    <3> QED
      BY <2>2, <3>1, SumSplit
  <2> QED
    BY <2>1, <2>3, <2>5 DEF Where
<1>5. /\ Where(b, h, K, r) \subseteq 1 .. n + Len(g) /\ Where(b, f, K, r) \subseteq 1 .. n
      /\ B \subseteq 1 .. Len(g)
  BY <1>1 DEF Where
<1>6. ASSUME NEW i \in Where(b, h, K, r)
      PROVE  i \in Where(b, f, K, r) \/ i - n \in B
  <2> HIDE DEF B, h
  <2>1. CASE i <= n
    BY <1>1, <1>3, <1>5, <1>6, <2>1
  <2>2. CASE ~(i <= n)
    BY <1>1, <1>4, <1>5, <1>6, <2>2
  <2> QED
    BY <2>1, <2>2
<1>7. ASSUME NEW k \in B
      PROVE  k + n \in Where(b, h, K, r)
  <2> HIDE DEF B, h
  <2> DEFINE i == k + n
  <2>1. i \in n + 1 .. n + Len(g) /\ i - n = k
    BY <1>1, <1>5
  <2>2. i \in Where(b, h, K, r) <=> i - n \in B
    BY <1>4, <2>1
  <2> QED
    BY <2>1, <2>2
<1>8. ASSUME NEW i \in Where(b, f, K, r)
      PROVE  i \in Where(b, h, K, r)
  BY <1>3, <1>5
<1> HIDE DEF B, h
<1> QED
  BY <1>6, <1>7, <1>8 DEF B, h

LEMMA TallyOfConcat ==
  ASSUME NEW b, NEW f \in Seq(Line), NEW g \in Seq(Line), NEW K, NEW r \in Int
  PROVE  Tally(b, f \o g, K, r) = Tally(b, f, K, r) + Tally(b, g, K, r - Total(b, f))
<1> DEFINE A == Where(b, f, K, r)
           B == Where(b, g, K, r - Total(b, f))
           n == Len(f)
           C == {k + n : k \in B}
<1>1. n \in Nat /\ A \subseteq 1 .. n /\ B \subseteq 1 .. Len(g) /\ Len(g) \in Nat
  BY SeqFacts DEF Where
<1>2. IsFiniteSet(A) /\ IsFiniteSet(B)
  BY TallyIsNumber
<1>3. Where(b, f \o g, K, r) = A \cup C
  <2>1. /\ A \subseteq Where(b, f \o g, K, r) /\ \A k \in B : k + n \in Where(b, f \o g, K, r)
        /\ \A i \in Where(b, f \o g, K, r) : i \in A \/ i - n \in B
    BY WhereOfConcat
  <2>2. \A i \in Where(b, f \o g, K, r) : i \in Int
    BY SeqFacts, ConcatProperties DEF Where
  <2>3. ASSUME NEW i \in Where(b, f \o g, K, r), i - n \in B
        PROVE  i \in C
    <3>1. (i - n) + n = i
      BY <1>1, <2>2
    <3> QED
      BY <2>3, <3>1
  <2> HIDE DEF A, B
  <2> QED
    BY <2>1, <2>3
<1> HIDE DEF A, B
<1>4. IsFiniteSet(C) /\ Cardinality(C) = Cardinality(B)
  <2>1. B \in SUBSET Int /\ C \in SUBSET Int
    BY <1>1
  <2>2. ASSUME NEW t \in C
        PROVE  t - n \in B
    <3>1. PICK k \in B : t = k + n
      OBVIOUS
    <3>2. t - n = k
      BY <1>1, <2>1, <3>1
    <3> QED
      BY <3>2
  <2>3. MovedBy(B, n, C) /\ n \in Int
    BY <1>1, <2>2 DEF MovedBy
  <2> HIDE DEF C
  <2> QED
    BY <1>2, <2>1, <2>3, Shifted
<1>5. A \cap C = {}
  BY <1>1
<1> HIDE DEF C
<1>6. Cardinality(A \cup C) = Cardinality(A) + Cardinality(C)
  BY <1>2, <1>4, <1>5, DisjointUnion
<1> QED
  BY <1>3, <1>4, <1>6 DEF Tally, A, B

-----------------------------------------------------------------------------
(* Files that hold the same imports, comments and code in each region      *)

CodeLines == {line \in Line : line.kind = "code"}
ImportLines == {line \in Line : IsImport(line)}
Commented == {line \in Line : line.comment}
WithText(t) == {line \in Line : IsImport(line) /\ line.text = t}

\* What there are as many of in both files, and what there is of in both.
Counted(b) == {{c} : c \in CodeLines} \cup {Commented} \cup {K \in {ImportLines} : ~b}
Occurring == {WithText(t) : t \in Seq(Nat \ {0})}

Alike(b, f, g) ==
  /\ Total(b, f) = Total(b, g)
  /\ \A r \in Int :
       /\ \A K \in Counted(b) : Tally(b, f, K, r) = Tally(b, g, K, r)
       /\ \A K \in Occurring : Tally(b, f, K, r) = 0 <=> Tally(b, g, K, r) = 0

LEMMA AlikeItself ==
  ASSUME NEW b, NEW f
  PROVE  Alike(b, f, f)
  BY DEF Alike

LEMMA AlikeTransitive ==
  ASSUME NEW b, NEW f, NEW g, NEW h, Alike(b, f, g), Alike(b, g, h)
  PROVE  Alike(b, f, h)
<1> HIDE DEF Counted, Occurring
<1> QED
  BY DEF Alike

LEMMA AlikeBehind ==
  ASSUME NEW b, NEW p \in Seq(Line), NEW f \in Seq(Line), NEW g \in Seq(Line), Alike(b, f, g)
  PROVE  Alike(b, p \o f, p \o g)
<1>1. Total(b, p \o f) = Total(b, p \o g)
  BY TotalOfConcat DEF Alike
<1>2. ASSUME NEW r \in Int, NEW K
      PROVE  /\ r - Total(b, p) \in Int
             /\ Tally(b, p \o f, K, r) = Tally(b, p, K, r) + Tally(b, f, K, r - Total(b, p))
             /\ Tally(b, p \o g, K, r) = Tally(b, p, K, r) + Tally(b, g, K, r - Total(b, p))
             /\ Tally(b, p, K, r) \in Nat
             /\ Tally(b, f, K, r - Total(b, p)) \in Nat
             /\ Tally(b, g, K, r - Total(b, p)) \in Nat
  <2>1. r - Total(b, p) \in Int
    BY TotalIsNumber
  <2>2. /\ Tally(b, p \o f, K, r) = Tally(b, p, K, r) + Tally(b, f, K, r - Total(b, p))
        /\ Tally(b, p \o g, K, r) = Tally(b, p, K, r) + Tally(b, g, K, r - Total(b, p))
    BY TallyOfConcat
  <2>3. \A s : Tally(b, p, K, s) \in Nat /\ Tally(b, f, K, s) \in Nat /\ Tally(b, g, K, s) \in Nat
    BY TallyIsNumber
  <2> QED
    BY <2>1, <2>2, <2>3
<1>3. ASSUME NEW r \in Int, NEW K \in Counted(b)
      PROVE  Tally(b, p \o f, K, r) = Tally(b, p \o g, K, r)
  BY <1>2 DEF Alike
<1>4. ASSUME NEW r \in Int, NEW K \in Occurring
      PROVE  Tally(b, p \o f, K, r) = 0 <=> Tally(b, p \o g, K, r) = 0
  <2>1. Tally(b, f, K, r - Total(b, p)) = 0 <=> Tally(b, g, K, r - Total(b, p)) = 0
    BY <1>2 DEF Alike
  <2> QED
    BY <1>2, <2>1
<1> QED
  BY <1>1, <1>3, <1>4 DEF Alike

LEMMA AlikeBefore ==
  ASSUME NEW b, NEW q \in Seq(Line), NEW f \in Seq(Line), NEW g \in Seq(Line), Alike(b, f, g)
  PROVE  Alike(b, f \o q, g \o q)
<1>1. Total(b, f \o q) = Total(b, g \o q)
  BY TotalOfConcat DEF Alike
<1>2. ASSUME NEW r \in Int, NEW K
      PROVE  /\ Tally(b, f \o q, K, r) = Tally(b, f, K, r) + Tally(b, q, K, r - Total(b, f))
             /\ Tally(b, g \o q, K, r) = Tally(b, g, K, r) + Tally(b, q, K, r - Total(b, f))
             /\ Tally(b, f, K, r) \in Nat /\ Tally(b, g, K, r) \in Nat
             /\ Tally(b, q, K, r - Total(b, f)) \in Nat
  <2>1. Total(b, f) = Total(b, g)
    BY DEF Alike
  <2>2. /\ Tally(b, f \o q, K, r) = Tally(b, f, K, r) + Tally(b, q, K, r - Total(b, f))
        /\ Tally(b, g \o q, K, r) = Tally(b, g, K, r) + Tally(b, q, K, r - Total(b, g))
    BY TallyOfConcat
  <2>3. \A s : Tally(b, q, K, s) \in Nat /\ Tally(b, f, K, s) \in Nat /\ Tally(b, g, K, s) \in Nat
    BY TallyIsNumber
  <2> QED
    BY <2>1, <2>2, <2>3
<1>3. ASSUME NEW r \in Int, NEW K \in Counted(b)
      PROVE  Tally(b, f \o q, K, r) = Tally(b, g \o q, K, r)
  BY <1>2 DEF Alike
<1>4. ASSUME NEW r \in Int, NEW K \in Occurring
      PROVE  Tally(b, f \o q, K, r) = 0 <=> Tally(b, g \o q, K, r) = 0
  <2>1. Tally(b, f, K, r) = 0 <=> Tally(b, g, K, r) = 0
    BY DEF Alike
  <2> QED
    BY <1>2, <2>1
<1> QED
  BY <1>1, <1>3, <1>4 DEF Alike

-----------------------------------------------------------------------------
(* Groups                                                                  *)

\* No line but the last one ends a region.
OneRegion(b, g) == \A i \in 1 .. Len(g) - 1 : ~Ends(b, g[i])

In(g, K) == {i \in DOMAIN g : g[i] \in K}

LEMMA WhereInGroup ==
  ASSUME NEW b, NEW g \in Seq(Line), OneRegion(b, g), NEW K, NEW r
  PROVE  Where(b, g, K, r) = IF r = 0 THEN In(g, K) ELSE {}
<1>1. ASSUME NEW i \in DOMAIN g
      PROVE  Count(b, g, i) = 0
  <2>1. i \in 1 .. Len(g) /\ Len(g) \in Nat
    BY SeqFacts
  <2>2. EndsBefore(b, g, i) = {}
    BY <2>1 DEF EndsBefore, OneRegion
  <2> QED
    BY <2>2, FS_EmptySet DEF Count
<1> QED
  BY <1>1 DEF Where, In

LEMMA AlikeGroups ==
  ASSUME NEW b, NEW g \in Seq(Line), NEW h \in Seq(Line),
         OneRegion(b, g), OneRegion(b, h), Total(b, g) = Total(b, h),
         \A K \in Counted(b) : Cardinality(In(g, K)) = Cardinality(In(h, K)),
         \A K \in Occurring : In(g, K) = {} <=> In(h, K) = {}
  PROVE  Alike(b, g, h)
<1>3. ASSUME NEW K, NEW r \in Int
      PROVE  /\ Where(b, g, K, r) = IF r = 0 THEN In(g, K) ELSE {}
             /\ Where(b, h, K, r) = IF r = 0 THEN In(h, K) ELSE {}
             /\ Tally(b, g, K, r) = 0 <=> Where(b, g, K, r) = {}
             /\ Tally(b, h, K, r) = 0 <=> Where(b, h, K, r) = {}
  <2>1. /\ Where(b, g, K, r) = IF r = 0 THEN In(g, K) ELSE {}
        /\ Where(b, h, K, r) = IF r = 0 THEN In(h, K) ELSE {}
    BY WhereInGroup
  <2> QED
    BY <2>1, TallyIsNumber
<1>1. ASSUME NEW K \in Counted(b), NEW r \in Int
      PROVE  Tally(b, g, K, r) = Tally(b, h, K, r)
  <2>1. Cardinality(In(g, K)) = Cardinality(In(h, K))
    OBVIOUS
  <2> QED
    BY <1>3, <2>1 DEF Tally
<1>2. ASSUME NEW K \in Occurring, NEW r \in Int
      PROVE  Tally(b, g, K, r) = 0 <=> Tally(b, h, K, r) = 0
  BY <1>3
<1> QED
  BY <1>1, <1>2 DEF Alike

\* The newline of an import is not looked at.
LEMMA NlIgnored ==
  ASSUME NEW b, NEW line \in Line, IsImport(line), NEW n \in Nat
  PROVE  /\ [line EXCEPT !.nl = n] \in Line /\ IsImport([line EXCEPT !.nl = n])
         /\ [line EXCEPT !.nl = n].text = line.text
         /\ \A K \in Counted(b) \cup Occurring : [line EXCEPT !.nl = n] \in K <=> line \in K
<1> DEFINE other == [line EXCEPT !.nl = n]
<1>1. /\ other \in Line /\ other.kind = line.kind /\ other.text = line.text
      /\ other.comment = line.comment
  BY DEF Line
<1>2. line.kind = "import" /\ "import" # "code"
  BY DEF IsImport
<1> HIDE DEF other
<1>3. ASSUME NEW c \in CodeLines
      PROVE  other \notin {c} /\ line \notin {c}
  BY <1>1, <1>2 DEF CodeLines
<1>4. other \in Commented <=> line \in Commented
  BY <1>1 DEF Commented
<1>5. other \in ImportLines <=> line \in ImportLines
  BY <1>1 DEF ImportLines, IsImport
<1>6. ASSUME NEW t
      PROVE  other \in WithText(t) <=> line \in WithText(t)
  BY <1>1 DEF WithText, IsImport
<1>7. ASSUME NEW K \in Counted(b)
      PROVE  other \in K <=> line \in K
  <2>1. CASE K \in {{c} : c \in CodeLines}
    BY <1>3, <2>1
  <2>2. CASE K = Commented
    BY <1>4, <2>2
  <2>3. CASE K = ImportLines
    BY <1>5, <2>3
  <2> QED
    BY <2>1, <2>2, <2>3 DEF Counted
<1>8. ASSUME NEW K \in Occurring
      PROVE  other \in K <=> line \in K
  BY <1>6 DEF Occurring
<1>9. IsImport(other)
  BY <1>1, <1>2 DEF IsImport
<1> USE DEF other
<1> QED
  BY <1>1, <1>7, <1>8, <1>9

LEMMA PermutedCount ==
  ASSUME NEW n \in Nat, NEW p \in [1 .. n -> 1 .. n],
         \A i, j \in 1 .. n : p[i] = p[j] => i = j,
         NEW A \in SUBSET (1 .. n)
  PROVE  /\ Cardinality({i \in 1 .. n : p[i] \in A}) = Cardinality(A)
         /\ \A k \in 1 .. n : \E i \in 1 .. n : p[i] = k
<1>1. IsFiniteSet(1 .. n)
  BY FS_Interval
<1>2. p \in Injection(1 .. n, 1 .. n)
  BY DEF Injection, IsInjective
<1>3. p \in Surjection(1 .. n, 1 .. n)
  BY <1>1, <1>2, FS_Injection
<1>4. \A k \in 1 .. n : \E i \in 1 .. n : p[i] = k
  BY <1>3 DEF Surjection
<1> DEFINE B == {i \in 1 .. n : p[i] \in A}
           q == [i \in B |-> p[i]]
<1>5. q \in [B -> A] /\ \A i, j \in B : q[i] = q[j] => i = j
  OBVIOUS
<1>6. \A k \in A : \E i \in B : q[i] = k
  BY <1>4
<1>7. q \in Bijection(B, A)
  BY <1>5, <1>6 DEF Bijection, Injection, Surjection, IsInjective
<1>8. IsFiniteSet(B)
  BY <1>1, FS_Subset
<1>9. ExistsBijection(B, A)
  BY <1>7 DEF ExistsBijection
<1>10. Cardinality(B) = Cardinality(A)
  BY <1>8, <1>9, FS_Bijection
<1> QED
  BY <1>4, <1>10

\* Imports, and nothing but imports.
Group(b, g) ==
  /\ g \in Files /\ OneRegion(b, g)
  /\ \A i \in DOMAIN g : IsImport(g[i])

\* The lines of g in the order p, with the newlines n.
Moved(b, g, p, n, h) ==
  /\ p \in [DOMAIN g -> DOMAIN g] /\ \A i, j \in DOMAIN g : p[i] = p[j] => i = j
  /\ n \in [DOMAIN g -> Nat] /\ \A i \in DOMAIN g : b \/ n[i] = g[i].nl
  /\ h = [i \in DOMAIN g |-> [g[p[i]] EXCEPT !.nl = n[i]]]

\* What sorting and the changes of blank lines do: the imports are put into any
\* order, and the newlines stay where they are unless only code ends a region.
LEMMA LinesMoved ==
  ASSUME NEW b, NEW g, Group(b, g), NEW p, NEW n, NEW h, Moved(b, g, p, n, h)
  PROVE  /\ Group(b, h) /\ Len(h) = Len(g) /\ DOMAIN h = DOMAIN g /\ Alike(b, g, h)
         /\ \A i \in DOMAIN g : h[i].text = g[p[i]].text
<1>1. g \in Seq(Line) /\ Len(g) \in Nat /\ DOMAIN g = 1 .. Len(g) /\ \A i \in DOMAIN g : g[i] \in Line
  BY SeqFacts DEF Group, Files
<1>10. /\ p \in [DOMAIN g -> DOMAIN g] /\ \A i, j \in DOMAIN g : p[i] = p[j] => i = j
       /\ n \in [DOMAIN g -> Nat] /\ \A i \in DOMAIN g : b \/ n[i] = g[i].nl
       /\ h = [i \in DOMAIN g |-> [g[p[i]] EXCEPT !.nl = n[i]]]
  BY DEF Moved
<1>2. ASSUME NEW i \in DOMAIN g
      PROVE  /\ h[i] = [g[p[i]] EXCEPT !.nl = n[i]]
             /\ h[i] \in Line /\ IsImport(h[i]) /\ h[i].text = g[p[i]].text
             /\ h[i].text # <<>>
             /\ \A K \in Counted(b) \cup Occurring : h[i] \in K <=> g[p[i]] \in K
  <2>1. /\ h[i] = [g[p[i]] EXCEPT !.nl = n[i]] /\ p[i] \in DOMAIN g /\ n[i] \in Nat
        /\ g[p[i]] \in Line /\ IsImport(g[p[i]]) /\ g[p[i]].text # <<>>
    BY <1>1, <1>10 DEF Group, Files
  <2>2. /\ [g[p[i]] EXCEPT !.nl = n[i]] \in Line /\ IsImport([g[p[i]] EXCEPT !.nl = n[i]])
        /\ [g[p[i]] EXCEPT !.nl = n[i]].text = g[p[i]].text
        /\ \A K \in Counted(b) \cup Occurring : [g[p[i]] EXCEPT !.nl = n[i]] \in K <=> g[p[i]] \in K
    <3> DEFINE line == g[p[i]]
               m == n[i]
    <3> HIDE DEF line, m
    <3>1. line \in Line /\ IsImport(line) /\ m \in Nat
      BY <2>1 DEF line, m
    <3>2. /\ [line EXCEPT !.nl = m] \in Line /\ IsImport([line EXCEPT !.nl = m])
          /\ [line EXCEPT !.nl = m].text = line.text
          /\ \A K \in Counted(b) \cup Occurring : [line EXCEPT !.nl = m] \in K <=> line \in K
      BY <3>1, NlIgnored
    <3> QED
      BY <3>2 DEF line, m
  <2> HIDE DEF Counted, Occurring
  <2> QED
    BY <2>1, <2>2
<1>3. DOMAIN h = DOMAIN g /\ h \in Seq(Line) /\ Len(h) = Len(g)
  <2>1. h \in [1 .. Len(g) -> Line]
    BY <1>1, <1>2, <1>10
  <2> QED
    BY <1>1, <2>1
<1>4. ASSUME NEW i \in DOMAIN g
      PROVE  Ends(b, h[i]) <=> Ends(b, g[i])
  <2>1. h[i].kind # "code" /\ g[i].kind # "code"
    BY <1>2 DEF Group, IsImport
  <2>2. b \/ h[i].nl = g[i].nl
    <3>1. g[p[i]] \in Line
      BY <1>1, <1>10
    <3>3. h[i] = [g[p[i]] EXCEPT !.nl = n[i]]
      BY <1>10
    <3>2. h[i].nl = n[i]
      BY <3>1, <3>3 DEF Line
    <3> QED
      BY <1>10, <3>2
  <2> QED
    BY <2>1, <2>2 DEF Ends
<1>5. OneRegion(b, h) /\ Total(b, g) = Total(b, h)
  <2>1. OneRegion(b, h)
    BY <1>1, <1>3, <1>4 DEF OneRegion, Group
  <2>2. EndsBefore(b, h, Len(h) + 1) = EndsBefore(b, g, Len(g) + 1)
    <3>1. 1 .. Len(g) + 1 - 1 = DOMAIN g
      BY <1>1
    <3> QED
      BY <1>3, <1>4, <3>1 DEF EndsBefore
  <2> QED
    BY <2>1, <2>2 DEF Total, Count
<1>6. ASSUME NEW K \in Counted(b) \cup Occurring
      PROVE  /\ Cardinality(In(h, K)) = Cardinality(In(g, K))
             /\ In(h, K) = {} <=> In(g, K) = {}
  <2> DEFINE A == In(g, K)
  <2>1. A \in SUBSET (1 .. Len(g)) /\ p \in [1 .. Len(g) -> 1 .. Len(g)] /\ Len(g) \in Nat
    BY <1>1, <1>10 DEF In
  <2>2. In(h, K) = {i \in 1 .. Len(g) : p[i] \in A}
    BY <1>1, <1>2, <1>3, <1>10 DEF In
  <2>3. \A i, j \in 1 .. Len(g) : p[i] = p[j] => i = j
    BY <1>1, <1>10
  <2> HIDE DEF A
  <2>4. /\ Cardinality({i \in 1 .. Len(g) : p[i] \in A}) = Cardinality(A)
        /\ \A k \in 1 .. Len(g) : \E i \in 1 .. Len(g) : p[i] = k
    BY <2>1, <2>3, PermutedCount
  <2>5. Cardinality(In(h, K)) = Cardinality(A)
    BY <2>2, <2>4
  <2>6. In(h, K) = {} <=> A = {}
    <3>1. ASSUME NEW k \in A
          PROVE  In(h, K) # {}
      BY <2>1, <2>2, <2>4
    <3>2. ASSUME NEW i \in In(h, K)
          PROVE  A # {}
      BY <2>2
    <3> QED
      BY <3>1, <3>2
  <2> QED
    BY <2>5, <2>6 DEF A
<1>7. h \in Files
  BY <1>2, <1>3 DEF Files
<1>8. Group(b, h)
  BY <1>2, <1>3, <1>5, <1>7 DEF Group
<1>9. Alike(b, g, h)
  <2>1. OneRegion(b, g) /\ OneRegion(b, h) /\ Total(b, g) = Total(b, h)
    BY <1>5 DEF Group
  <2> QED
    BY <1>1, <1>3, <1>6, <2>1, AlikeGroups
<1> QED
  BY <1>2, <1>3, <1>8, <1>9

LEMMA SortedAlike ==
  ASSUME NEW b, NEW g, Group(b, g), NEW h \in Sortings(g)
  PROVE  /\ Group(b, h) /\ Len(h) = Len(g) /\ DOMAIN h = DOMAIN g /\ Alike(b, g, h)
         /\ \A i \in DOMAIN h : \E j \in DOMAIN g : h[i].text = g[j].text
<1>1. PICK p \in [DOMAIN g -> DOMAIN g] :
        /\ \A i, j \in DOMAIN g : p[i] = p[j] => i = j
        /\ h = [i \in DOMAIN g |-> [g[p[i]] EXCEPT !.nl = g[i].nl]]
  BY DEF Sortings
<1> DEFINE n == [i \in DOMAIN g |-> g[i].nl]
<1>2. \A i \in DOMAIN g : g[i] \in Line
  BY SeqFacts DEF Group, Files
<1>3. n \in [DOMAIN g -> Nat] /\ \A i \in DOMAIN g : n[i] = g[i].nl
  BY <1>2 DEF Line
<1>4. h = [i \in DOMAIN g |-> [g[p[i]] EXCEPT !.nl = n[i]]]
  BY <1>1
<1> HIDE DEF n
<1>5. /\ Group(b, h) /\ Len(h) = Len(g) /\ DOMAIN h = DOMAIN g /\ Alike(b, g, h)
      /\ \A i \in DOMAIN g : h[i].text = g[p[i]].text
  <2>1. Moved(b, g, p, n, h)
    BY <1>1, <1>3, <1>4 DEF Moved
  <2> QED
    BY <2>1, LinesMoved
<1> QED
  BY <1>5

OnlyCodeEnds(b) == b = TRUE

\* Only the newlines are changed, and only code ends a region.
Respaced(g, n, h) ==
  n \in [DOMAIN g -> Nat] /\ h = [i \in DOMAIN g |-> [g[i] EXCEPT !.nl = n[i]]]

LEMMA RespacedAlike ==
  ASSUME NEW b, OnlyCodeEnds(b), NEW g, Group(b, g), NEW h, NEW n, Respaced(g, n, h)
  PROVE  /\ Group(b, h) /\ Len(h) = Len(g) /\ DOMAIN h = DOMAIN g /\ Alike(b, g, h)
         /\ \A i \in DOMAIN g : h[i].text = g[i].text
<1> DEFINE p == [i \in DOMAIN g |-> i]
<1>1. p \in [DOMAIN g -> DOMAIN g] /\ \A i, j \in DOMAIN g : p[i] = p[j] => i = j
  OBVIOUS
<1>2. h = [i \in DOMAIN g |-> [g[p[i]] EXCEPT !.nl = n[i]]] /\ \A i \in DOMAIN g : p[i] = i
  BY DEF Respaced
<1> HIDE DEF p
<1>3. /\ Group(b, h) /\ Len(h) = Len(g) /\ DOMAIN h = DOMAIN g /\ Alike(b, g, h)
      /\ \A i \in DOMAIN g : h[i].text = g[p[i]].text
  <2>1. Moved(b, g, p, n, h)
    BY <1>1, <1>2 DEF Moved, Respaced, OnlyCodeEnds
  <2> QED
    BY <2>1, LinesMoved
<1> QED
  BY <1>2, <1>3

LEMMA SameNl ==
  ASSUME NEW line \in Line
  PROVE  line = [line EXCEPT !.nl = line.nl] /\ line.nl \in Nat
  BY DEF Line

LEMMA JoinedAlike ==
  ASSUME NEW b, OnlyCodeEnds(b), NEW g, Group(b, g)
  PROVE  /\ Group(b, Joined(g)) /\ Len(Joined(g)) = Len(g) /\ DOMAIN Joined(g) = DOMAIN g
         /\ Alike(b, g, Joined(g))
         /\ \A i \in DOMAIN g : Joined(g)[i].text = g[i].text
<1> DEFINE n == [i \in DOMAIN g |-> IF i < Len(g) THEN 1 ELSE g[i].nl]
<1>1. \A i \in DOMAIN g : g[i] \in Line /\ g[i] = [g[i] EXCEPT !.nl = g[i].nl] /\ g[i].nl \in Nat
  BY SeqFacts, SameNl DEF Group, Files
<1>2. n \in [DOMAIN g -> Nat]
  BY <1>1
<1>3. Joined(g) = [i \in DOMAIN g |-> [g[i] EXCEPT !.nl = n[i]]]
  BY <1>1 DEF Joined
<1>5. Respaced(g, n, Joined(g))
  BY <1>2, <1>3 DEF Respaced
<1> HIDE DEF n
<1> QED
  BY <1>5, RespacedAlike

LEMMA GroupedAlike ==
  ASSUME NEW b, OnlyCodeEnds(b), NEW g, Group(b, g)
  PROVE  /\ Group(b, Grouped(g)) /\ Len(Grouped(g)) = Len(g) /\ DOMAIN Grouped(g) = DOMAIN g
         /\ Alike(b, g, Grouped(g))
         /\ \A i \in DOMAIN g : Grouped(g)[i].text = g[i].text
<1> DEFINE set(i) == i < Len(g) /\ g[i].nl < 2 /\ Apart(g[i].text, g[i + 1].text)
           n == [i \in DOMAIN g |-> IF set(i) THEN 2 ELSE g[i].nl]
<1>1. \A i \in DOMAIN g : g[i] \in Line /\ g[i] = [g[i] EXCEPT !.nl = g[i].nl] /\ g[i].nl \in Nat
  BY SeqFacts, SameNl DEF Group, Files
<1>2. n \in [DOMAIN g -> Nat]
  <2> HIDE DEF set
  <2> QED
    BY <1>1
<1>3. Grouped(g) = [i \in DOMAIN g |-> IF set(i) THEN [g[i] EXCEPT !.nl = 2] ELSE g[i]]
  BY DEF Grouped
<1>4. Grouped(g) = [i \in DOMAIN g |-> [g[i] EXCEPT !.nl = n[i]]]
  <2> HIDE DEF set
  <2> QED
    BY <1>1, <1>3
<1>5. Respaced(g, n, Grouped(g))
  BY <1>2, <1>4 DEF Respaced
<1> HIDE DEF n
<1> QED
  BY <1>5, RespacedAlike

-----------------------------------------------------------------------------
(* Duplicates                                                              *)

\* What dedupe_imports() leaves of the lines up to each one.
LEMMA Flattened ==
  ASSUME NEW S, NEW s \in Seq(Seq(S)), Len(s) > 0
  PROVE  \E f \in [1 .. Len(s) -> Seq(S)] :
           /\ f[1] = s[1] /\ \A i \in 2 .. Len(s) : f[i] = f[i - 1] \o s[i]
           /\ FlattenSeq(s) = f[Len(s)]
<1> DEFINE n == Len(s)
           Flat(fl) == fl = [i \in 1 .. n |-> IF i = 1 THEN s[i] ELSE fl[i - 1] \o s[i]]
<1>1. n \in Nat /\ n > 0 /\ \A i \in 1 .. n : s[i] \in Seq(S)
  BY SeqFacts
<1>2. FlattenSeq(s) = (CHOOSE fl : Flat(fl))[n]
  BY <1>1 DEF FlattenSeq
<1>3. \E fl : Flat(fl)
  <2> DEFINE step == [k \in 1 .. n |-> [u \in Seq(S) |-> u \o s[k]]]
  <2>1. step \in [1 .. n -> [Seq(S) -> Seq(S)]]
    BY <1>1, ConcatProperties
  <2>2. <<>> \in Seq(S)
    OBVIOUS
  <2>3. \A k \in 1 .. n, u \in Seq(S) : step[k][u] = u \o s[k]
    OBVIOUS
  <2> HIDE DEF step, n
  <2>4. PICK f \in [0 .. n -> Seq(S)] :
          f[0] = <<>> /\ \A k \in 1 .. n : f[k] = step[k][f[k - 1]]
    <3> DEFINE X == Seq(S)
               x == <<>>
    <3>1. x \in X /\ step \in Successors(n, X) /\ n \in Nat
      BY <1>1, <2>1, <2>2 DEF Successors
    <3> HIDE DEF X, x
    <3>2. PICK f : Recursive(f, n, X, x, step)
      BY <3>1, RecursiveValues
    <3> QED
      BY <3>2 DEF X, x, Recursive
  <2>5. ASSUME NEW i \in 1 .. n
        PROVE  f[i] = f[i - 1] \o s[i] /\ i - 1 \in 0 .. n
    <3>1. i - 1 \in 0 .. n
      BY <1>1
    <3> QED
      BY <2>3, <2>4, <3>1
  <2> DEFINE fl == [i \in 1 .. n |-> f[i]]
  <2>6. ASSUME NEW i \in 1 .. n
        PROVE  fl[i] = IF i = 1 THEN s[i] ELSE fl[i - 1] \o s[i]
    <3>1. CASE i = 1
      <4>0. 1 - 1 = 0 /\ 1 \in 1 .. n
        BY <1>1
      <4>1. f[1] = f[0] \o s[1] /\ s[1] \in Seq(S)
        BY <1>1, <2>5, <3>1, <4>0
      <4>2. f[1] = s[1]
        BY <2>4, <4>1, ConcatEmptySeq
      <4> QED
        BY <3>1, <4>2
    <3>2. CASE i # 1
      <4>1. i - 1 \in 1 .. n
        BY <1>1, <3>2
      <4> QED
        BY <2>5, <3>2, <4>1
    <3> QED
      BY <3>1, <3>2
  <2>7. Flat(fl)
    <3>1. fl = [i \in 1 .. n |-> fl[i]]
      OBVIOUS
    <3> HIDE DEF fl
    <3> QED
      BY <2>6, <3>1
  <2> QED
    BY <2>7
<1>4. PICK fl : fl = (CHOOSE g : Flat(g)) /\ Flat(fl)
  <2> HIDE DEF Flat
  <2> QED
    BY <1>3
<1>8. /\ fl = [i \in 1 .. n |-> fl[i]]
      /\ \A i \in 1 .. n : fl[i] = IF i = 1 THEN s[i] ELSE fl[i - 1] \o s[i]
  <2>1. fl = [i \in 1 .. n |-> IF i = 1 THEN s[i] ELSE fl[i - 1] \o s[i]]
    BY <1>4
  <2> QED
    BY <2>1
<1> HIDE DEF Flat, n
<1>6. fl[1] = s[1] /\ \A i \in 2 .. n : fl[i] = fl[i - 1] \o s[i]
  <2>1. \A i \in 2 .. n : i \in 1 .. n /\ i # 1
    BY <1>1
  <2>2. 1 \in 1 .. n
    BY <1>1
  <2> QED
    BY <1>8, <2>1, <2>2
<1>5. fl \in [1 .. n -> Seq(S)]
  <2> DEFINE T == {k \in Nat : k \in 1 .. n => fl[k] \in Seq(S)}
  <2>1. 0 \in T
    OBVIOUS
  <2>2. ASSUME NEW k \in Nat, k \in T, k + 1 \in 1 .. n
        PROVE  fl[k + 1] \in Seq(S)
    <3>1. CASE k = 0
      <4>1. k + 1 = 1
        BY <3>1
      <4> QED
        BY <1>1, <1>6, <2>2, <4>1
    <3>2. CASE k # 0
      <4> DEFINE i == k + 1
      <4>1. i \in 2 .. n /\ i - 1 = k /\ k \in 1 .. n /\ i \in 1 .. n
        BY <1>1, <2>2, <3>2
      <4> HIDE DEF i
      <4>2. fl[i] = fl[k] \o s[i] /\ fl[k] \in Seq(S) /\ s[i] \in Seq(S)
        BY <1>1, <1>6, <2>2, <4>1
      <4>3. fl[i] \in Seq(S)
        BY <4>2, ConcatProperties
      <4> QED
        BY <4>3 DEF i
    <3> QED
      BY <3>1, <3>2
  <2>3. \A k \in Nat : k \in T => k + 1 \in T
    BY <2>2
  <2>4. Nat \subseteq T
    <3> HIDE DEF T
    <3> QED
      BY <2>1, <2>3, InductiveSet
  <2>5. \A i \in 1 .. n : fl[i] \in Seq(S)
    BY <2>4
  <2> HIDE DEF T
  <2> QED
    BY <1>8, <2>5
<1>7. FlattenSeq(s) = fl[n]
  BY <1>2, <1>4
<1> QED
  BY <1>5, <1>6, <1>7 DEF n

\* Two imports that begin alike are the same import.
OneText(f) ==
  \A i, j \in DOMAIN f :
    IsImport(f[i]) /\ IsImport(f[j]) /\ Same(f[i], f[j]) => f[i].text = f[j].text

\* The imports of f are imports of g.
TextsFrom(f, g) ==
  \A i \in DOMAIN f : IsImport(f[i]) => \E j \in DOMAIN g : IsImport(g[j]) /\ f[i].text = g[j].text

LEMMA OneTextFrom ==
  ASSUME NEW f, NEW g, TextsFrom(f, g), OneText(g)
  PROVE  OneText(f)
  BY DEF TextsFrom, OneText, Same

NoCode(f) == f \in Files /\ \A i \in DOMAIN f : f[i].kind # "code"

LEMMA NoCodeFacts ==
  ASSUME NEW b, OnlyCodeEnds(b), NEW f, NoCode(f)
  PROVE  /\ f \in Seq(Line) /\ OneRegion(b, f) /\ Total(b, f) = 0
         /\ \A K : Tally(b, f, K, 0) = Cardinality(In(f, K)) /\ Tally(b, f, K, 0) \in Nat
         /\ \A K : Tally(b, f, K, 0) = 0 <=> In(f, K) = {}
<1>1. f \in Seq(Line) /\ Len(f) \in Nat /\ DOMAIN f = 1 .. Len(f)
  BY SeqFacts DEF NoCode, Files
<1>2. \A i \in 1 .. Len(f) : ~Ends(b, f[i])
  BY <1>1 DEF NoCode, Ends, OnlyCodeEnds
<1>3. OneRegion(b, f)
  BY <1>1, <1>2 DEF OneRegion
<1>4. Total(b, f) = 0
  <2>1. EndsBefore(b, f, Len(f) + 1) = {}
    <3>1. 1 .. Len(f) + 1 - 1 = 1 .. Len(f)
      BY <1>1
    <3> QED
      BY <1>2, <3>1 DEF EndsBefore
  <2> QED
    BY <2>1, FS_EmptySet DEF Total, Count
<1>5. ASSUME NEW K
      PROVE  Where(b, f, K, 0) = In(f, K)
  <2> DEFINE r == 0
  <2>1. r = 0
    OBVIOUS
  <2> HIDE DEF r
  <2>2. Where(b, f, K, r) = IF r = 0 THEN In(f, K) ELSE {}
    BY <1>1, <1>3, WhereInGroup
  <2> QED
    BY <2>1, <2>2
<1>6. ASSUME NEW K
      PROVE  Tally(b, f, K, 0) \in Nat /\ (Tally(b, f, K, 0) = 0 <=> Where(b, f, K, 0) = {})
  BY <1>1, TallyIsNumber
<1> QED
  BY <1>1, <1>3, <1>4, <1>5, <1>6 DEF Tally

LEMMA NoCodeConcat ==
  ASSUME NEW b, OnlyCodeEnds(b), NEW f, NoCode(f), NEW g, NoCode(g)
  PROVE  /\ NoCode(f \o g)
         /\ \A K : Tally(b, f \o g, K, 0) = Tally(b, f, K, 0) + Tally(b, g, K, 0)
<1>1. f \in Seq(Line) /\ g \in Seq(Line) /\ Total(b, f) = 0
  BY NoCodeFacts
<1>2. /\ f \o g \in Seq(Line) /\ Len(f) \in Nat /\ Len(g) \in Nat
      /\ DOMAIN f = 1 .. Len(f) /\ DOMAIN g = 1 .. Len(g) /\ DOMAIN (f \o g) = 1 .. Len(f) + Len(g)
      /\ \A i \in 1 .. Len(f) + Len(g) : (f \o g)[i] = IF i <= Len(f) THEN f[i] ELSE g[i - Len(f)]
  BY <1>1, SeqFacts, ConcatProperties
<1>3. ASSUME NEW i \in DOMAIN (f \o g)
      PROVE  /\ (f \o g)[i].kind # "code"
             /\ IsImport((f \o g)[i]) => (f \o g)[i].text # <<>>
  <2>1. CASE i <= Len(f)
    BY <1>2, <2>1 DEF NoCode, Files
  <2>2. CASE ~(i <= Len(f))
    <3>1. i - Len(f) \in DOMAIN g
      BY <1>2, <2>2
    <3> QED
      BY <1>2, <2>2, <3>1 DEF NoCode, Files
  <2> QED
    BY <2>1, <2>2
<1>4. ASSUME NEW K
      PROVE  Tally(b, f \o g, K, 0) = Tally(b, f, K, 0) + Tally(b, g, K, 0)
  <2> DEFINE r == 0
  <2>1. r \in Int /\ r = 0 /\ r - Total(b, f) = r
    BY <1>1
  <2> HIDE DEF r
  <2>2. Tally(b, f \o g, K, r) = Tally(b, f, K, r) + Tally(b, g, K, r - Total(b, f))
    BY <1>1, <2>1, TallyOfConcat
  <2> QED
    BY <2>1, <2>2
<1> QED
  BY <1>2, <1>3, <1>4 DEF NoCode, Files

LEMMA TallyOfOne ==
  ASSUME NEW b, OnlyCodeEnds(b), NEW line \in Line, NoCode(<<line>>), NEW K
  PROVE  Tally(b, <<line>>, K, 0) = IF line \in K THEN 1 ELSE 0
<1>1. DOMAIN <<line>> = {1} /\ <<line>>[1] = line
  OBVIOUS
<1>2. In(<<line>>, K) = IF line \in K THEN {1} ELSE {}
  BY <1>1 DEF In
<1>3. Tally(b, <<line>>, K, 0) = Cardinality(In(<<line>>, K))
  BY NoCodeFacts
<1>4. Cardinality({1}) = 1 /\ Cardinality({}) = 0
  BY FS_Singleton, FS_EmptySet
<1> QED
  BY <1>2, <1>3, <1>4

LEMMA TallyOfNone ==
  ASSUME NEW b, OnlyCodeEnds(b), NEW K
  PROVE  NoCode(<<>>) /\ Tally(b, <<>>, K, 0) = 0
<1>1. NoCode(<<>>)
  BY DEF NoCode, Files
<1>2. In(<<>>, K) = {}
  BY DEF In
<1> QED
  BY <1>1, <1>2, NoCodeFacts

\* What is left of the line of an import.
Piece(g, i) ==
  IF i < Len(g) /\ Same(g[i], g[i + 1]) THEN DeleteChunksOnLine(g[i]) ELSE <<g[i]>>

Dropped(g, i) == i < Len(g) /\ Same(g[i], g[i + 1])

LEMMA PieceTallies ==
  ASSUME NEW b, OnlyCodeEnds(b), NEW g, Group(b, g), NEW i \in DOMAIN g
  PROVE  /\ NoCode(Piece(g, i)) /\ NoCode(<<g[i]>>)
         /\ Tally(b, Piece(g, i), Commented, 0) = Tally(b, <<g[i]>>, Commented, 0)
         /\ \A t : /\ Tally(b, <<g[i]>>, WithText(t), 0) = IF g[i].text = t THEN 1 ELSE 0
                   /\ Tally(b, Piece(g, i), WithText(t), 0) =
                        IF g[i].text = t /\ ~Dropped(g, i) THEN 1 ELSE 0
         /\ TextsFrom(Piece(g, i), g)
<1> DEFINE line == g[i]
           rest == [line EXCEPT !.kind = "comment", !.text = <<>>]
<1>1. line \in Line /\ IsImport(line) /\ line.text # <<>>
  BY SeqFacts DEF Group, Files
<1>2. /\ NoCode(<<line>>) /\ TextsFrom(<<line>>, g)
      /\ \A t : line \in WithText(t) <=> line.text = t
      /\ line \in Commented <=> line.comment
  <2>1. DOMAIN <<line>> = {1} /\ <<line>>[1] = line
    OBVIOUS
  <2>2. <<line>> \in Seq(Line)
    BY <1>1
  <2> QED
    BY <1>1, <2>1, <2>2 DEF NoCode, Files, IsImport, TextsFrom, WithText, Commented
<1>3. \A t : Tally(b, <<line>>, WithText(t), 0) = IF line.text = t THEN 1 ELSE 0
  BY <1>1, <1>2, TallyOfOne
<1>4. CASE ~Dropped(g, i)
  <2>1. Piece(g, i) = <<line>>
    BY <1>4 DEF Piece, Dropped
  <2> QED
    BY <1>2, <1>3, <1>4, <2>1
<1>5. CASE Dropped(g, i) /\ line.comment
  <2>1. Piece(g, i) = <<rest>>
    BY <1>5 DEF Piece, Dropped, DeleteChunksOnLine
  <2>2. rest \in Line /\ rest.kind = "comment" /\ rest.comment
    <3>1. <<>> \in Seq(Nat \ {0})
      OBVIOUS
    <3> DEFINE none == <<>>
    <3> HIDE DEF none
    <3>2. [line EXCEPT !.kind = "comment", !.text = none] \in Line
      BY <1>1, <3>1 DEF Line, none
    <3>3. rest \in Line
      BY <3>2 DEF none
    <3>4. rest.kind = "comment" /\ rest.comment = line.comment
      BY <1>1 DEF Line
    <3> QED
      BY <1>5, <3>3, <3>4
  <2> HIDE DEF rest
  <2>3. NoCode(<<rest>>) /\ TextsFrom(<<rest>>, g)
    <3>1. DOMAIN <<rest>> = {1} /\ <<rest>>[1] = rest
      OBVIOUS
    <3>2. <<rest>> \in Seq(Line)
      BY <2>2
    <3> QED
      BY <2>2, <3>1, <3>2 DEF NoCode, Files, IsImport, TextsFrom
  <2>4. rest \in Commented /\ line \in Commented /\ \A t : rest \notin WithText(t)
    BY <1>1, <1>5, <2>2 DEF Commented, WithText, IsImport
  <2>5. Tally(b, <<rest>>, Commented, 0) = 1 /\ Tally(b, <<line>>, Commented, 0) = 1
    BY <1>1, <1>2, <2>2, <2>3, <2>4, TallyOfOne
  <2>6. \A t : Tally(b, <<rest>>, WithText(t), 0) = 0
    BY <2>2, <2>3, <2>4, TallyOfOne
  <2> QED
    BY <1>2, <1>3, <1>5, <2>1, <2>3, <2>5, <2>6
<1>6. CASE Dropped(g, i) /\ ~line.comment
  <2>1. Piece(g, i) = <<>>
    BY <1>6 DEF Piece, Dropped, DeleteChunksOnLine
  <2>2. NoCode(<<>>) /\ \A K : Tally(b, <<>>, K, 0) = 0
    BY TallyOfNone
  <2>3. TextsFrom(<<>>, g)
    BY DEF TextsFrom
  <2>4. Tally(b, <<line>>, Commented, 0) = 0
    BY <1>1, <1>2, <1>6, TallyOfOne
  <2> QED
    BY <1>2, <1>3, <1>6, <2>1, <2>2, <2>3, <2>4
<1> QED
  BY <1>4, <1>5, <1>6

LEMMA TextsFromConcat ==
  ASSUME NEW f \in Seq(Line), NEW p \in Seq(Line), NEW g, TextsFrom(f, g), TextsFrom(p, g)
  PROVE  TextsFrom(f \o p, g)
<1>1. /\ Len(f) \in Nat /\ Len(p) \in Nat
      /\ DOMAIN f = 1 .. Len(f) /\ DOMAIN p = 1 .. Len(p) /\ DOMAIN (f \o p) = 1 .. Len(f) + Len(p)
      /\ \A i \in 1 .. Len(f) + Len(p) : (f \o p)[i] = IF i <= Len(f) THEN f[i] ELSE p[i - Len(f)]
  BY SeqFacts, ConcatProperties
<1>2. ASSUME NEW i \in DOMAIN (f \o p), IsImport((f \o p)[i])
      PROVE  \E j \in DOMAIN g : IsImport(g[j]) /\ (f \o p)[i].text = g[j].text
  <2>1. CASE i <= Len(f)
    BY <1>1, <1>2, <2>1 DEF TextsFrom
  <2>2. CASE ~(i <= Len(f))
    <3>1. i - Len(f) \in DOMAIN p
      BY <1>1, <2>2
    <3> QED
      BY <1>1, <1>2, <2>2, <3>1 DEF TextsFrom
  <2> QED
    BY <2>1, <2>2
<1> QED
  BY <1>2 DEF TextsFrom

LEMMA SameDropped ==
  ASSUME NEW b, NEW g, Group(b, g), OneText(g), NEW i \in DOMAIN g, Dropped(g, i)
  PROVE  i + 1 \in DOMAIN g /\ g[i].text = g[i + 1].text
<1>1. Len(g) \in Nat /\ DOMAIN g = 1 .. Len(g)
  BY SeqFacts DEF Group, Files
<1>2. i + 1 \in DOMAIN g
  BY <1>1 DEF Dropped
<1> QED
  BY <1>2 DEF Dropped, OneText, Group

\* What is left of the first i lines (f) beside these lines (v).
LeftOf(b, g, i, f, v) ==
  /\ NoCode(f) /\ NoCode(v) /\ TextsFrom(f, g)
  /\ Tally(b, f, Commented, 0) = Tally(b, v, Commented, 0)
  /\ OneText(g) =>
       \A t : Tally(b, v, WithText(t), 0) = 0 <=>
                /\ Tally(b, f, WithText(t), 0) = 0
                /\ ~(Dropped(g, i) /\ g[i].text = t)

LEMMA LeftOfNext ==
  ASSUME NEW b, OnlyCodeEnds(b), NEW g, Group(b, g), NEW i \in DOMAIN g, i + 1 \in DOMAIN g,
         NEW f, NEW v, LeftOf(b, g, i, f, v)
  PROVE  LeftOf(b, g, i + 1, f \o Piece(g, i + 1), v \o <<g[i + 1]>>)
<1> DEFINE p == Piece(g, i + 1)
           w == <<g[i + 1]>>
           C == Commented
           T(t) == WithText(t)
<1>1. /\ NoCode(p) /\ NoCode(w) /\ TextsFrom(p, g)
      /\ Tally(b, p, C, 0) = Tally(b, w, C, 0)
      /\ \A t : /\ Tally(b, w, T(t), 0) = IF g[i + 1].text = t THEN 1 ELSE 0
                /\ Tally(b, p, T(t), 0) = IF g[i + 1].text = t /\ ~Dropped(g, i + 1) THEN 1 ELSE 0
  BY PieceTallies
<1>2. /\ NoCode(f) /\ NoCode(v) /\ TextsFrom(f, g) /\ Tally(b, f, C, 0) = Tally(b, v, C, 0)
      /\ OneText(g) =>
           \A t : Tally(b, v, T(t), 0) = 0 <=>
                    Tally(b, f, T(t), 0) = 0 /\ ~(Dropped(g, i) /\ g[i].text = t)
  BY DEF LeftOf
<1> HIDE DEF p, w, C, T
<1>3. /\ NoCode(f \o p) /\ NoCode(v \o w)
      /\ \A K : /\ Tally(b, f \o p, K, 0) = Tally(b, f, K, 0) + Tally(b, p, K, 0)
                /\ Tally(b, v \o w, K, 0) = Tally(b, v, K, 0) + Tally(b, w, K, 0)
  BY <1>1, <1>2, NoCodeConcat
<1>4. \A K : /\ Tally(b, f, K, 0) \in Nat /\ Tally(b, p, K, 0) \in Nat
             /\ Tally(b, v, K, 0) \in Nat /\ Tally(b, w, K, 0) \in Nat
  BY <1>1, <1>2, NoCodeFacts
<1>5. TextsFrom(f \o p, g)
  <2>1. f \in Seq(Line) /\ p \in Seq(Line)
    BY <1>1, <1>2 DEF NoCode, Files
  <2> QED
    BY <1>1, <1>2, <2>1, TextsFromConcat
<1>6. Tally(b, f \o p, C, 0) = Tally(b, v \o w, C, 0)
  BY <1>1, <1>2, <1>3
<1>7. ASSUME OneText(g), NEW t
      PROVE  Tally(b, v \o w, T(t), 0) = 0 <=>
               Tally(b, f \o p, T(t), 0) = 0 /\ ~(Dropped(g, i + 1) /\ g[i + 1].text = t)
  <2>1. Tally(b, v \o w, T(t), 0) = 0 <=> Tally(b, v, T(t), 0) = 0 /\ Tally(b, w, T(t), 0) = 0
    BY <1>3, <1>4
  <2>2. Tally(b, f \o p, T(t), 0) = 0 <=> Tally(b, f, T(t), 0) = 0 /\ Tally(b, p, T(t), 0) = 0
    BY <1>3, <1>4
  <2>3. Tally(b, w, T(t), 0) = 0 <=> g[i + 1].text # t
    BY <1>1
  <2>4. Tally(b, p, T(t), 0) = 0 <=> ~(g[i + 1].text = t /\ ~Dropped(g, i + 1))
    BY <1>1
  <2>5. Dropped(g, i) => g[i].text = g[i + 1].text
    BY <1>7, SameDropped
  <2>6. Tally(b, v, T(t), 0) = 0 <=>
          Tally(b, f, T(t), 0) = 0 /\ ~(Dropped(g, i) /\ g[i].text = t)
    BY <1>2, <1>7
  <2> QED
    BY <2>1, <2>2, <2>3, <2>4, <2>5, <2>6
<1> QED
  BY <1>3, <1>5, <1>6, <1>7 DEF LeftOf, p, w, C, T

LEMMA DedupedAlike ==
  ASSUME NEW b, OnlyCodeEnds(b), NEW g, Group(b, g), Len(g) > 0
  PROVE  /\ NoCode(Deduped(g)) /\ TextsFrom(Deduped(g), g)
         /\ OneText(g) => Alike(b, g, Deduped(g))
<1> DEFINE n == Len(g)
           s == [i \in DOMAIN g |-> Piece(g, i)]
           d == Deduped(g)
<1>1. g \in Seq(Line) /\ n \in Nat /\ n > 0 /\ DOMAIN g = 1 .. n /\ \A i \in 1 .. n : g[i] \in Line
  BY SeqFacts DEF Group, Files
<1>2. d = FlattenSeq(s)
  BY DEF Deduped, Piece
<1>3. s \in Seq(Seq(Line)) /\ Len(s) = n /\ \A i \in 1 .. n : s[i] = Piece(g, i)
  <2>1. \A i \in 1 .. n : Piece(g, i) \in Seq(Line)
    BY <1>1, PieceTallies DEF NoCode, Files
  <2>2. s \in [1 .. n -> Seq(Line)]
    BY <1>1, <2>1
  <2> QED
    BY <1>1, <2>2
<1> HIDE DEF s, d, n
<1>4. PICK u \in [1 .. n -> Seq(Line)] :
        /\ u[1] = s[1] /\ \A i \in 2 .. n : u[i] = u[i - 1] \o s[i]
        /\ d = u[n]
  <2>1. Len(s) > 0
    BY <1>1, <1>3
  <2> QED
    BY <1>2, <1>3, <2>1, Flattened
<1> DEFINE v(i) == SubSeq(g, 1, i)
           Good == {i \in Nat : i \in 1 .. n => LeftOf(b, g, i, u[i], v(i))}
<1>5. v(1) = <<g[1]>> /\ \A i \in 2 .. n : v(i) = v(i - 1) \o <<g[i]>>
  <2>1. v(1) = <<g[1]>>
    <3>1. 1 \in 1 .. Len(g) /\ 1 \in 1 .. Len(g) + 1 /\ 1 + 1 = 2 /\ 1 \in Int /\ 2 \in Int
      BY <1>1 DEF n
    <3>2. SubSeq(g, 1, 1) = <<g[1]>> \o SubSeq(g, 2, 1)
      BY <1>1, <3>1, SubSeqRecursiveFirst
    <3>3. SubSeq(g, 2, 1) = <<>>
      BY SubSeqEmpty
    <3>4. <<g[1]>> \in Seq(Line)
      BY <1>1
    <3>5. <<g[1]>> \o <<>> = <<g[1]>>
      BY <3>4, ConcatEmptySeq
    <3> QED
      BY <3>2, <3>3, <3>5
  <2>2. ASSUME NEW i \in 2 .. n
        PROVE  v(i) = v(i - 1) \o <<g[i]>>
    <3>1. 1 \in 1 .. Len(g) /\ i \in 1 .. Len(g)
      BY <1>1 DEF n
    <3> QED
      BY <1>1, <3>1, SubSeqRecursiveSecond
  <2> QED
    BY <2>1, <2>2
<1> HIDE DEF v
<1>6. LeftOf(b, g, 1, u[1], v(1))
  <2>1. 1 \in DOMAIN g /\ 1 \in 1 .. n
    BY <1>1
  <2>2. u[1] = Piece(g, 1) /\ v(1) = <<g[1]>>
    BY <1>3, <1>4, <1>5, <2>1
  <2>3. /\ NoCode(Piece(g, 1)) /\ NoCode(<<g[1]>>)
        /\ Tally(b, Piece(g, 1), Commented, 0) = Tally(b, <<g[1]>>, Commented, 0)
        /\ \A t : /\ Tally(b, <<g[1]>>, WithText(t), 0) = IF g[1].text = t THEN 1 ELSE 0
                  /\ Tally(b, Piece(g, 1), WithText(t), 0) =
                       IF g[1].text = t /\ ~Dropped(g, 1) THEN 1 ELSE 0
        /\ TextsFrom(Piece(g, 1), g)
    BY <2>1, PieceTallies
  <2>4. \A t : Tally(b, <<g[1]>>, WithText(t), 0) = 0 <=>
                 Tally(b, Piece(g, 1), WithText(t), 0) = 0 /\ ~(Dropped(g, 1) /\ g[1].text = t)
    BY <2>3
  <2> QED
    BY <2>2, <2>3, <2>4 DEF LeftOf
<1>7. ASSUME NEW k \in Nat, k \in Good, k + 1 \in 1 .. n
      PROVE  LeftOf(b, g, k + 1, u[k + 1], v(k + 1))
  <2>1. CASE k = 0
    <3>1. k + 1 = 1
      BY <2>1
    <3> QED
      BY <1>6, <3>1
  <2>2. CASE k # 0
    <3>1. k \in 1 .. n /\ k + 1 \in 2 .. n /\ k + 1 - 1 = k /\ k \in DOMAIN g /\ k + 1 \in DOMAIN g
      BY <1>1, <1>7, <2>2
    <3>2. LeftOf(b, g, k, u[k], v(k))
      BY <1>7, <3>1
    <3>3. u[k + 1] = u[k] \o Piece(g, k + 1) /\ v(k + 1) = v(k) \o <<g[k + 1]>>
      <4> DEFINE i == k + 1
      <4>1. i \in 2 .. n /\ i - 1 = k /\ i \in 1 .. n
        BY <1>7, <3>1
      <4> HIDE DEF i
      <4>2. u[i] = u[k] \o Piece(g, i) /\ v(i) = v(k) \o <<g[i]>>
        BY <1>3, <1>4, <1>5, <4>1
      <4> QED
        BY <4>2 DEF i
    <3> QED
      BY <3>1, <3>2, <3>3, LeftOfNext
  <2> QED
    BY <2>1, <2>2
<1>8. LeftOf(b, g, n, d, g)
  <2>1. 0 \in Good
    OBVIOUS
  <2>2. \A k \in Nat : k \in Good => k + 1 \in Good
    BY <1>7
  <2>3. Nat \subseteq Good
    <3> HIDE DEF Good
    <3> QED
      BY <2>1, <2>2, InductiveSet
  <2>4. LeftOf(b, g, n, u[n], v(n))
    BY <1>1, <2>3
  <2>5. v(n) = g
    BY <1>1, SubSeqFull DEF v, n
  <2> QED
    BY <1>4, <2>4, <2>5
<1>9. ~Dropped(g, n)
  BY <1>1 DEF Dropped, n
<1> HIDE DEF Good
<1>10. /\ NoCode(d) /\ NoCode(g) /\ TextsFrom(d, g)
       /\ Tally(b, d, Commented, 0) = Tally(b, g, Commented, 0)
       /\ OneText(g) => \A t : Tally(b, g, WithText(t), 0) = 0 <=> Tally(b, d, WithText(t), 0) = 0
  BY <1>8, <1>9 DEF LeftOf
<1>11. ASSUME NEW f, NoCode(f)
       PROVE  /\ f \in Seq(Line) /\ OneRegion(b, f) /\ Total(b, f) = 0
              /\ \A K : Tally(b, f, K, 0) = Cardinality(In(f, K))
              /\ \A K : Tally(b, f, K, 0) = 0 <=> In(f, K) = {}
              /\ \A c \in CodeLines : In(f, {c}) = {}
  <2>1. \A c \in CodeLines : In(f, {c}) = {}
    BY <1>11 DEF NoCode, CodeLines, In
  <2> QED
    BY <1>11, <2>1, NoCodeFacts
<1>12. ASSUME NEW K \in Counted(b)
       PROVE  Cardinality(In(g, K)) = Cardinality(In(d, K))
  <2>1. K \in {{c} : c \in CodeLines} \/ K = Commented
    BY DEF Counted, OnlyCodeEnds
  <2>2. CASE K \in {{c} : c \in CodeLines}
    <3>1. PICK c \in CodeLines : K = {c}
      BY <2>2
    <3> QED
      BY <1>10, <1>11, <3>1
  <2>3. CASE K = Commented
    BY <1>10, <1>11, <2>3
  <2> QED
    BY <2>1, <2>2, <2>3
<1>13. ASSUME OneText(g), NEW K \in Occurring
       PROVE  In(g, K) = {} <=> In(d, K) = {}
  <2>1. PICK t \in Seq(Nat \ {0}) : K = WithText(t)
    BY DEF Occurring
  <2> QED
    BY <1>10, <1>11, <1>13, <2>1
<1>14. ASSUME OneText(g)
       PROVE  Alike(b, g, d)
  <2>1. /\ g \in Seq(Line) /\ d \in Seq(Line) /\ OneRegion(b, g) /\ OneRegion(b, d)
        /\ Total(b, g) = Total(b, d)
    BY <1>10, <1>11
  <2> QED
    BY <1>12, <1>13, <1>14, <2>1, AlikeGroups
<1> QED
  BY <1>10, <1>14 DEF d

-----------------------------------------------------------------------------
(* A group is flushed                                                      *)

LEMMA TextsFromTransitive ==
  ASSUME NEW f, NEW g, NEW h, TextsFrom(f, g), TextsFrom(g, h)
  PROVE  TextsFrom(f, h)
<1> SUFFICES ASSUME NEW i \in DOMAIN f, IsImport(f[i])
             PROVE  \E k \in DOMAIN h : IsImport(h[k]) /\ f[i].text = h[k].text
  BY DEF TextsFrom
<1>1. PICK j \in DOMAIN g : IsImport(g[j]) /\ f[i].text = g[j].text
  BY DEF TextsFrom
<1>2. PICK k \in DOMAIN h : IsImport(h[k]) /\ g[j].text = h[k].text
  BY <1>1 DEF TextsFrom
<1> QED
  BY <1>1, <1>2

\* The same imports in each place, or in another order.
LEMMA TextsFromGroup ==
  ASSUME NEW b, NEW g, Group(b, g), NEW h,
         \A i \in DOMAIN h : \E j \in DOMAIN g : h[i].text = g[j].text
  PROVE  TextsFrom(h, g)
  BY DEF TextsFrom, Group

LEMMA GroupedAndDeduped ==
  ASSUME NEW b, OnlyCodeEnds(b), NEW g, Group(b, g), Len(g) > 0, NEW s \in Sortings(Joined(g))
  PROVE  /\ Group(b, Grouped(s)) /\ Len(Grouped(s)) = Len(g) /\ DOMAIN Grouped(s) = DOMAIN g
         /\ Alike(b, g, Grouped(s)) /\ TextsFrom(Grouped(s), g)
<1> DEFINE j == Joined(g)
           e == Grouped(s)
<1>1. /\ Group(b, j) /\ Len(j) = Len(g) /\ DOMAIN j = DOMAIN g /\ Alike(b, g, j)
      /\ \A i \in DOMAIN g : j[i].text = g[i].text
  BY JoinedAlike
<1>7. s \in Sortings(j)
  OBVIOUS
<1> HIDE DEF j
<1>2. /\ Group(b, s) /\ Len(s) = Len(j) /\ DOMAIN s = DOMAIN j /\ Alike(b, j, s)
      /\ \A i \in DOMAIN s : \E k \in DOMAIN j : s[i].text = j[k].text
  BY <1>1, <1>7, SortedAlike
<1>3. /\ Group(b, e) /\ Len(e) = Len(s) /\ DOMAIN e = DOMAIN s /\ Alike(b, s, e)
      /\ \A i \in DOMAIN s : e[i].text = s[i].text
  BY <1>2, GroupedAlike
<1> HIDE DEF e
<1>4. Alike(b, g, e)
  BY <1>1, <1>2, <1>3, AlikeTransitive
<1>5. ASSUME NEW i \in DOMAIN e
      PROVE  \E k \in DOMAIN g : e[i].text = g[k].text
  BY <1>1, <1>2, <1>3
<1>6. TextsFrom(e, g)
  BY <1>5, TextsFromGroup
<1> QED
  BY <1>1, <1>2, <1>3, <1>4, <1>6 DEF e

LEMMA FlushedAlike ==
  ASSUME grouping \in BOOLEAN, NEW g, Group(grouping, g), NEW body \in Flushed(g)
  PROVE  /\ body \in Files /\ TextsFrom(body, g)
         /\ (grouping => OneText(g)) => Alike(grouping, g, body)
<1> DEFINE b == grouping
<1>1. Len(g) \in Nat /\ g \in Files
  BY SeqFacts DEF Group, Files
<1>2. CASE Len(g) < 2
  <2>1. body = g
    BY <1>2 DEF Flushed
  <2>2. TextsFrom(g, g)
    BY DEF TextsFrom
  <2> QED
    BY <1>1, <2>1, <2>2, AlikeItself
<1>3. CASE ~(Len(g) < 2) /\ grouping
  <2>1. PICK s \in Sortings(Joined(g)) : body = Deduped(Grouped(s))
    BY <1>3 DEF Flushed
  <2>2. OnlyCodeEnds(b) /\ Len(g) > 0
    BY <1>1, <1>3 DEF OnlyCodeEnds
  <2> DEFINE e == Grouped(s)
  <2>3. Group(b, e) /\ Len(e) = Len(g) /\ Alike(b, g, e) /\ TextsFrom(e, g)
    BY <2>2, GroupedAndDeduped
  <2> HIDE DEF b, e
  <2>4. /\ NoCode(Deduped(e)) /\ TextsFrom(Deduped(e), e)
        /\ OneText(e) => Alike(b, e, Deduped(e))
    BY <2>2, <2>3, DedupedAlike
  <2>5. body \in Files /\ TextsFrom(body, g)
    BY <2>1, <2>3, <2>4, TextsFromTransitive DEF e, NoCode
  <2>6. ASSUME OneText(g)
        PROVE  Alike(b, g, body)
    <3>1. OneText(e)
      BY <2>3, <2>6, OneTextFrom
    <3> QED
      BY <2>1, <2>3, <2>4, <3>1, AlikeTransitive DEF e
  <2> QED
    BY <1>3, <2>5, <2>6 DEF b
<1>4. CASE ~(Len(g) < 2) /\ ~grouping
  <2>1. body \in Sortings(g)
    BY <1>4 DEF Flushed
  <2>2. /\ Group(b, body) /\ Alike(b, g, body)
        /\ \A i \in DOMAIN body : \E j \in DOMAIN g : body[i].text = g[j].text
    BY <2>1, SortedAlike
  <2>3. TextsFrom(body, g)
    BY <2>2, TextsFromGroup
  <2> QED
    BY <2>2, <2>3 DEF Group
<1> QED
  BY <1>2, <1>3, <1>4

\* A part of a file and what is before and behind it.
LEMMA Parts ==
  ASSUME NEW f \in Seq(Line), NEW m \in 1 .. Len(f) + 1, NEW n \in m - 1 .. Len(f)
  PROVE  LET p == SubSeq(f, 1, m - 1)
             g == SubSeq(f, m, n)
             q == SubSeq(f, n + 1, Len(f))
         IN  /\ p \in Seq(Line) /\ g \in Seq(Line) /\ q \in Seq(Line)
             /\ Len(p) = m - 1 /\ Len(g) = n - m + 1 /\ Len(q) = Len(f) - n
             /\ \A i \in 1 .. m - 1 : p[i] = f[i]
             /\ \A i \in 1 .. n - m + 1 : g[i] = f[m + i - 1]
             /\ \A i \in 1 .. Len(f) - n : q[i] = f[n + i]
             /\ (p \o g) \o q = f
<1> DEFINE p == SubSeq(f, 1, m - 1)
           g == SubSeq(f, m, n)
           q == SubSeq(f, n + 1, Len(f))
<1>1. Len(f) \in Nat /\ m \in Int /\ n \in Int /\ \A i \in 1 .. Len(f) : f[i] \in Line
  BY SeqFacts
<1>2. p \in Seq(Line) /\ Len(p) = m - 1 /\ \A i \in 1 .. m - 1 : p[i] = f[i]
  <2>1. \A i \in 1 .. m - 1 : f[i] \in Line
    BY <1>1
  <2>2. m - 1 \in Int /\ 1 \in Int
    BY <1>1
  <2>3. /\ p \in Seq(Line)
        /\ Len(p) = IF 1 <= m - 1 THEN m - 1 - 1 + 1 ELSE 0
        /\ \A i \in 1 .. m - 1 - 1 + 1 : p[i] = f[1 + i - 1]
    BY <2>1, <2>2, SubSeqProperties
  <2> QED
    BY <1>1, <2>3
<1>3. g \in Seq(Line) /\ Len(g) = n - m + 1 /\ \A i \in 1 .. n - m + 1 : g[i] = f[m + i - 1]
  <2>1. \A i \in m .. n : f[i] \in Line
    BY <1>1
  <2>2. /\ g \in Seq(Line)
        /\ Len(g) = IF m <= n THEN n - m + 1 ELSE 0
        /\ \A i \in 1 .. n - m + 1 : g[i] = f[m + i - 1]
    BY <1>1, <2>1, SubSeqProperties
  <2> QED
    BY <1>1, <2>2
<1>4. q \in Seq(Line) /\ Len(q) = Len(f) - n /\ \A i \in 1 .. Len(f) - n : q[i] = f[n + i]
  <2>1. \A i \in n + 1 .. Len(f) : f[i] \in Line
    BY <1>1
  <2>2. n + 1 \in Int /\ Len(f) \in Int
    BY <1>1
  <2>3. /\ q \in Seq(Line)
        /\ Len(q) = IF n + 1 <= Len(f) THEN Len(f) - (n + 1) + 1 ELSE 0
        /\ \A i \in 1 .. Len(f) - (n + 1) + 1 : q[i] = f[n + 1 + i - 1]
    BY <2>1, <2>2, SubSeqProperties
  <2>4. ASSUME NEW i \in 1 .. Len(f) - n
        PROVE  q[i] = f[n + i]
    <3>1. i \in 1 .. Len(f) - (n + 1) + 1 /\ n + 1 + i - 1 = n + i
      BY <1>1
    <3> QED
      BY <2>3, <3>1
  <2>5. Len(q) = Len(f) - n
    BY <1>1, <2>3
  <2> QED
    BY <2>3, <2>4, <2>5
<1> HIDE DEF p, g, q
<1>5. (p \o g) \o q = f
  <2>1. /\ p \o g \in Seq(Line) /\ Len(p \o g) = n
        /\ \A i \in 1 .. n : (p \o g)[i] = IF i <= m - 1 THEN p[i] ELSE g[i - (m - 1)]
    <3>1. /\ p \o g \in Seq(Line) /\ Len(p \o g) = Len(p) + Len(g)
          /\ \A i \in 1 .. Len(p) + Len(g) : (p \o g)[i] = IF i <= Len(p) THEN p[i] ELSE g[i - Len(p)]
      BY <1>2, <1>3, ConcatProperties
    <3>2. Len(p) + Len(g) = n
      BY <1>1, <1>2, <1>3
    <3> QED
      BY <1>2, <3>1, <3>2
  <2>2. \A i \in 1 .. n : (p \o g)[i] = f[i]
    <3> SUFFICES ASSUME NEW i \in 1 .. n
                 PROVE  (p \o g)[i] = f[i]
      OBVIOUS
    <3>1. CASE i <= m - 1
      BY <1>1, <1>2, <2>1, <3>1
    <3>2. CASE ~(i <= m - 1)
      <4>1. i - (m - 1) \in 1 .. n - m + 1 /\ m + (i - (m - 1)) - 1 = i
        BY <1>1, <3>2
      <4>2. g[i - (m - 1)] = f[m + (i - (m - 1)) - 1]
        BY <1>3, <4>1
      <4> QED
        BY <2>1, <3>2, <4>1, <4>2
    <3> QED
      BY <3>1, <3>2
  <2> DEFINE l == p \o g
  <2> HIDE DEF l
  <2>3. /\ l \o q \in Seq(Line) /\ Len(l \o q) = Len(f)
        /\ \A i \in 1 .. Len(f) : (l \o q)[i] = IF i <= n THEN l[i] ELSE q[i - n]
    <3>3. l \in Seq(Line) /\ q \in Seq(Line)
      BY <1>4, <2>1 DEF l
    <3>1. /\ l \o q \in Seq(Line) /\ Len(l \o q) = Len(l) + Len(q)
          /\ \A i \in 1 .. Len(l) + Len(q) : (l \o q)[i] = IF i <= Len(l) THEN l[i] ELSE q[i - Len(l)]
      BY <3>3, ConcatProperties
    <3>2. Len(l) = n /\ Len(l) + Len(q) = Len(f)
      BY <1>1, <1>4, <2>1 DEF l
    <3> QED
      BY <3>1, <3>2
  <2>4. ASSUME NEW i \in 1 .. Len(f)
        PROVE  (l \o q)[i] = f[i]
    <3>1. CASE i <= n
      <4>1. i \in 1 .. n
        BY <1>1, <3>1
      <4>2. l[i] = f[i]
        BY <2>2, <4>1 DEF l
      <4> QED
        BY <2>3, <3>1, <4>2
    <3>2. CASE ~(i <= n)
      <4>1. i - n \in 1 .. Len(f) - n /\ n + (i - n) = i
        BY <1>1, <3>2
      <4>2. q[i - n] = f[n + (i - n)]
        BY <1>4, <4>1
      <4> QED
        BY <2>3, <3>2, <4>1, <4>2
    <3> QED
      BY <3>1, <3>2
  <2>5. l \o q = f
    BY <2>3, <2>4, SeqEqual
  <2> QED
    BY <2>5 DEF l
<1> QED
  BY <1>2, <1>3, <1>4, <1>5 DEF p, g, q

-----------------------------------------------------------------------------
(* The invariants                                                          *)

\* The lines collected are imports, and nothing sets them apart that must not
\* be crossed.
Collected ==
  \A k \in at - pending .. at - 1 : IsImport(lines[k]) /\ (~grouping => lines[k].nl = 1)

\* Where duplicates are removed, what is removed must be one: in the file the
\* program was given at first, imports that start with one chunk are the same.
Unambiguous == OneText(given[1])

Kept ==
  Unambiguous \/ ~grouping =>
    /\ Alike(grouping, src, lines)
    /\ grouping => OneText(lines)

ScanInv == TypeOK /\ Collected

LEMMA NumberedFile ==
  ASSUME NEW f \in Files
  PROVE  /\ Numbered(f) \in Files /\ Len(Numbered(f)) = Len(f) /\ DOMAIN Numbered(f) = DOMAIN f
         /\ TextsFrom(Numbered(f), f) /\ \A i \in DOMAIN f : Numbered(f)[i].nl = f[i].nl
         /\ \A i \in DOMAIN f : Numbered(f)[i].kind = f[i].kind /\ Numbered(f)[i].text = f[i].text
                                 /\ Numbered(f)[i].comment = f[i].comment
         /\ \A i \in 1 .. Len(f) - 1 : Numbered(f)[i + 1].orig = Numbered(f)[i].orig + f[i].nl
<1> DEFINE n == Len(f)
           Num(g) == g = [i \in 1 .. n |-> IF i = 1 THEN 1 ELSE g[i - 1] + f[i - 1].nl]
           number == CHOOSE g : Num(g)
           N == Numbered(f)
<1>1. f \in Seq(Line) /\ n \in Nat /\ DOMAIN f = 1 .. n /\ \A i \in 1 .. n : f[i] \in Line /\ f[i].nl \in Int
  <2>1. f \in Seq(Line) /\ n \in Nat /\ DOMAIN f = 1 .. n /\ \A i \in 1 .. n : f[i] \in Line
    BY SeqFacts DEF Files
  <2> QED
    BY <2>1 DEF Line
<1>2. N = [i \in DOMAIN f |-> [f[i] EXCEPT !.orig = number[i]]]
  BY DEF Numbered
<1>3. \E g : Num(g)
  <2> DEFINE add(k) == IF k = 1 THEN 0 ELSE f[k - 1].nl
             step == [k \in 1 .. n |-> [u \in Int |-> u + add(k)]]
  <2>1. \A k \in 1 .. n : add(k) \in Int
    <3>1. ASSUME NEW k \in 1 .. n, k # 1
          PROVE  f[k - 1].nl \in Int
      <4>1. k - 1 \in 1 .. n
        BY <1>1, <3>1
      <4> QED
        BY <1>1, <4>1
    <3> QED
      BY <3>1
  <2> HIDE DEF add
  <2>2. step \in Successors(n, Int) /\ \A k \in 1 .. n, u \in Int : step[k][u] = u + add(k)
    BY <2>1 DEF Successors
  <2> HIDE DEF step, n
  <2>3. PICK g : Recursive(g, n, Int, 1, step)
    BY <1>1, <2>2, RecursiveValues
  <2>4. g \in [0 .. n -> Int] /\ g[0] = 1 /\ \A k \in 1 .. n : g[k] = step[k][g[k - 1]]
    BY <2>3 DEF Recursive
  <2> DEFINE h == [i \in 1 .. n |-> g[i]]
  <2>5. ASSUME NEW i \in 1 .. n
        PROVE  h[i] = IF i = 1 THEN 1 ELSE h[i - 1] + f[i - 1].nl
    <3>1. i - 1 \in 0 .. n
      BY <1>1
    <3>2. g[i] = g[i - 1] + add(i)
      BY <2>2, <2>4, <3>1
    <3>3. CASE i = 1
      BY <2>4, <3>2, <3>3 DEF add
    <3>4. CASE i # 1
      <4>1. i - 1 \in 1 .. n
        BY <1>1, <3>4
      <4> QED
        BY <3>2, <3>4, <4>1 DEF add
    <3> QED
      BY <3>3, <3>4
  <2>6. Num(h)
    <3>1. h = [i \in 1 .. n |-> h[i]]
      OBVIOUS
    <3> HIDE DEF h
    <3> QED
      BY <2>5, <3>1
  <2> QED
    BY <2>6
<1>4. Num(number)
  <2> HIDE DEF Num
  <2> QED
    BY <1>3
<1>5. \A i \in 1 .. n : number[i] = IF i = 1 THEN 1 ELSE number[i - 1] + f[i - 1].nl
  <2>1. number = [i \in 1 .. n |-> IF i = 1 THEN 1 ELSE number[i - 1] + f[i - 1].nl]
    BY <1>4
  <2> HIDE DEF number
  <2> QED
    BY <2>1
<1> HIDE DEF number, n, N
<1>6. \A i \in 1 .. n : number[i] \in Int
  <2> DEFINE T == {k \in Nat : k \in 1 .. n => number[k] \in Int}
  <2>1. 0 \in T
    OBVIOUS
  <2>2. ASSUME NEW k \in Nat, k \in T, k + 1 \in 1 .. n
        PROVE  number[k + 1] \in Int
    <3>1. CASE k = 0
      <4>1. k + 1 = 1
        BY <3>1
      <4> QED
        BY <1>5, <2>2, <4>1
    <3>2. CASE k # 0
      <4> DEFINE i == k + 1
      <4>1. i \in 1 .. n /\ i # 1 /\ i - 1 = k /\ k \in 1 .. n
        BY <1>1, <2>2, <3>2
      <4> HIDE DEF i
      <4>2. number[i] = number[k] + f[k].nl /\ number[k] \in Int /\ f[k].nl \in Int
        BY <1>1, <1>5, <2>2, <4>1
      <4> QED
        BY <4>2 DEF i
    <3> QED
      BY <3>1, <3>2
  <2>3. \A k \in Nat : k \in T => k + 1 \in T
    BY <2>2
  <2>4. Nat \subseteq T
    <3> HIDE DEF T
    <3> QED
      BY <2>1, <2>3, InductiveSet
  <2> QED
    BY <2>4
<1>7. ASSUME NEW i \in 1 .. n
      PROVE  /\ N[i] \in Line /\ N[i].kind = f[i].kind /\ N[i].text = f[i].text /\ N[i].nl = f[i].nl
             /\ N[i].comment = f[i].comment /\ N[i].orig = number[i]
  <2>1. N[i] = [f[i] EXCEPT !.orig = number[i]] /\ f[i] \in Line /\ number[i] \in Int
    BY <1>1, <1>2, <1>6
  <2> QED
    BY <2>1 DEF Line
<1>8. N \in Seq(Line) /\ Len(N) = n /\ DOMAIN N = 1 .. n
  <2>1. DOMAIN N = 1 .. n /\ N = [i \in 1 .. n |-> N[i]]
    BY <1>1, <1>2
  <2>2. N \in [1 .. n -> Line]
    BY <1>7, <2>1
  <2> QED
    BY <1>1, <2>2
<1>9. N \in Files /\ TextsFrom(N, f)
  BY <1>1, <1>7, <1>8 DEF Files, TextsFrom, IsImport
<1>10. ASSUME NEW i \in 1 .. n - 1
       PROVE  N[i + 1].orig = N[i].orig + f[i].nl
  <2> DEFINE k == i + 1
  <2>1. i \in 1 .. n /\ k \in 1 .. n /\ k # 1 /\ k - 1 = i
    BY <1>1
  <2> HIDE DEF k
  <2>2. number[k] = number[i] + f[i].nl
    BY <1>5, <2>1
  <2>3. N[k].orig = number[k] /\ N[i].orig = number[i]
    BY <1>7, <2>1
  <2> QED
    BY <2>2, <2>3 DEF k
<1> QED
  BY <1>1, <1>7, <1>8, <1>9, <1>10 DEF n, N

LEMMA InitScan == Init => ScanInv
<1> SUFFICES ASSUME Init
             PROVE  ScanInv
  OBVIOUS
<1>1. lines \in Files /\ Len(lines) \in Nat
  BY InputsAssumption, SeqFacts DEF Init, Files
<1>2. given \in Seq(Files) /\ Len(given) = 1
  BY <1>1 DEF Init
<1>3. TypeOK
  <2>1. at \in 1 .. Len(lines) + 1 /\ pending \in 0 .. at - 1
    BY <1>1 DEF Init
  <2>2. last \in Int \cup {None} /\ running \in BOOLEAN /\ exited \in BOOLEAN /\ grouping \in BOOLEAN
    BY DEF Init
  <2>3. Len(given) \in 1 .. 2
    BY <1>2
  <2> QED
    BY <1>1, <1>2, <2>1, <2>2, <2>3 DEF TypeOK
<1>4. at - pending .. at - 1 = {}
  BY DEF Init
<1> QED
  BY <1>3, <1>4 DEF ScanInv, Collected

\* The line that is scanned.
LEMMA LineScanned ==
  ASSUME TypeOK, HasNewline
  PROVE  /\ at \in Nat /\ pending \in Nat /\ at \in 1 .. Len(lines) /\ at - pending \in 1 .. at
         /\ Len(lines) \in Nat /\ DOMAIN lines = 1 .. Len(lines)
         /\ lines \in Seq(Line) /\ lines[at] \in Line /\ lines[at].nl \in Nat /\ lines[at].nl > 0
         /\ lines[at].orig \in Int
<1>1. lines \in Seq(Line) /\ Len(lines) \in Nat /\ DOMAIN lines = 1 .. Len(lines)
  BY SeqFacts DEF TypeOK, Files
<1>2. at \in 1 .. Len(lines) /\ lines[at].nl > 0
  BY <1>1 DEF TypeOK, HasNewline
<1>3. lines[at] \in Line
  BY <1>1, <1>2, ElementOfSeq
<1>4. lines[at].nl \in Nat /\ lines[at].orig \in Int
  BY <1>3 DEF Line
<1> QED
  BY <1>1, <1>2, <1>3, <1>4 DEF TypeOK

\* The lines g that are flushed, with p before and q behind them, and what they
\* become.
Cut(p, g, q, body, end) ==
  /\ end = (IF IsImport(lines[at]) THEN at ELSE at - 1)
  /\ p \in Seq(Line) /\ q \in Seq(Line) /\ Group(grouping, g)
  /\ Len(p) = at - pending - 1 /\ Len(g) = end - (at - pending) + 1 /\ Len(q) = Len(lines) - end
  /\ \A i \in 1 .. Len(p) : p[i] = lines[i]
  /\ \A i \in 1 .. Len(g) : g[i] = lines[at - pending + i - 1]
  /\ \A i \in 1 .. Len(q) : q[i] = lines[end + i]
  /\ lines = (p \o g) \o q
  /\ body \in Flushed(g)
  /\ lines' = (p \o body) \o q
  /\ at' = at - pending + Len(body) + (IF IsImport(lines[at]) THEN 0 ELSE 1)
  /\ last' \in LastSeen(body)

LEMMA FlushParts ==
  ASSUME TypeOK, Collected, Flush
  PROVE  \E p, g, q, body, end : Cut(p, g, q, body, end)
<1>1. HasNewline /\ EndsGroup
  BY DEF Flush
<1>2. /\ at \in Nat /\ pending \in Nat /\ at \in 1 .. Len(lines) /\ at - pending \in 1 .. at
      /\ Len(lines) \in Nat /\ DOMAIN lines = 1 .. Len(lines) /\ lines \in Seq(Line)
  BY <1>1, LineScanned
<1> DEFINE end == IF IsImport(lines[at]) THEN at ELSE at - 1
           m == at - pending
           p == SubSeq(lines, 1, m - 1)
           g == SubSeq(lines, m, end)
           q == SubSeq(lines, end + 1, Len(lines))
<1>3. PICK body \in Flushed(g) :
        /\ lines' = p \o body \o q
        /\ at' = m + Len(body) + (IF IsImport(lines[at]) THEN 0 ELSE 1)
        /\ last' \in LastSeen(body)
  BY DEF Flush
<1>4. m \in 1 .. Len(lines) + 1 /\ end \in m - 1 .. Len(lines) /\ end \in Int /\ m \in Int /\ end <= at
  BY <1>2
<1>5. IsImport(lines[at]) \/ end < at
  BY <1>2
<1> HIDE DEF end, m
<1>6. /\ p \in Seq(Line) /\ g \in Seq(Line) /\ q \in Seq(Line)
      /\ Len(p) = m - 1 /\ Len(g) = end - m + 1 /\ Len(q) = Len(lines) - end
      /\ \A i \in 1 .. m - 1 : p[i] = lines[i]
      /\ \A i \in 1 .. end - m + 1 : g[i] = lines[m + i - 1]
      /\ \A i \in 1 .. Len(lines) - end : q[i] = lines[end + i]
      /\ (p \o g) \o q = lines
  BY <1>2, <1>4, Parts
<1> HIDE DEF p, g, q
<1>7. Group(grouping, g)
  <2>1. ASSUME NEW i \in 1 .. Len(g)
        PROVE  /\ IsImport(g[i]) /\ g[i].text # <<>>
               /\ i < Len(g) /\ ~grouping => g[i].nl = 1
    <3> DEFINE k == m + i - 1
    <3>1. k \in m .. end /\ k \in 1 .. Len(lines) /\ i \in Int /\ Len(g) = end - m + 1
      BY <1>2, <1>4, <1>6
    <3>2. g[i] = lines[k]
      BY <1>6
    <3>3. k < at => IsImport(lines[k]) /\ (~grouping => lines[k].nl = 1)
      <4>1. k < at => k \in at - pending .. at - 1
        BY <1>2, <1>4, <3>1 DEF m
      <4> QED
        BY <4>1 DEF Collected
    <3>4. IsImport(lines[k])
      <4>1. k = at \/ k < at
        BY <1>2, <1>4, <3>1
      <4>2. k = at => IsImport(lines[at])
        BY <1>2, <1>4, <1>5, <3>1
      <4> QED
        BY <3>3, <4>1, <4>2
    <3>5. i < Len(g) => k < at
      BY <1>2, <1>4, <3>1
    <3>6. lines[k].text # <<>>
      BY <1>2, <3>1, <3>4 DEF TypeOK, Files
    <3> HIDE DEF k
    <3> QED
      BY <3>2, <3>3, <3>4, <3>5, <3>6
  <2>2. DOMAIN g = 1 .. Len(g) /\ Len(g) \in Nat
    BY <1>6, SeqFacts
  <2>3. g \in Files
    BY <1>6, <2>1, <2>2 DEF Files
  <2>4. ASSUME NEW i \in 1 .. Len(g) - 1
        PROVE  ~Ends(grouping, g[i])
    <3>1. i \in 1 .. Len(g) /\ i < Len(g)
      BY <2>2
    <3>2. g[i].kind # "code" /\ (~grouping => ~(g[i].nl > 1))
      BY <2>1, <3>1 DEF IsImport
    <3> QED
      BY <3>2 DEF Ends
  <2> QED
    BY <2>1, <2>2, <2>3, <2>4 DEF Group, OneRegion
<1>8. /\ \A i \in 1 .. Len(p) : p[i] = lines[i]
      /\ \A i \in 1 .. Len(g) : g[i] = lines[m + i - 1]
      /\ \A i \in 1 .. Len(q) : q[i] = lines[end + i]
  BY <1>6
<1>9. Cut(p, g, q, body, end)
  BY <1>3, <1>6, <1>7, <1>8 DEF end, m, p, g, q, Cut
<1> QED
  BY <1>9

\* A file of three parts.
LEMMA FileOfParts ==
  ASSUME NEW p \in Seq(Line), NEW body \in Files, NEW q \in Seq(Line), NEW f \in Files,
         TextsFrom(p, f), TextsFrom(body, f), TextsFrom(q, f)
  PROVE  /\ (p \o body) \o q \in Files
         /\ Len((p \o body) \o q) = Len(p) + Len(body) + Len(q)
         /\ TextsFrom((p \o body) \o q, f)
<1>1. body \in Seq(Line)
  BY DEF Files
<1>2. p \o body \in Seq(Line) /\ Len(p \o body) = Len(p) + Len(body)
  BY <1>1, ConcatProperties
<1>3. (p \o body) \o q \in Seq(Line) /\ Len((p \o body) \o q) = Len(p) + Len(body) + Len(q)
  BY <1>2, ConcatProperties
<1>4. TextsFrom(p \o body, f)
  BY <1>1, TextsFromConcat
<1>5. TextsFrom((p \o body) \o q, f)
  BY <1>2, <1>4, TextsFromConcat
<1> DEFINE h == (p \o body) \o q
<1>6. ASSUME NEW i \in DOMAIN h, IsImport(h[i])
      PROVE  h[i].text # <<>>
  <2> HIDE DEF h
  <2>1. PICK j \in DOMAIN f : IsImport(f[j]) /\ h[i].text = f[j].text
    BY <1>5, <1>6 DEF TextsFrom, h
  <2> QED
    BY <2>1 DEF Files
<1> HIDE DEF h
<1>7. h \in Files
  BY <1>3, <1>6 DEF Files, h
<1> QED
  BY <1>3, <1>5, <1>7 DEF h

LEMMA TextsOfPart ==
  ASSUME NEW f \in Files, NEW g \in Seq(Line), NEW m,
         \A i \in 1 .. Len(g) : m + i \in DOMAIN f /\ g[i] = f[m + i]
  PROVE  TextsFrom(g, f)
<1>1. DOMAIN g = 1 .. Len(g)
  BY SeqFacts
<1> QED
  BY <1>1 DEF TextsFrom

LEMMA NothingPending ==
  ASSUME NEW x \in Nat, NEW y, x - 1 \in Nat, y = 0
  PROVE  y \in 0 .. x - 1 /\ x - y .. x - 1 = {}
  OBVIOUS

LEMMA FlushStep ==
  ASSUME ScanInv, Flush
  PROVE  ScanInv' /\ (Kept => Kept')
<1>1. HasNewline /\ TypeOK /\ Collected
  BY DEF Flush, ScanInv
<1>2. /\ at \in Nat /\ pending \in Nat /\ at \in 1 .. Len(lines) /\ at - pending \in 1 .. at
      /\ Len(lines) \in Nat /\ DOMAIN lines = 1 .. Len(lines)
      /\ lines \in Seq(Line) /\ lines \in Files /\ lines[at].orig \in Int
  BY <1>1, LineScanned DEF TypeOK
<1> DEFINE m == at - pending
<1>3. PICK p, g, q, body, end : Cut(p, g, q, body, end)
  BY <1>1, FlushParts
<1>17. /\ p \in Seq(Line) /\ q \in Seq(Line) /\ Group(grouping, g)
       /\ Len(p) = m - 1 /\ Len(g) = end - m + 1 /\ Len(q) = Len(lines) - end
       /\ \A i \in 1 .. Len(p) : p[i] = lines[i]
       /\ \A i \in 1 .. Len(g) : g[i] = lines[m + i - 1]
       /\ \A i \in 1 .. Len(q) : q[i] = lines[end + i]
       /\ lines = (p \o g) \o q
       /\ body \in Flushed(g)
       /\ lines' = (p \o body) \o q
       /\ last' \in LastSeen(body)
  BY <1>3 DEF Cut
<1>18. IF IsImport(lines[at]) THEN end = at /\ at' = m + Len(body) + 0
       ELSE end = at - 1 /\ at' = m + Len(body) + 1
  BY <1>3 DEF Cut
<1>4. m \in 1 .. at /\ m \in Nat /\ end \in m - 1 .. Len(lines) /\ end \in Nat /\ end <= at
  <2>1. end = at \/ end = at - 1
    BY <1>18
  <2> QED
    BY <1>2, <2>1
<1> HIDE DEF m
<1>5. /\ pending' = 0 /\ running' = running /\ exited' = exited /\ grouping' = grouping
      /\ given' = given
  BY DEF Flush
<1>6. /\ body \in Files /\ TextsFrom(body, g)
      /\ (grouping => OneText(g)) => Alike(grouping, g, body)
  BY <1>1, <1>17, FlushedAlike DEF TypeOK
<1>7. TextsFrom(p, lines) /\ TextsFrom(g, lines) /\ TextsFrom(q, lines)
  <2>2. ASSUME NEW i \in 1 .. Len(g)
        PROVE  m - 1 + i \in DOMAIN lines /\ g[i] = lines[m - 1 + i]
    <3>1. m + i - 1 = m - 1 + i /\ m - 1 + i \in 1 .. Len(lines)
      BY <1>2, <1>17, <1>4
    <3> QED
      BY <1>2, <1>17, <3>1
  <2>3. ASSUME NEW i \in 1 .. Len(q)
        PROVE  end + i \in DOMAIN lines /\ q[i] = lines[end + i]
    <3>1. end + i \in 1 .. Len(lines)
      BY <1>2, <1>4, <1>17
    <3> QED
      BY <1>2, <1>17, <3>1
  <2>4. g \in Seq(Line)
    BY <1>17 DEF Group, Files
  <2>5. TextsFrom(p, lines)
    <3>2. DOMAIN p = 1 .. Len(p) /\ Len(p) = m - 1
      BY <1>17, SeqFacts
    <3>1. DOMAIN p = 1 .. Len(p) /\ \A i \in 1 .. Len(p) : i \in DOMAIN lines
      BY <1>2, <1>4, <3>2
    <3> QED
      BY <1>17, <3>1 DEF TextsFrom
  <2>6. TextsFrom(g, lines)
    BY <1>2, <2>2, <2>4, TextsOfPart
  <2>7. TextsFrom(q, lines)
    <3>1. DOMAIN q = 1 .. Len(q)
      BY <1>17, SeqFacts
    <3> QED
      BY <2>3, <3>1 DEF TextsFrom
  <2> QED
    BY <2>5, <2>6, <2>7
<1>8. TextsFrom(body, lines)
  BY <1>6, <1>7, TextsFromTransitive
<1>9. /\ (p \o body) \o q \in Files /\ Len((p \o body) \o q) = Len(p) + Len(body) + Len(q)
      /\ TextsFrom((p \o body) \o q, lines)
  BY <1>2, <1>17, <1>6, <1>7, <1>8, FileOfParts
<1>10. Len(body) \in Nat
  BY <1>6, SeqFacts DEF Files
<1>11. at' \in 1 .. Len(lines') + 1 /\ at' - 1 \in Nat /\ at' \in Nat
  <2>1. Len(lines') = m - 1 + Len(body) + (Len(lines) - end)
    BY <1>17, <1>9
  <2>2. CASE IsImport(lines[at])
    <3>1. at' = m + Len(body) /\ end = at
      BY <1>4, <1>10, <1>18, <2>2
    <3> QED
      BY <1>2, <1>4, <1>10, <2>1, <3>1
  <2>3. CASE ~IsImport(lines[at])
    <3>1. at' = m + Len(body) + 1 /\ end = at - 1
      BY <1>4, <1>10, <1>18, <2>3
    <3> QED
      BY <1>2, <1>4, <1>10, <2>1, <3>1
  <2> QED
    BY <2>2, <2>3
<1>12. last' \in Int \cup {None}
  <2>1. LastSeen(body) \subseteq Int \cup {None}
    BY <1>2, BoundsAssumption DEF LastSeen
  <2> QED
    BY <1>17, <2>1
<1>13. TypeOK'
  <2>1. pending' \in 0 .. at' - 1
    BY <1>5, <1>11, NothingPending
  <2> QED
    BY <1>1, <1>17, <1>5, <1>9, <1>11, <1>12, <2>1 DEF TypeOK
<1>14. Collected'
  <2>1. at' - pending' .. at' - 1 = {}
    BY <1>5, <1>11, NothingPending
  <2> QED
    BY <2>1 DEF Collected
<1>15. ASSUME Kept, Unambiguous \/ ~grouping
       PROVE  Alike(grouping, src, lines') /\ (grouping => OneText(lines'))
  <2>1. Alike(grouping, src, lines) /\ (grouping => OneText(lines))
    BY <1>15 DEF Kept
  <2>2. grouping => OneText(g)
    BY <1>7, <2>1, OneTextFrom
  <2>3. Alike(grouping, g, body)
    BY <1>6, <2>2
  <2>4. g \in Seq(Line) /\ body \in Seq(Line)
    BY <1>17, <1>6 DEF Group, Files
  <2>5. Alike(grouping, p \o g, p \o body) /\ p \o g \in Seq(Line) /\ p \o body \in Seq(Line)
    BY <1>17, <2>3, <2>4, AlikeBehind, ConcatProperties
  <2>6. Alike(grouping, lines, lines')
    BY <1>17, <2>5, AlikeBefore
  <2>7. grouping => OneText(lines')
    BY <1>17, <1>9, <2>1, OneTextFrom
  <2> QED
    BY <2>1, <2>6, <2>7, AlikeTransitive
<1>16. ASSUME Kept
       PROVE  Kept'
  <2>1. src' = src /\ (Unambiguous' <=> Unambiguous)
    BY <1>5 DEF src, Unambiguous
  <2>2. ASSUME Unambiguous' \/ ~grouping'
        PROVE  Alike(grouping', src', lines') /\ (grouping' => OneText(lines'))
    BY <1>5, <1>15, <1>16, <2>1, <2>2
  <2> QED
    BY <1>5, <2>2 DEF Kept
<1> QED
  BY <1>13, <1>14, <1>16 DEF ScanInv

LEMMA CollectStep ==
  ASSUME ScanInv, Collect
  PROVE  ScanInv' /\ (Kept => Kept')
<1>1. HasNewline /\ TypeOK /\ Collected
  BY DEF Collect, ScanInv
<1>2. /\ at \in Nat /\ pending \in Nat /\ at \in 1 .. Len(lines) /\ at - pending \in 1 .. at
      /\ Len(lines) \in Nat /\ lines[at].nl \in Nat /\ lines[at].nl > 0 /\ lines[at].orig \in Int
  BY <1>1, LineScanned
<1>3. /\ IsImport(lines[at]) /\ ~EndsGroup /\ pending' = pending + 1 /\ at' = at + 1
      /\ last' = lines[at].orig
      /\ lines' = lines /\ running' = running /\ exited' = exited /\ grouping' = grouping
      /\ given' = given
  BY DEF Collect
<1>4. TypeOK'
  <2>1. at' \in 1 .. Len(lines) + 1 /\ pending' \in 0 .. at' - 1 /\ last' \in Int \cup {None}
    BY <1>2, <1>3
  <2> QED
    BY <1>1, <1>3, <2>1 DEF TypeOK
<1>5. Collected'
  <2>1. ~grouping => lines[at].nl = 1
    BY <1>2, <1>3 DEF EndsGroup
  <2>2. ASSUME NEW k \in at' - pending' .. at' - 1
        PROVE  IsImport(lines[k]) /\ (~grouping => lines[k].nl = 1)
    <3>1. k = at \/ k \in at - pending .. at - 1
      BY <1>2, <1>3
    <3> QED
      BY <1>1, <1>3, <2>1, <3>1 DEF Collected
  <2> QED
    BY <1>3, <2>2 DEF Collected, IsImport
<1>6. Kept => Kept'
  BY <1>3 DEF Kept, src, Unambiguous
<1> QED
  BY <1>4, <1>5, <1>6 DEF ScanInv

LEMMA AgainStep ==
  ASSUME ScanInv, Again
  PROVE  ScanInv' /\ (Kept => Kept')
<1> DEFINE f == Numbered(lines)
<1>1. /\ lines' = f /\ given' = Append(given, f) /\ at' = 1 /\ pending' = 0 /\ last' = None
      /\ running' = TRUE /\ exited' = exited /\ grouping' = grouping /\ Len(given) = 1
  BY DEF Again
<1>2. f \in Files /\ TextsFrom(f, lines)
  BY NumberedFile DEF ScanInv, TypeOK
<1> HIDE DEF f
<1>3. given' \in Seq(Files) /\ Len(given') = 2 /\ given'[2] = f /\ given'[1] = given[1]
  <2>1. given \in Seq(Files)
    BY DEF ScanInv, TypeOK
  <2>2. f \in Files
    BY <1>2
  <2>3. Append(given, f) \in Seq(Files) /\ Len(Append(given, f)) = Len(given) + 1
    BY <2>1, <2>2, AppendProperties
  <2>4. Append(given, f)[Len(given) + 1] = f
    BY <2>1, <2>2, AppendProperties
  <2>5. Append(given, f)[1] = given[1]
    <3>1. 1 \in 1 .. Len(given)
      BY <1>1
    <3> QED
      BY <2>1, <2>2, <3>1, AppendProperties
  <2> QED
    BY <1>1, <2>3, <2>4, <2>5
<1>4. Len(f) \in Nat
  BY <1>2, SeqFacts DEF Files
<1>5. TypeOK'
  <2>1. at' \in 1 .. Len(lines') + 1 /\ pending' \in 0 .. at' - 1 /\ Len(given') \in 1 .. 2
    BY <1>1, <1>3, <1>4
  <2>2. exited' \in BOOLEAN /\ grouping' \in BOOLEAN /\ running' \in BOOLEAN
    BY <1>1 DEF ScanInv, TypeOK
  <2> QED
    BY <1>1, <1>2, <1>3, <2>1, <2>2 DEF TypeOK
<1>6. Collected'
  <2>1. (at - pending .. at - 1)' = {}
    BY <1>1
  <2> QED
    BY <2>1 DEF Collected
<1>7. ASSUME Kept
      PROVE  Kept'
  <2>1. src' = lines'
    BY <1>1, <1>3 DEF src
  <2>2. Alike(grouping', src', lines')
    BY <2>1, AlikeItself
  <2>3. ASSUME Unambiguous' \/ ~grouping', grouping'
        PROVE  OneText(lines')
    <3>1. OneText(lines)
      BY <1>1, <1>3, <1>7, <2>3 DEF Kept, Unambiguous
    <3> QED
      BY <1>1, <1>2, <3>1, OneTextFrom
  <2> QED
    BY <2>2, <2>3 DEF Kept
<1> QED
  BY <1>5, <1>6, <1>7 DEF ScanInv

LEMMA ScanStep ==
  ASSUME ScanInv, [Next]_vars
  PROVE  ScanInv' /\ (Kept => Kept')
<1>1. CASE Collect
  BY <1>1, CollectStep
<1>2. CASE Flush
  BY <1>2, FlushStep
<1>3. CASE TooMany
  BY <1>3 DEF TooMany, ScanInv, TypeOK, Collected, Kept, src, Unambiguous
<1>4. CASE Finish
  BY <1>4 DEF Finish, ScanInv, TypeOK, Collected, Kept, src, Unambiguous
<1>5. CASE Again
  BY <1>5, AgainStep
<1>6. CASE UNCHANGED vars
  BY <1>6 DEF vars, ScanInv, TypeOK, Collected, Kept, src, Unambiguous
<1> QED
  BY <1>1, <1>2, <1>3, <1>4, <1>5, <1>6 DEF Next

\* The chunk list stays a file whatever std::sort() makes of a group, the scan
\* stays in it, and the lines collected are always imports that may be sorted.
THEOREM TypeCorrect == Spec => [](TypeOK /\ Collected)
<1>1. ScanInv /\ [Next]_vars => ScanInv'
  BY ScanStep
<1>2. ScanInv => TypeOK /\ Collected
  BY DEF ScanInv
<1> QED
  BY <1>1, <1>2, InitScan, PTL DEF Spec

-----------------------------------------------------------------------------
(* What is alike keeps the imports                                         *)

LEMMA RegionIsCount ==
  ASSUME NEW f, NEW i
  PROVE  Region(f, i) = Count(grouping, f, i)
  BY DEF Region, Count, EndsBefore, Ends

\* A file and a file like it have the same code lines in a region.
LEMMA SameCode ==
  ASSUME NEW f \in Seq(Line), NEW g \in Seq(Line), NEW r \in Int, Alike(grouping, f, g),
         NEW i \in Code(f, r)
  PROVE  \E j \in Code(g, r) : g[j] = f[i]
<1>1. i \in DOMAIN f /\ f[i] \in Line /\ f[i].kind = "code" /\ Count(grouping, f, i) = r
  BY SeqFacts, RegionIsCount DEF Code
<1> DEFINE K == {f[i]}
<1>2. K \in Counted(grouping)
  BY <1>1 DEF Counted, CodeLines
<1>3. i \in Where(grouping, f, K, r)
  BY <1>1 DEF Where
<1>4. \A j : j \in Where(grouping, g, K, r) => j \in DOMAIN g /\ g[j] = f[i] /\ Count(grouping, g, j) = r
  BY DEF Where
<1> HIDE DEF K
<1>5. Tally(grouping, f, K, r) = Tally(grouping, g, K, r)
  BY <1>2 DEF Alike
<1>6. Tally(grouping, f, K, r) # 0
  BY <1>3, TallyIsNumber
<1>7. PICK j : j \in Where(grouping, g, K, r)
  BY <1>5, <1>6, TallyIsNumber
<1> QED
  BY <1>1, <1>4, <1>7, RegionIsCount DEF Code

\* And imports of the same texts.
LEMMA SameTexts ==
  ASSUME NEW f \in Seq(Line), NEW g \in Seq(Line), NEW r \in Int, Alike(grouping, f, g),
         NEW i \in Imports(f, r)
  PROVE  \E j \in Imports(g, r) : g[j].text = f[i].text
<1>1. i \in DOMAIN f /\ f[i] \in Line /\ IsImport(f[i]) /\ Count(grouping, f, i) = r
  BY SeqFacts, RegionIsCount DEF Imports
<1> DEFINE K == WithText(f[i].text)
<1>2. K \in Occurring
  BY <1>1 DEF Occurring, Line
<1>3. i \in Where(grouping, f, K, r)
  BY <1>1 DEF Where, WithText
<1>4. \A j : j \in Where(grouping, g, K, r) =>
               j \in DOMAIN g /\ IsImport(g[j]) /\ g[j].text = f[i].text /\ Count(grouping, g, j) = r
  BY DEF Where, WithText
<1> HIDE DEF K
<1>5. Tally(grouping, f, K, r) = 0 <=> Tally(grouping, g, K, r) = 0
  BY <1>2 DEF Alike
<1>6. Tally(grouping, f, K, r) # 0
  BY <1>3, TallyIsNumber
<1>7. PICK j : j \in Where(grouping, g, K, r)
  BY <1>5, <1>6, TallyIsNumber
<1> QED
  BY <1>1, <1>4, <1>7, RegionIsCount DEF Imports

LEMMA CommentsAreTallied ==
  ASSUME NEW f \in Seq(Line), NEW r
  PROVE  Cardinality(Comments(f, r)) = Tally(grouping, f, Commented, r)
<1>1. Comments(f, r) = Where(grouping, f, Commented, r)
  BY SeqFacts, RegionIsCount DEF Comments, Where, Commented
<1> QED
  BY <1>1 DEF Tally

LEMMA ImportsAreTallied ==
  ASSUME NEW f \in Seq(Line), NEW r
  PROVE  Cardinality(Imports(f, r)) = Tally(grouping, f, ImportLines, r)
<1>1. Imports(f, r) = Where(grouping, f, ImportLines, r)
  BY SeqFacts, RegionIsCount DEF Imports, Where, ImportLines
<1> QED
  BY <1>1 DEF Tally

LEMMA AlikeIsSymmetric ==
  ASSUME NEW b, NEW f, NEW g, Alike(b, f, g)
  PROVE  Alike(b, g, f)
  BY DEF Alike

LEMMA AlikeIsKept ==
  ASSUME ScanInv, Alike(grouping, src, lines)
  PROVE  ImportsKept
<1>1. lines \in Seq(Line)
  BY DEF ScanInv, TypeOK, Files
<1>2. src \in Seq(Line)
  <2>1. given \in Seq(Files) /\ Len(given) \in 1 .. 2
    BY DEF ScanInv, TypeOK
  <2>2. src \in Files
    BY <2>1, SeqFacts DEF src
  <2> QED
    BY <2>2 DEF Files
<1>3. Alike(grouping, lines, src)
  BY AlikeIsSymmetric
<1> DEFINE s == src
<1>4. s \in Seq(Line) /\ Alike(grouping, s, lines) /\ Alike(grouping, lines, s)
  BY <1>2, <1>3
<1> HIDE DEF s
<1>5. ASSUME NEW r \in Int
      PROVE  /\ {lines[i] : i \in Code(lines, r)} = {s[i] : i \in Code(s, r)}
             /\ {lines[i].text : i \in Imports(lines, r)} = {s[i].text : i \in Imports(s, r)}
             /\ Cardinality(Comments(lines, r)) = Cardinality(Comments(s, r))
             /\ ~grouping => Cardinality(Imports(lines, r)) = Cardinality(Imports(s, r))
  <2>1. {lines[i] : i \in Code(lines, r)} = {s[i] : i \in Code(s, r)}
    <3>1. \A i \in Code(lines, r) : \E j \in Code(s, r) : s[j] = lines[i]
      BY <1>1, <1>4, SameCode
    <3>2. \A i \in Code(s, r) : \E j \in Code(lines, r) : lines[j] = s[i]
      BY <1>1, <1>4, SameCode
    <3> QED
      BY <3>1, <3>2
  <2>2. {lines[i].text : i \in Imports(lines, r)} = {s[i].text : i \in Imports(s, r)}
    <3>1. \A i \in Imports(lines, r) : \E j \in Imports(s, r) : s[j].text = lines[i].text
      BY <1>1, <1>4, SameTexts
    <3>2. \A i \in Imports(s, r) : \E j \in Imports(lines, r) : lines[j].text = s[i].text
      BY <1>1, <1>4, SameTexts
    <3> QED
      BY <3>1, <3>2
  <2>3. Cardinality(Comments(lines, r)) = Cardinality(Comments(s, r))
    <3>1. Commented \in Counted(grouping)
      BY DEF Counted
    <3>2. Tally(grouping, s, Commented, r) = Tally(grouping, lines, Commented, r)
      BY <1>4, <3>1 DEF Alike
    <3> QED
      BY <1>1, <1>4, <3>2, CommentsAreTallied
  <2>4. ASSUME ~grouping
        PROVE  Cardinality(Imports(lines, r)) = Cardinality(Imports(s, r))
    <3>1. ImportLines \in Counted(grouping)
      BY <2>4 DEF Counted
    <3>2. Tally(grouping, s, ImportLines, r) = Tally(grouping, lines, ImportLines, r)
      BY <1>4, <3>1 DEF Alike
    <3> QED
      BY <1>1, <1>4, <3>2, ImportsAreTallied
  <2> QED
    BY <2>1, <2>2, <2>3, <2>4
<1>6. \A r \in 0 .. Len(s) : r \in Int
  OBVIOUS
<1> QED
  BY <1>5, <1>6 DEF ImportsKept, s

LEMMA InitKept ==
  ASSUME Init
  PROVE  Kept
<1>1. src = lines /\ given[1] = lines
  BY DEF Init, src
<1>2. Alike(grouping, src, lines)
  BY <1>1, AlikeItself
<1> QED
  BY <1>1, <1>2 DEF Kept, Unambiguous

\* No import, comment or code is lost or taken across code by the sort, the
\* blank lines and the deletion of duplicates, however often the list changes
\* under the scan and for both runs: for every file without grouping, and with
\* it when imports that start with the same chunk are the same import.  That
\* is what the packages run shows the code to need.
THEOREM ImportsStayKept == Spec => [](Unambiguous \/ ~grouping => ImportsKept)
<1>1. Init => ScanInv /\ Kept
  BY InitScan, InitKept
<1>2. ScanInv /\ Kept /\ [Next]_vars => (ScanInv /\ Kept)'
  BY ScanStep
<1>3. ScanInv /\ Kept => (Unambiguous \/ ~grouping => ImportsKept)
  BY AlikeIsKept DEF Kept
<1> QED
  BY <1>1, <1>2, <1>3, PTL DEF Spec

-----------------------------------------------------------------------------
(* A group that is flushed is in order                                     *)

\* May the second of these lines follow the first?
Fits(b, x, y) ==
  /\ ~Before(Key(y), Key(x))
  /\ b => ~Same(x, y) /\ x.nl = (IF Apart(x.text, y.text) THEN 2 ELSE 1)

Adjoin(b, x, y) == IsImport(x) /\ IsImport(y) /\ (b \/ x.nl = 1)

Settled(b, f) == \A i \in 1 .. Len(f) - 1 : Adjoin(b, f[i], f[i + 1]) => Fits(b, f[i], f[i + 1])

InOrder(f) == \A i, j \in DOMAIN f : i < j => ~Before(Key(f[j]), Key(f[i]))

Spaced(f) == \A i \in 1 .. Len(f) - 1 : f[i].nl = (IF Apart(f[i].text, f[i + 1].text) THEN 2 ELSE 1)

AllEnded(f) == \A i \in DOMAIN f : f[i].nl > 0

LEMMA NewlineSet ==
  ASSUME NEW x \in Line, NEW n
  PROVE  /\ [x EXCEPT !.nl = n].text = x.text /\ [x EXCEPT !.nl = n].nl = n
         /\ Key([x EXCEPT !.nl = n]) = Key(x)
<1>1. /\ [x EXCEPT !.nl = n].text = x.text /\ [x EXCEPT !.nl = n].nl = n
      /\ [x EXCEPT !.nl = n].comment = x.comment
  BY DEF Line
<1> QED
  BY <1>1 DEF Key

LEMMA SortedOrder ==
  ASSUME NEW b, NEW g, Group(b, g), NEW h \in Sortings(g)
  PROVE  /\ Group(b, h) /\ Len(h) = Len(g) /\ DOMAIN h = DOMAIN g
         /\ InOrder(h) /\ \A i \in DOMAIN g : h[i].nl = g[i].nl
<1>1. PICK p \in [DOMAIN g -> DOMAIN g] :
        /\ \A i, j \in DOMAIN g : i < j => ~Before(Key(g[p[j]]), Key(g[p[i]]))
        /\ h = [i \in DOMAIN g |-> [g[p[i]] EXCEPT !.nl = g[i].nl]]
  BY DEF Sortings
<1>2. \A i \in DOMAIN g : g[i] \in Line
  BY SeqFacts DEF Group, Files
<1>3. \A i \in DOMAIN g : h[i].nl = g[i].nl /\ Key(h[i]) = Key(g[p[i]])
  <2> SUFFICES ASSUME NEW i \in DOMAIN g
               PROVE  h[i].nl = g[i].nl /\ Key(h[i]) = Key(g[p[i]])
    OBVIOUS
  <2>1. h[i] = [g[p[i]] EXCEPT !.nl = g[i].nl] /\ g[p[i]] \in Line
    BY <1>1, <1>2
  <2> QED
    BY <2>1, NewlineSet
<1>4. Group(b, h) /\ Len(h) = Len(g) /\ DOMAIN h = DOMAIN g
  BY SortedAlike
<1>5. InOrder(h)
  BY <1>1, <1>3, <1>4 DEF InOrder
<1> QED
  BY <1>3, <1>4, <1>5

\* What dedupe_imports() is given.
LEMMA ReadyToDedupe ==
  ASSUME NEW b, OnlyCodeEnds(b), NEW g, Group(b, g), Len(g) > 0, AllEnded(g),
         NEW s \in Sortings(Joined(g))
  PROVE  /\ Group(b, Grouped(s)) /\ Len(Grouped(s)) = Len(g)
         /\ InOrder(Grouped(s)) /\ Spaced(Grouped(s)) /\ AllEnded(Grouped(s))
<1> DEFINE j == Joined(g)
           e == Grouped(s)
           n == Len(g)
<1>1. n \in Nat /\ DOMAIN g = 1 .. n /\ \A i \in 1 .. n : g[i] \in Line
  BY SeqFacts DEF Group, Files
<1>2. Group(b, j) /\ Len(j) = n /\ DOMAIN j = DOMAIN g
  BY JoinedAlike
<1>3. \A i \in 1 .. n : j[i].nl = IF i < n THEN 1 ELSE g[i].nl
  <2> SUFFICES ASSUME NEW i \in 1 .. n
               PROVE  j[i].nl = IF i < n THEN 1 ELSE g[i].nl
    OBVIOUS
  <2>1. j[i] = IF i < n THEN [g[i] EXCEPT !.nl = 1] ELSE g[i]
    BY <1>1 DEF Joined
  <2> QED
    BY <1>1, <2>1, NewlineSet
<1>4. s \in Sortings(j)
  OBVIOUS
<1> HIDE DEF j
<1>5. /\ Group(b, s) /\ Len(s) = n /\ DOMAIN s = 1 .. n
      /\ InOrder(s) /\ \A i \in 1 .. n : s[i].nl = j[i].nl
  BY <1>1, <1>2, <1>4, SortedOrder
<1>6. \A i \in 1 .. n : s[i] \in Line
  BY <1>5, SeqFacts DEF Group, Files
<1>7. Group(b, e) /\ Len(e) = n /\ DOMAIN e = 1 .. n /\ \A i \in 1 .. n : e[i].text = s[i].text
  BY <1>5, GroupedAlike
<1>8. ASSUME NEW i \in 1 .. n
      PROVE  /\ Key(e[i]) = Key(s[i])
             /\ e[i].nl = IF i < n /\ Apart(s[i].text, s[i + 1].text) THEN 2 ELSE s[i].nl
  <2>1. e[i] = IF i < n /\ s[i].nl < 2 /\ Apart(s[i].text, s[i + 1].text)
               THEN [s[i] EXCEPT !.nl = 2] ELSE s[i]
    BY <1>5 DEF Grouped
  <2>2. i < n => s[i].nl = 1
    BY <1>3, <1>5
  <2>3. Key([s[i] EXCEPT !.nl = 2]) = Key(s[i]) /\ [s[i] EXCEPT !.nl = 2].nl = 2
    BY <1>6, NewlineSet
  <2> QED
    BY <2>1, <2>2, <2>3
<1> HIDE DEF e
<1>9. InOrder(e)
  BY <1>5, <1>7, <1>8 DEF InOrder
<1>10. Spaced(e)
  <2> SUFFICES ASSUME NEW i \in 1 .. n - 1
               PROVE  e[i].nl = (IF Apart(e[i].text, e[i + 1].text) THEN 2 ELSE 1)
    BY <1>7 DEF Spaced
  <2>1. i \in 1 .. n /\ i + 1 \in 1 .. n /\ i < n
    BY <1>1
  <2>2. s[i].nl = 1 /\ e[i].text = s[i].text /\ e[i + 1].text = s[i + 1].text
    BY <1>3, <1>5, <1>7, <2>1
  <2>3. e[i].nl = IF Apart(s[i].text, s[i + 1].text) THEN 2 ELSE 1
    BY <1>8, <2>1, <2>2
  <2> QED
    BY <2>2, <2>3
<1>11. AllEnded(e)
  <2> SUFFICES ASSUME NEW i \in 1 .. n
               PROVE  e[i].nl > 0
    BY <1>7 DEF AllEnded
  <2>1. g[i].nl > 0 /\ g[i].nl \in Nat
    BY <1>1 DEF AllEnded, Line
  <2>2. e[i].nl = 2 \/ e[i].nl = 1 \/ e[i].nl = g[i].nl
    BY <1>3, <1>5, <1>8
  <2> QED
    BY <2>1, <2>2
<1> QED
  BY <1>7, <1>9, <1>10, <1>11 DEF e, n

LEMMA SettledWith ==
  ASSUME NEW b, NEW f \in Seq(Line), NEW x \in Line, Settled(b, f), AllEnded(f), x.nl > 0,
         Len(f) > 0 /\ Adjoin(b, f[Len(f)], x) => Fits(b, f[Len(f)], x)
  PROVE  /\ f \o <<x>> \in Seq(Line) /\ Len(f \o <<x>>) = Len(f) + 1
         /\ (f \o <<x>>)[Len(f) + 1] = x
         /\ Settled(b, f \o <<x>>) /\ AllEnded(f \o <<x>>)
<1> DEFINE h == f \o <<x>>
           n == Len(f)
<1>1. n \in Nat /\ DOMAIN f = 1 .. n
  BY SeqFacts
<1>2. <<x>> \in Seq(Line) /\ Len(<<x>>) = 1 /\ <<x>>[1] = x
  OBVIOUS
<1>3. /\ h \in Seq(Line) /\ Len(h) = n + 1
      /\ \A i \in 1 .. n + 1 : h[i] = IF i <= n THEN f[i] ELSE <<x>>[i - n]
  BY <1>2, ConcatProperties
<1>4. DOMAIN h = 1 .. n + 1
  BY <1>3, SeqFacts
<1>5. n + 1 - n = 1 /\ n + 1 \in 1 .. n + 1
  BY <1>1
<1>6. h[n + 1] = x /\ \A i \in 1 .. n : h[i] = f[i]
  BY <1>1, <1>2, <1>3, <1>5
<1> HIDE DEF h, n
<1>7. ASSUME NEW i \in 1 .. n, Adjoin(b, h[i], h[i + 1])
      PROVE  Fits(b, h[i], h[i + 1])
  <2>1. CASE i = n
    BY <1>1, <1>6, <1>7, <2>1 DEF n
  <2>2. CASE i # n
    <3>1. i \in 1 .. n - 1 /\ i + 1 \in 1 .. n
      BY <1>1, <2>2
    <3> QED
      BY <1>6, <1>7, <3>1 DEF Settled, n
  <2> QED
    BY <2>1, <2>2
<1>8. \A i \in 1 .. n + 1 : h[i].nl > 0
  <2>1. \A i \in 1 .. n + 1 : i = n + 1 \/ i \in 1 .. n
    BY <1>1
  <2> QED
    BY <1>1, <1>6, <2>1 DEF AllEnded
<1>9. n + 1 - 1 = n
  BY <1>1
<1> QED
  BY <1>3, <1>4, <1>6, <1>7, <1>8, <1>9 DEF Settled, AllEnded, h, n

\* Line x is the k-th of g and stays; those after it, up to the i-th, go.
Stands(g, i, k, x) ==
  /\ x = g[k] /\ ~Dropped(g, k)
  /\ k = i \/ (k < i /\ Dropped(g, i) /\ Same(g[k + 1], g[i]))

\* What is left of the first i lines is in order.
LeftFits(b, g, i, f) ==
  /\ f \in Seq(Line) /\ Len(f) <= i /\ Settled(b, f) /\ AllEnded(f)
  /\ Len(f) > 0 /\ IsImport(f[Len(f)]) => \E k \in 1 .. i : Stands(g, i, k, f[Len(f)])

Ready(b, g) == Group(b, g) /\ InOrder(g) /\ Spaced(g) /\ AllEnded(g)

LEMMA ReadyLine ==
  ASSUME NEW b, NEW g, Ready(b, g), NEW i \in 1 .. Len(g)
  PROVE  /\ g \in Seq(Line) /\ Len(g) \in Nat /\ DOMAIN g = 1 .. Len(g)
         /\ g[i] \in Line /\ g[i].nl > 0 /\ IsImport(g[i])
<1>1. g \in Seq(Line) /\ Len(g) \in Nat /\ DOMAIN g = 1 .. Len(g) /\ g[i] \in Line
  BY SeqFacts DEF Ready, Group, Files
<1> QED
  BY <1>1 DEF Ready, Group, AllEnded

\* The line that is left of a duplicate with a comment.
LEMMA CommentLeft ==
  ASSUME NEW x \in Line
  PROVE  LET y == [x EXCEPT !.kind = "comment", !.text = <<>>]
         IN  y \in Line /\ ~IsImport(y) /\ y.nl = x.nl
<1> DEFINE none == <<>>
<1>1. none \in Seq(Nat \ {0})
  OBVIOUS
<1> HIDE DEF none
<1>2. /\ [x EXCEPT !.kind = "comment", !.text = none] \in Line
      /\ [x EXCEPT !.kind = "comment", !.text = none].kind = "comment"
      /\ [x EXCEPT !.kind = "comment", !.text = none].nl = x.nl
  BY <1>1 DEF Line
<1> QED
  BY <1>2 DEF none, IsImport

\* Two lines of a group between which everything is deleted.
LEMMA StandsBefore ==
  ASSUME NEW b, NEW g, Ready(b, g), NEW i \in 1 .. Len(g), i + 1 \in 1 .. Len(g),
         NEW k \in 1 .. i, NEW x, Stands(g, i, k, x)
  PROVE  Same(g[k + 1], g[i + 1]) /\ Fits(b, x, g[i + 1])
<1>1. /\ Len(g) \in Nat /\ DOMAIN g = 1 .. Len(g)
      /\ k \in 1 .. Len(g) - 1 /\ k \in 1 .. Len(g) /\ k < i + 1 /\ k < Len(g)
  BY ReadyLine
<1>2. x = g[k] /\ ~Dropped(g, k) /\ (k = i \/ (Dropped(g, i) /\ Same(g[k + 1], g[i])))
  BY DEF Stands
<1>3. Same(g[k + 1], g[i + 1])
  BY <1>2 DEF Dropped, Same
<1>4. ~Same(g[k], g[k + 1])
  BY <1>1, <1>2 DEF Dropped
<1>5. ~Same(g[k], g[i + 1])
  BY <1>3, <1>4 DEF Same
<1>6. Apart(g[k].text, g[k + 1].text) <=> Apart(g[k].text, g[i + 1].text)
  BY <1>3 DEF Same, Apart
<1>7. g[k].nl = IF Apart(g[k].text, g[k + 1].text) THEN 2 ELSE 1
  BY <1>1 DEF Ready, Spaced
<1>8. ~Before(Key(g[i + 1]), Key(g[k]))
  BY <1>1 DEF Ready, InOrder
<1> QED
  BY <1>2, <1>3, <1>5, <1>6, <1>7, <1>8 DEF Fits

LEMMA LeftFitsNext ==
  ASSUME NEW b, NEW g, Ready(b, g), NEW i \in 1 .. Len(g), i + 1 \in 1 .. Len(g),
         NEW f, LeftFits(b, g, i, f)
  PROVE  LeftFits(b, g, i + 1, f \o Piece(g, i + 1))
<1> DEFINE n == i + 1
           p == Piece(g, n)
           x == f[Len(f)]
<1>1. /\ f \in Seq(Line) /\ Len(f) \in Nat /\ Len(f) <= i /\ Settled(b, f) /\ AllEnded(f)
      /\ Len(f) > 0 /\ IsImport(x) => \E k \in 1 .. i : Stands(g, i, k, x)
  BY SeqFacts DEF LeftFits
<1>2. /\ n \in 1 .. Len(g) /\ i \in Nat /\ n = i + 1 /\ n \in Nat
      /\ g[n] \in Line /\ g[n].nl > 0 /\ IsImport(g[n])
  BY ReadyLine
<1>3. Len(f) > 0 /\ IsImport(x) =>
        \E k \in 1 .. i : /\ x = g[k] /\ ~Dropped(g, k) /\ k \in 1 .. n /\ k < n
                          /\ Same(g[k + 1], g[n]) /\ Fits(b, x, g[n])
  <2> SUFFICES ASSUME Len(f) > 0 /\ IsImport(x)
               PROVE  \E k \in 1 .. i : /\ x = g[k] /\ ~Dropped(g, k) /\ k \in 1 .. n /\ k < n
                                        /\ Same(g[k + 1], g[n]) /\ Fits(b, x, g[n])
    OBVIOUS
  <2>1. PICK k \in 1 .. i : Stands(g, i, k, x)
    BY <1>1
  <2>2. Same(g[k + 1], g[n]) /\ Fits(b, x, g[n])
    BY <2>1, StandsBefore
  <2>3. k \in 1 .. n /\ k < n
    BY <1>2
  <2> QED
    BY <2>1, <2>2, <2>3 DEF Stands
<1> HIDE DEF n, p
<1>4. CASE ~Dropped(g, n)
  <2>1. p = <<g[n]>>
    BY <1>2, <1>4 DEF p, Piece, Dropped
  <2>2. Len(f) > 0 /\ Adjoin(b, f[Len(f)], g[n]) => Fits(b, f[Len(f)], g[n])
    BY <1>3 DEF Adjoin
  <2>3. /\ f \o <<g[n]>> \in Seq(Line) /\ Len(f \o <<g[n]>>) = Len(f) + 1
        /\ (f \o <<g[n]>>)[Len(f) + 1] = g[n]
        /\ Settled(b, f \o <<g[n]>>) /\ AllEnded(f \o <<g[n]>>)
    BY <1>1, <1>2, <2>2, SettledWith
  <2>4. Stands(g, n, n, g[n]) /\ n \in 1 .. n
    BY <1>2, <1>4 DEF Stands
  <2>5. Len(f) + 1 <= n
    BY <1>1, <1>2
  <2> QED
    BY <2>1, <2>3, <2>4, <2>5 DEF LeftFits, n, p
<1>5. CASE Dropped(g, n) /\ g[n].comment
  <2> DEFINE y == [g[n] EXCEPT !.kind = "comment", !.text = <<>>]
  <2>1. p = <<y>>
    BY <1>2, <1>5 DEF p, Piece, Dropped, DeleteChunksOnLine
  <2>2. y \in Line /\ ~IsImport(y) /\ y.nl > 0
    BY <1>2, CommentLeft
  <2> HIDE DEF y
  <2>3. /\ f \o <<y>> \in Seq(Line) /\ Len(f \o <<y>>) = Len(f) + 1
        /\ (f \o <<y>>)[Len(f) + 1] = y
        /\ Settled(b, f \o <<y>>) /\ AllEnded(f \o <<y>>)
    <3>1. ~Adjoin(b, f[Len(f)], y)
      BY <2>2 DEF Adjoin
    <3> QED
      BY <1>1, <2>2, <3>1, SettledWith
  <2>5. Len(f) + 1 <= n
    BY <1>1, <1>2
  <2> QED
    BY <2>1, <2>2, <2>3, <2>5 DEF LeftFits, n, p
<1>6. CASE Dropped(g, n) /\ ~g[n].comment
  <2>1. p = <<>>
    BY <1>2, <1>6 DEF p, Piece, Dropped, DeleteChunksOnLine
  <2>2. f \o p = f
    BY <1>1, <2>1, ConcatEmptySeq
  <2>3. Len(f) > 0 /\ IsImport(x) => \E k \in 1 .. n : Stands(g, n, k, x)
    BY <1>3, <1>6 DEF Stands
  <2>4. Len(f) <= n
    BY <1>1, <1>2
  <2> QED
    BY <1>1, <2>2, <2>3, <2>4 DEF LeftFits, n, p
<1> QED
  BY <1>4, <1>5, <1>6

\* Of a group in order dedupe_imports() leaves one in order that has no import
\* twice, with blank lines where they belong.
LEMMA DedupedFits ==
  ASSUME NEW b, NEW g, Ready(b, g), Len(g) > 0
  PROVE  /\ Deduped(g) \in Seq(Line) /\ Len(Deduped(g)) <= Len(g)
         /\ Settled(b, Deduped(g)) /\ AllEnded(Deduped(g))
<1> DEFINE n == Len(g)
           s == [i \in DOMAIN g |-> Piece(g, i)]
           d == Deduped(g)
<1>1. n \in Nat /\ n > 0 /\ DOMAIN g = 1 .. n /\ \A i \in 1 .. n : g[i] \in Line
  BY SeqFacts DEF Ready, Group, Files
<1>2. d = FlattenSeq(s)
  BY DEF Deduped, Piece
<1>3. s \in Seq(Seq(Line)) /\ Len(s) = n /\ \A i \in 1 .. n : s[i] = Piece(g, i)
  <2>1. \A i \in 1 .. n : Piece(g, i) \in Seq(Line)
    <3> SUFFICES ASSUME NEW i \in 1 .. n
                 PROVE  Piece(g, i) \in Seq(Line)
      OBVIOUS
    <3>0. g[i] \in Line /\ [g[i] EXCEPT !.kind = "comment", !.text = <<>>] \in Line
      BY <1>1, CommentLeft
    <3>1. <<g[i]>> \in Seq(Line) /\ <<[g[i] EXCEPT !.kind = "comment", !.text = <<>>]>> \in Seq(Line)
      BY <3>0
    <3>2. <<>> \in Seq(Line)
      OBVIOUS
    <3> QED
      BY <3>1, <3>2 DEF Piece, DeleteChunksOnLine
  <2>2. s \in [1 .. n -> Seq(Line)]
    BY <1>1, <2>1
  <2> QED
    BY <1>1, <2>2
<1> HIDE DEF s, d, n
<1>4. PICK u \in [1 .. n -> Seq(Line)] :
        /\ u[1] = s[1] /\ \A i \in 2 .. n : u[i] = u[i - 1] \o s[i]
        /\ d = u[n]
  <2>1. Len(s) > 0
    BY <1>1, <1>3
  <2> QED
    BY <1>2, <1>3, <2>1, Flattened
<1> DEFINE Good == {i \in Nat : i \in 1 .. n => LeftFits(b, g, i, u[i])}
<1>6. LeftFits(b, g, 1, u[1])
  <2>1. 1 \in 1 .. n /\ 1 \in 1 .. Len(g)
    BY <1>1 DEF n
  <2>2. u[1] = Piece(g, 1)
    BY <1>3, <1>4, <2>1
  <2>3. g[1] \in Line /\ g[1].nl > 0 /\ IsImport(g[1])
    BY <2>1, ReadyLine
  <2>4. CASE ~Dropped(g, 1)
    <3> DEFINE f == <<g[1]>>
    <3>1. f \in Seq(Line) /\ Len(f) = 1 /\ f[1] = g[1] /\ DOMAIN f = {1}
      BY <2>3
    <3>2. Stands(g, 1, 1, g[1]) /\ 1 \in 1 .. 1
      BY <2>4 DEF Stands
    <3>3. Piece(g, 1) = f
      BY <2>4 DEF Piece, Dropped
    <3> HIDE DEF f
    <3>4. Settled(b, f) /\ AllEnded(f)
      BY <2>3, <3>1 DEF Settled, AllEnded
    <3>5. u[1] = f /\ Len(f) <= 1 /\ Stands(g, 1, 1, f[Len(f)])
      BY <2>2, <3>1, <3>2, <3>3
    <3> QED
      BY <3>1, <3>2, <3>4, <3>5 DEF LeftFits
  <2>5. CASE Dropped(g, 1) /\ g[1].comment
    <3> DEFINE y == [g[1] EXCEPT !.kind = "comment", !.text = <<>>]
    <3>1. y \in Line /\ ~IsImport(y) /\ y.nl > 0
      BY <2>3, CommentLeft
    <3>2. Piece(g, 1) = <<y>>
      BY <2>5 DEF Piece, Dropped, DeleteChunksOnLine
    <3> HIDE DEF y
    <3> DEFINE f == <<y>>
    <3>3. f \in Seq(Line) /\ Len(f) = 1 /\ f[1] = y /\ DOMAIN f = {1}
      BY <3>1
    <3>4. u[1] = f
      BY <2>2, <3>2
    <3> HIDE DEF f
    <3>5. Settled(b, f) /\ AllEnded(f)
      BY <3>1, <3>3 DEF Settled, AllEnded
    <3>6. Len(f) <= 1 /\ ~IsImport(f[Len(f)])
      BY <3>1, <3>3
    <3> QED
      BY <3>3, <3>4, <3>5, <3>6 DEF LeftFits
  <2>6. CASE Dropped(g, 1) /\ ~g[1].comment
    <3> DEFINE f == <<>>
    <3>1. u[1] = f
      BY <2>2, <2>6 DEF Piece, Dropped, DeleteChunksOnLine
    <3>2. f \in Seq(Line) /\ Len(f) = 0 /\ DOMAIN f = {}
      OBVIOUS
    <3> HIDE DEF f
    <3>3. Settled(b, f) /\ AllEnded(f)
      BY <3>2 DEF Settled, AllEnded
    <3> QED
      BY <3>1, <3>2, <3>3 DEF LeftFits
  <2> QED
    BY <2>4, <2>5, <2>6
<1>7. ASSUME NEW k \in Nat, k \in Good, k + 1 \in 1 .. n
      PROVE  LeftFits(b, g, k + 1, u[k + 1])
  <2>1. CASE k = 0
    <3>1. k + 1 = 1
      BY <2>1
    <3> QED
      BY <1>6, <3>1
  <2>2. CASE k # 0
    <3>1. k \in 1 .. n /\ k + 1 \in 2 .. n
      BY <1>1, <1>7, <2>2
    <3>2. LeftFits(b, g, k, u[k])
      BY <1>7, <3>1
    <3>3. u[k + 1] = u[k] \o Piece(g, k + 1)
      <4> DEFINE i == k + 1
      <4>1. i \in 2 .. n /\ i - 1 = k /\ i \in 1 .. n
        BY <1>7, <3>1
      <4> HIDE DEF i
      <4>2. u[i] = u[k] \o Piece(g, i)
        BY <1>3, <1>4, <4>1
      <4> QED
        BY <4>2 DEF i
    <3>4. k \in 1 .. Len(g) /\ k + 1 \in 1 .. Len(g)
      BY <1>7, <3>1 DEF n
    <3> QED
      BY <3>2, <3>3, <3>4, LeftFitsNext
  <2> QED
    BY <2>1, <2>2
<1>8. LeftFits(b, g, n, d)
  <2>1. 0 \in Good
    OBVIOUS
  <2>2. \A k \in Nat : k \in Good => k + 1 \in Good
    BY <1>7
  <2>3. Nat \subseteq Good
    <3> HIDE DEF Good
    <3> QED
      BY <2>1, <2>2, InductiveSet
  <2>4. LeftFits(b, g, n, u[n])
    BY <1>1, <2>3
  <2> QED
    BY <1>4, <2>4
<1> QED
  BY <1>8 DEF LeftFits, d, n

LEMMA FlushedFits ==
  ASSUME grouping \in BOOLEAN, NEW g, Group(grouping, g), AllEnded(g), NEW body \in Flushed(g)
  PROVE  /\ body \in Seq(Line) /\ Len(body) <= Len(g)
         /\ Settled(grouping, body) /\ AllEnded(body)
         /\ ~grouping => Len(body) = Len(g) /\ \A i \in 1 .. Len(g) : body[i].nl = g[i].nl
<1> DEFINE b == grouping
<1>1. g \in Seq(Line) /\ Len(g) \in Nat /\ DOMAIN g = 1 .. Len(g)
  BY SeqFacts DEF Group, Files
<1>2. CASE Len(g) < 2
  <2>1. body = g
    BY <1>2 DEF Flushed
  <2>2. 1 .. Len(g) - 1 = {}
    BY <1>1, <1>2
  <2>3. Settled(b, g)
    BY <2>2 DEF Settled
  <2> QED
    BY <1>1, <2>1, <2>3
<1>3. CASE ~(Len(g) < 2) /\ grouping
  <2>1. PICK s \in Sortings(Joined(g)) : body = Deduped(Grouped(s))
    BY <1>3 DEF Flushed
  <2>2. OnlyCodeEnds(b) /\ Len(g) > 0
    BY <1>1, <1>3 DEF OnlyCodeEnds
  <2> DEFINE e == Grouped(s)
  <2>3. Ready(b, e) /\ Len(e) = Len(g)
    BY <2>2, ReadyToDedupe DEF Ready
  <2> HIDE DEF b, e
  <2>4. /\ Deduped(e) \in Seq(Line) /\ Len(Deduped(e)) <= Len(e)
        /\ Settled(b, Deduped(e)) /\ AllEnded(Deduped(e))
    BY <2>2, <2>3, DedupedFits
  <2> QED
    BY <1>3, <2>1, <2>3, <2>4 DEF e, b
<1>4. CASE ~(Len(g) < 2) /\ ~grouping
  <2>1. body \in Sortings(g)
    BY <1>4 DEF Flushed
  <2>2. /\ Group(b, body) /\ Len(body) = Len(g) /\ DOMAIN body = DOMAIN g
        /\ InOrder(body) /\ \A i \in DOMAIN g : body[i].nl = g[i].nl
    BY <2>1, SortedOrder
  <2>3. body \in Seq(Line)
    BY <2>2 DEF Group, Files
  <2>4. Settled(b, body)
    <3> SUFFICES ASSUME NEW i \in 1 .. Len(body) - 1
                 PROVE  Fits(b, body[i], body[i + 1])
      BY DEF Settled
    <3>1. i \in DOMAIN body /\ i + 1 \in DOMAIN body /\ i < i + 1
      BY <1>1, <2>2
    <3>2. ~Before(Key(body[i + 1]), Key(body[i]))
      BY <2>2, <3>1 DEF InOrder
    <3> QED
      BY <1>4, <3>2 DEF Fits
  <2>5. AllEnded(body)
    BY <2>2 DEF AllEnded
  <2> QED
    BY <1>1, <2>2, <2>3, <2>4, <2>5
<1> QED
  BY <1>2, <1>3, <1>4

-----------------------------------------------------------------------------
(* Every group is flushed                                                  *)

\* The lines that are not scanned yet are those of the file, at the end of it.
Remaining ==
  /\ Len(lines) <= Len(src)
  /\ \A i \in at .. Len(lines) : lines[i] = src[i + (Len(src) - Len(lines))]

\* The import that is remembered is the line before the one that is scanned.
Remembered ==
  grouping /\ at <= Len(lines) /\ last # None =>
    LET i == at + (Len(src) - Len(lines)) IN i > 1 /\ last = src[i - 1].orig

\* The lines before those collected are in order, and the last of them and the
\* first collected are not of one group.
Closed ==
  at <= Len(lines) /\ at - pending > 1 =>
    LET line == lines[at - pending - 1] IN ~IsImport(line) \/ (~grouping /\ line.nl > 1)

Sorted ==
  \A i \in 1 .. at - pending - 2 :
    Adjoin(grouping, lines[i], lines[i + 1]) => Fits(grouping, lines[i], lines[i + 1])

\* Nothing is given up.
Through ==
  ~running /\ ~exited /\ (Len(src) > 0 => src[Len(src)].nl > 0) => at > Len(lines)

OrderInv ==
  /\ Terminated(lines) /\ Terminated(src) /\ Remaining
  /\ at > Len(lines) => pending = 0
  /\ Narrow(src) => Remembered /\ Closed /\ Sorted /\ Through

LEMMA SourceFacts ==
  ASSUME TypeOK
  PROVE  /\ src \in Files /\ src \in Seq(Line) /\ Len(src) \in Nat /\ DOMAIN src = 1 .. Len(src)
         /\ \A i \in 1 .. Len(src) : src[i] \in Line /\ src[i].nl \in Nat /\ src[i].orig \in Int
<1>1. given \in Seq(Files) /\ Len(given) \in 1 .. 2
  BY DEF TypeOK
<1>2. src \in Files
  BY <1>1, SeqFacts DEF src
<1>3. src \in Seq(Line)
  BY <1>2 DEF Files
<1>4. Len(src) \in Nat /\ DOMAIN src = 1 .. Len(src) /\ \A i \in 1 .. Len(src) : src[i] \in Line
  BY <1>3, SeqFacts
<1> QED
  BY <1>2, <1>3, <1>4 DEF Line

\* In a file without wide gaps the scan gives up at no line.
LEMMA NearLast ==
  ASSUME TypeOK, Remaining, Remembered, Narrow(src), HasNewline, grouping
  PROVE  ~Beyond(MaxGap) /\ ~TooFar
<1> DEFINE i == at + (Len(src) - Len(lines))
<1>1. at \in 1 .. Len(lines) /\ Len(lines) \in Nat /\ lines[at].orig \in Int
  BY LineScanned
<1>2. Len(src) \in Nat /\ \A k \in 1 .. Len(src) : src[k].orig \in Int
  BY SourceFacts
<1>3. lines[at] = src[i] /\ Len(lines) <= Len(src)
  BY <1>1 DEF Remaining
<1>4. SUFFICES ASSUME last # None
               PROVE  lines[at].orig - last <= MaxGap /\ last \in Int
  BY <1>1, BoundsAssumption DEF Beyond, TooFar
<1>5. i > 1 /\ last = src[i - 1].orig
  BY <1>1, <1>4 DEF Remembered
<1>6. i \in 2 .. Len(src) /\ i - 1 \in 1 .. Len(src)
  BY <1>1, <1>2, <1>3, <1>5
<1>7. src[i].orig - src[i - 1].orig <= MaxGap
  BY <1>6 DEF Narrow
<1> QED
  BY <1>2, <1>3, <1>5, <1>6, <1>7

\* The state a run starts in.
LEMMA FreshOrder ==
  ASSUME NEW f \in Seq(Line), Terminated(f)
  PROVE  /\ Len(f) <= Len(f)
         /\ \A i \in 1 .. Len(f) : f[i] = f[i + (Len(f) - Len(f))]
         /\ 1 .. 1 - 0 - 2 = {} /\ ~(1 - 0 > 1)
<1>1. Len(f) \in Nat
  BY SeqFacts
<1>2. Len(f) - Len(f) = 0
  BY <1>1
<1>3. \A i \in 1 .. Len(f) : i + 0 = i
  BY <1>1
<1> QED
  BY <1>1, <1>2, <1>3

LEMMA InitOrder ==
  ASSUME Init
  PROVE  OrderInv
<1>1. lines \in Seq(Line) /\ Terminated(lines)
  BY InputsAssumption DEF Init, Files
<1>2. src = lines /\ at = 1 /\ pending = 0 /\ last = None /\ running = TRUE
  BY DEF Init, src
<1>3. Remaining
  BY <1>1, <1>2, FreshOrder DEF Remaining
<1>4. Remembered /\ Closed /\ Sorted /\ Through
  BY <1>1, <1>2, FreshOrder DEF Remembered, Closed, Sorted, Through
<1> QED
  BY <1>1, <1>2, <1>3, <1>4 DEF OrderInv

LEMMA AgainOrder ==
  ASSUME ScanInv, OrderInv, Again
  PROVE  OrderInv'
<1> DEFINE f == Numbered(lines)
<1>1. /\ lines' = f /\ given' = Append(given, f) /\ at' = 1 /\ pending' = 0 /\ last' = None
      /\ running' = TRUE /\ Len(given) = 1
  BY DEF Again
<1>2. /\ f \in Files /\ Len(f) = Len(lines) /\ DOMAIN f = DOMAIN lines
      /\ \A i \in DOMAIN lines : f[i].nl = lines[i].nl
  BY NumberedFile DEF ScanInv, TypeOK
<1>3. Len(lines) \in Nat /\ DOMAIN lines = 1 .. Len(lines)
  BY SeqFacts DEF ScanInv, TypeOK, Files
<1> HIDE DEF f
<1>4. Terminated(f)
  <2>1. \A i \in 1 .. Len(lines) - 1 : i \in DOMAIN lines
    BY <1>3
  <2> QED
    BY <1>2, <2>1 DEF OrderInv, Terminated
<1>5. src' = f
  <2>1. given \in Seq(Files)
    BY DEF ScanInv, TypeOK
  <2>2. Len(Append(given, f)) = Len(given) + 1
    BY <1>2, <2>1, AppendProperties
  <2>3. Append(given, f)[Len(given) + 1] = f
    BY <1>2, <2>1, AppendProperties
  <2> QED
    BY <1>1, <2>2, <2>3 DEF src
<1>6. f \in Seq(Line)
  BY <1>2 DEF Files
<1>7. Remaining'
  BY <1>1, <1>4, <1>5, <1>6, FreshOrder DEF Remaining
<1>8. Remembered' /\ Closed' /\ Sorted' /\ Through'
  BY <1>1, <1>4, <1>6, FreshOrder DEF Remembered, Closed, Sorted, Through
<1>9. Terminated(lines)' /\ Terminated(src)'
  BY <1>1, <1>4, <1>5
<1> QED
  BY <1>1, <1>7, <1>8, <1>9 DEF OrderInv

LEMMA CollectOrder ==
  ASSUME ScanInv, OrderInv, Collect
  PROVE  OrderInv'
<1>1. HasNewline /\ TypeOK /\ running
  BY DEF Collect, ScanInv
<1>2. /\ at \in Nat /\ pending \in Nat /\ at \in 1 .. Len(lines) /\ at - pending \in 1 .. at
      /\ Len(lines) \in Nat /\ Len(src) \in Nat
  BY <1>1, LineScanned, SourceFacts
<1>3. /\ ~EndsGroup /\ pending' = pending + 1 /\ at' = at + 1 /\ last' = lines[at].orig
      /\ lines' = lines /\ running' = running /\ grouping' = grouping /\ src' = src
  BY DEF Collect, src
<1>4. at < Len(lines)
  BY <1>2, <1>3 DEF EndsGroup
<1>5. at' - pending' = at - pending /\ at' \in 1 .. Len(lines) /\ at' - 1 = at
  BY <1>2, <1>3, <1>4
<1>6. Len(lines) <= Len(src) /\ \A i \in at .. Len(lines) : lines[i] = src[i + (Len(src) - Len(lines))]
  BY DEF OrderInv, Remaining
<1>7. Remaining'
  <2>1. \A i \in at' .. Len(lines) : i \in at .. Len(lines)
    BY <1>2, <1>3
  <2> QED
    BY <1>3, <1>6, <2>1 DEF Remaining
<1>8. Remembered'
  <2> DEFINE i == at + (Len(src) - Len(lines))
             j == at' + (Len(src) - Len(lines))
  <2>1. lines[at] = src[i]
    BY <1>2, <1>6
  <2>2. j > 1 /\ j - 1 = i
    BY <1>2, <1>3, <1>6
  <2>3. last' = src[j - 1].orig
    BY <1>3, <2>1, <2>2
  <2> QED
    BY <1>3, <2>2, <2>3 DEF Remembered
<1>9. Narrow(src)' => Closed' /\ Sorted'
  <2> SUFFICES ASSUME Narrow(src)
               PROVE  Closed' /\ Sorted'
    BY <1>3 DEF Narrow
  <2>1. Closed /\ Sorted
    BY DEF OrderInv
  <2>2. Closed'
    BY <1>2, <1>3, <1>5, <2>1 DEF Closed, IsImport
  <2>3. Sorted'
    BY <1>3, <1>5, <2>1 DEF Sorted, Adjoin, IsImport, Fits
  <2> QED
    BY <2>2, <2>3
<1>10. Through'
  BY <1>1, <1>3 DEF Through
<1>11. Terminated(lines)' /\ Terminated(src)'
  BY <1>3 DEF OrderInv, Terminated
<1>12. ~(at' > Len(lines'))
  BY <1>2, <1>3, <1>5
<1> QED
  BY <1>7, <1>8, <1>9, <1>10, <1>11, <1>12 DEF OrderInv

LEMMA FinishOrder ==
  ASSUME ScanInv, OrderInv, Finish
  PROVE  OrderInv'
<1>1. /\ TypeOK
      /\ HasNewline => TooFar
      /\ lines' = lines /\ at' = at /\ pending' = pending /\ last' = last /\ exited' = exited
      /\ grouping' = grouping /\ src' = src
  BY DEF Finish, ScanInv, src
<1>2. Len(lines) \in Nat /\ at \in 1 .. Len(lines) + 1
  BY <1>1, SeqFacts DEF TypeOK, Files
<1>3. ASSUME Narrow(src), Len(src) > 0 => src[Len(src)].nl > 0
      PROVE  at > Len(lines)
  <2> SUFFICES ASSUME at <= Len(lines)
               PROVE  FALSE
    BY <1>2
  <2>1. Len(src) \in Nat /\ Len(lines) <= Len(src) /\ at \in 1 .. Len(lines)
    BY <1>1, <1>2, SourceFacts DEF OrderInv, Remaining
  <2>2. HasNewline
    <3>1. CASE at = Len(lines)
      <4>1. lines[at] = src[at + (Len(src) - Len(lines))]
        BY <2>1 DEF OrderInv, Remaining
      <4>2. at + (Len(src) - Len(lines)) = Len(src) /\ Len(src) > 0
        BY <1>2, <2>1, <3>1
      <4> QED
        BY <1>3, <2>1, <4>1, <4>2 DEF HasNewline
    <3>2. CASE at # Len(lines)
      <4>1. at \in 1 .. Len(lines) - 1
        BY <1>2, <2>1, <3>2
      <4> QED
        BY <4>1 DEF OrderInv, Terminated, HasNewline
    <3> QED
      BY <3>1, <3>2
  <2>3. grouping /\ TooFar
    BY <1>1, <2>2 DEF TooFar
  <2> QED
    BY <1>1, <1>3, <2>2, <2>3, NearLast DEF OrderInv
<1>4. Narrow(src)' => Through'
  BY <1>1, <1>3 DEF Through, Narrow
<1> QED
  BY <1>1, <1>4 DEF OrderInv, Terminated, Remaining, Narrow, Remembered, Closed, Sorted, Adjoin,
                    IsImport, Fits

LEMMA TooManyOrder ==
  ASSUME OrderInv, TooMany
  PROVE  OrderInv'
<1>1. /\ lines' = lines /\ at' = at /\ pending' = pending /\ last' = last /\ exited' = TRUE
      /\ grouping' = grouping /\ src' = src
  BY DEF TooMany, src
<1>2. Through'
  BY <1>1 DEF Through
<1> QED
  BY <1>1, <1>2 DEF OrderInv, Terminated, Remaining, Narrow, Remembered, Closed, Sorted, Adjoin,
                    IsImport, Fits

LEMMA ThreeParts ==
  ASSUME NEW p \in Seq(Line), NEW h \in Seq(Line), NEW q \in Seq(Line)
  PROVE  /\ Len((p \o h) \o q) = Len(p) + Len(h) + Len(q)
         /\ \A i \in 1 .. Len(p) : ((p \o h) \o q)[i] = p[i]
         /\ \A i \in 1 .. Len(h) : ((p \o h) \o q)[Len(p) + i] = h[i]
         /\ \A i \in 1 .. Len(q) : ((p \o h) \o q)[Len(p) + Len(h) + i] = q[i]
<1> DEFINE l == p \o h
<1>1. Len(p) \in Nat /\ Len(h) \in Nat /\ Len(q) \in Nat
  BY SeqFacts
<1>2. /\ l \in Seq(Line) /\ Len(l) = Len(p) + Len(h)
      /\ \A i \in 1 .. Len(p) + Len(h) : l[i] = IF i <= Len(p) THEN p[i] ELSE h[i - Len(p)]
  BY ConcatProperties
<1> HIDE DEF l
<1>7. l \in Seq(Line)
  BY <1>2
<1>3. /\ Len(l \o q) = Len(l) + Len(q)
      /\ \A i \in 1 .. Len(l) + Len(q) : (l \o q)[i] = IF i <= Len(l) THEN l[i] ELSE q[i - Len(l)]
  BY <1>7, ConcatProperties
<1>4. ASSUME NEW i \in 1 .. Len(p)
      PROVE  (l \o q)[i] = p[i]
  <2>1. /\ i \in 1 .. Len(p) + Len(h) /\ i \in 1 .. Len(l) + Len(q)
        /\ i <= Len(p) /\ i <= Len(l)
    BY <1>1, <1>2
  <2> QED
    BY <1>2, <1>3, <2>1
<1>5. ASSUME NEW i \in 1 .. Len(h)
      PROVE  (l \o q)[Len(p) + i] = h[i]
  <2> DEFINE k == Len(p) + i
  <2>1. /\ k \in 1 .. Len(p) + Len(h) /\ k \in 1 .. Len(l) + Len(q)
        /\ ~(k <= Len(p)) /\ k <= Len(l) /\ k - Len(p) = i
    BY <1>1, <1>2
  <2> HIDE DEF k
  <2>2. (l \o q)[k] = h[i]
    BY <1>2, <1>3, <2>1
  <2> QED
    BY <2>2 DEF k
<1>6. ASSUME NEW i \in 1 .. Len(q)
      PROVE  (l \o q)[Len(p) + Len(h) + i] = q[i]
  <2> DEFINE k == Len(p) + Len(h) + i
  <2>1. k \in 1 .. Len(l) + Len(q) /\ ~(k <= Len(l)) /\ k - Len(l) = i
    BY <1>1, <1>2
  <2> HIDE DEF k
  <2>2. (l \o q)[k] = q[i]
    BY <1>3, <2>1
  <2> QED
    BY <2>2 DEF k
<1> QED
  BY <1>2, <1>3, <1>4, <1>5, <1>6 DEF l

\* What a flush makes of the lines: those from m to end become the body, the
\* last line of which is then line 'to'.
Flushing(m, end, to, body) ==
  /\ m \in Nat /\ end \in Nat /\ to \in Nat
  /\ m = at - pending /\ m >= 1 /\ end <= at /\ end >= m - 1
  /\ end = IF IsImport(lines[at]) THEN at ELSE at - 1
  /\ to = m - 1 + Len(body) /\ to <= end
  /\ at' = to + 1 + (at - end) /\ pending' = 0
  /\ Len(lines') = to + Len(lines) - end
  /\ \A i \in 1 .. m - 1 : lines'[i] = lines[i]
  /\ \A i \in 1 .. Len(body) : lines'[m - 1 + i] = body[i]
  /\ \A i \in 1 .. Len(lines) - end : lines'[to + i] = lines[end + i]
  /\ Len(body) \in Nat /\ Settled(grouping, body) /\ AllEnded(body) /\ DOMAIN body = 1 .. Len(body)
  /\ ~grouping /\ IsImport(lines[at]) => Len(body) > 0 /\ body[Len(body)].nl = lines[at].nl
  /\ last' \in LastSeen(body)

LEMMA FlushMeans ==
  ASSUME ScanInv, OrderInv, Flush
  PROVE  \E m, end, to, body : Flushing(m, end, to, body)
<1>1. HasNewline /\ TypeOK /\ Collected
  BY DEF Flush, ScanInv
<1>2. /\ at \in Nat /\ pending \in Nat /\ at \in 1 .. Len(lines) /\ at - pending \in 1 .. at
      /\ Len(lines) \in Nat /\ lines[at].nl > 0 /\ grouping \in BOOLEAN
  BY <1>1, LineScanned DEF TypeOK
<1>3. PICK p, g, q, body, end : Cut(p, g, q, body, end)
  BY <1>1, FlushParts
<1> DEFINE m == at - pending
           to == m - 1 + Len(body)
<1>4. /\ end = (IF IsImport(lines[at]) THEN at ELSE at - 1)
      /\ p \in Seq(Line) /\ q \in Seq(Line) /\ Group(grouping, g)
      /\ Len(p) = m - 1 /\ Len(g) = end - m + 1 /\ Len(q) = Len(lines) - end
      /\ \A i \in 1 .. Len(p) : p[i] = lines[i]
      /\ \A i \in 1 .. Len(g) : g[i] = lines[m + i - 1]
      /\ \A i \in 1 .. Len(q) : q[i] = lines[end + i]
      /\ body \in Flushed(g)
      /\ lines' = (p \o body) \o q
      /\ at' = m + Len(body) + (IF IsImport(lines[at]) THEN 0 ELSE 1)
      /\ last' \in LastSeen(body)
  BY <1>3 DEF Cut
<1>5. m \in Nat /\ m >= 1 /\ end \in Nat /\ end <= at /\ end >= m - 1
  <2>1. end = at \/ end = at - 1
    BY <1>4
  <2> QED
    BY <1>2, <2>1
<1> HIDE DEF m
<1>6. Len(g) \in Nat /\ DOMAIN g = 1 .. Len(g)
  BY <1>4, SeqFacts DEF Group, Files
<1>7. AllEnded(g)
  <2> SUFFICES ASSUME NEW i \in 1 .. Len(g)
               PROVE  g[i].nl > 0
    BY <1>6 DEF AllEnded
  <2> DEFINE k == m + i - 1
  <2>1. k \in Nat /\ k >= 1 /\ k <= end
    BY <1>4, <1>5
  <2>2. lines[k].nl > 0
    <3>1. CASE k = at
      BY <1>2, <3>1
    <3>2. CASE k # at
      <4>1. k \in 1 .. Len(lines) - 1
        BY <1>2, <1>5, <2>1, <3>2
      <4> HIDE DEF k
      <4> QED
        BY <4>1 DEF OrderInv, Terminated
    <3> QED
      BY <3>1, <3>2
  <2> QED
    BY <1>4, <2>2
<1>8. /\ body \in Seq(Line) /\ Len(body) <= Len(g)
      /\ Settled(grouping, body) /\ AllEnded(body)
      /\ ~grouping => Len(body) = Len(g) /\ \A i \in 1 .. Len(g) : body[i].nl = g[i].nl
  BY <1>2, <1>4, <1>7, FlushedFits
<1>9. Len(body) \in Nat /\ DOMAIN body = 1 .. Len(body)
  BY <1>8, SeqFacts
<1>10. to \in Nat /\ to <= end
  <2>1. Len(g) = end - m + 1 /\ Len(body) <= Len(g)
    BY <1>4, <1>8
  <2> QED
    BY <1>5, <1>9, <2>1
<1>11. /\ Len(lines') = Len(p) + Len(body) + Len(q)
       /\ \A i \in 1 .. Len(p) : lines'[i] = p[i]
       /\ \A i \in 1 .. Len(body) : lines'[Len(p) + i] = body[i]
       /\ \A i \in 1 .. Len(q) : lines'[Len(p) + Len(body) + i] = q[i]
  <2>1. lines' = (p \o body) \o q /\ p \in Seq(Line) /\ q \in Seq(Line) /\ body \in Seq(Line)
    BY <1>4, <1>8
  <2>2. /\ Len((p \o body) \o q) = Len(p) + Len(body) + Len(q)
        /\ \A i \in 1 .. Len(p) : ((p \o body) \o q)[i] = p[i]
        /\ \A i \in 1 .. Len(body) : ((p \o body) \o q)[Len(p) + i] = body[i]
        /\ \A i \in 1 .. Len(q) : ((p \o body) \o q)[Len(p) + Len(body) + i] = q[i]
    <3>1. p \in Seq(Line) /\ q \in Seq(Line) /\ body \in Seq(Line)
      BY <2>1
    <3> QED
      BY <3>1, ThreeParts
  <2> QED
    BY <2>1, <2>2, Zenon
<1>12. Len(lines') = to + Len(lines) - end
  BY <1>2, <1>4, <1>5, <1>9, <1>11
<1>13. \A i \in 1 .. m - 1 : lines'[i] = lines[i]
  BY <1>4, <1>11
<1>14. \A i \in 1 .. Len(lines) - end : lines'[to + i] = lines[end + i]
  <2>1. /\ Len(p) = m - 1 /\ Len(q) = Len(lines) - end
        /\ \A i \in 1 .. Len(q) : q[i] = lines[end + i]
    BY <1>4
  <2> QED
    BY <1>11, <2>1
<1>15. at' = to + 1 + (at - end)
  <2>1. CASE IsImport(lines[at])
    BY <1>2, <1>4, <1>5, <1>9, <2>1
  <2>2. CASE ~IsImport(lines[at])
    BY <1>2, <1>4, <1>5, <1>9, <2>2
  <2> QED
    BY <2>1, <2>2
<1>16. ASSUME ~grouping, IsImport(lines[at])
       PROVE  Len(body) > 0 /\ body[Len(body)].nl = lines[at].nl
  <2>1. end = at /\ Len(body) = Len(g) /\ Len(g) = at - m + 1
    BY <1>4, <1>8, <1>16
  <2>2. Len(g) \in 1 .. Len(g) /\ m + Len(g) - 1 = at
    <3>1. m <= at
      BY <1>2 DEF m
    <3> QED
      BY <1>2, <1>5, <1>6, <2>1, <3>1
  <2>3. g[Len(g)] = lines[m + Len(g) - 1]
    BY <1>4, <2>2
  <2> QED
    BY <1>6, <1>8, <1>16, <2>1, <2>2, <2>3
<1>17. pending' = 0
  BY DEF Flush
<1>18. \A i \in 1 .. Len(body) : lines'[m - 1 + i] = body[i]
  BY <1>4, <1>11
<1>19. Flushing(m, end, to, body)
  <2> HIDE DEF to
  <2>1. to = m - 1 + Len(body)
    BY DEF to
  <2>2. m = at - pending
    BY DEF m
  <2> QED
    BY <1>4, <1>5, <1>8, <1>9, <1>10, <1>12, <1>13, <1>14, <1>15, <1>16, <1>17, <1>18, <2>1, <2>2
    DEF Flushing
<1> QED
  BY <1>19

LEMMA FlushOrder ==
  ASSUME ScanInv, OrderInv, Flush
  PROVE  OrderInv'
<1>1. HasNewline /\ TypeOK /\ running /\ EndsGroup /\ ~TooFar
  BY DEF Flush, ScanInv
<1>2. /\ at \in Nat /\ pending \in Nat /\ at \in 1 .. Len(lines)
      /\ Len(lines) \in Nat /\ Len(src) \in Nat
  BY <1>1, LineScanned, SourceFacts
<1>3. running' = running /\ grouping' = grouping /\ src' = src
  BY DEF Flush, src
<1>4. PICK m, end, to, body : Flushing(m, end, to, body)
  BY FlushMeans
<1>5. /\ m \in Nat /\ end \in Nat /\ to \in Nat
      /\ m = at - pending /\ m >= 1 /\ end <= at /\ end >= m - 1
      /\ end = IF IsImport(lines[at]) THEN at ELSE at - 1
      /\ to = m - 1 + Len(body) /\ to <= end
      /\ at' = to + 1 + (at - end) /\ pending' = 0
      /\ Len(lines') = to + Len(lines) - end
      /\ Len(body) \in Nat
  BY <1>4 DEF Flushing
<1>19. /\ m \in Nat /\ end \in Nat /\ to \in Nat /\ Len(body) \in Nat /\ at \in Nat /\ pending \in Nat
       /\ m >= 1 /\ end <= at /\ end >= m - 1 /\ at <= Len(lines) /\ at - pending = m
       /\ to = m - 1 + Len(body) /\ to <= end
       /\ at' = to + 1 + (at - end) /\ at' - pending' = at'
       /\ Len(lines') = to + Len(lines) - end /\ Len(lines) \in Nat /\ Len(src) \in Nat
  BY <1>2, <1>5
<1>20. /\ m \in Nat /\ m >= 1 /\ Len(body) \in Nat /\ to \in Nat /\ to = m - 1 + Len(body)
       /\ to >= m - 1
  BY <1>19
<1>6. \A i \in 1 .. m - 1 : lines'[i] = lines[i]
  BY <1>4 DEF Flushing
<1>7. \A i \in 1 .. Len(body) : lines'[m - 1 + i] = body[i]
  BY <1>4 DEF Flushing
<1>8. \A i \in 1 .. Len(lines) - end : lines'[to + i] = lines[end + i]
  BY <1>4 DEF Flushing
<1>9. Settled(grouping, body) /\ \A i \in 1 .. Len(body) : body[i].nl > 0
  BY <1>4 DEF Flushing, AllEnded
<1>10. ~IsImport(lines[at]) => at' - 1 = to + 1 /\ at' = to + 2 /\ lines'[to + 1] = lines[at]
  <2> SUFFICES ASSUME ~IsImport(lines[at])
               PROVE  at' - 1 = to + 1 /\ at' = to + 2 /\ lines'[to + 1] = lines[at]
    OBVIOUS
  <2>1. end = at - 1 /\ at' - 1 = to + 1 /\ at' = to + 2 /\ 1 \in 1 .. Len(lines) - end /\ end + 1 = at
    BY <1>2, <1>5
  <2> QED
    BY <1>8, <2>1
<1>11. IsImport(lines[at]) => at' - 1 = to /\ at' = to + 1
  BY <1>2, <1>5
<1>12. Terminated(lines)'
  <2> SUFFICES ASSUME NEW i \in 1 .. Len(lines') - 1
               PROVE  lines'[i].nl > 0
    BY DEF Terminated
  <2>1. CASE i <= m - 1
    <3>1. i \in 1 .. m - 1 /\ i \in 1 .. Len(lines) - 1
      BY <1>19, <2>1
    <3> QED
      BY <1>6, <3>1 DEF OrderInv, Terminated
  <2>2. CASE i > m - 1 /\ i <= to
    <3> DEFINE k == i - (m - 1)
    <3>1. k \in 1 .. Len(body) /\ m - 1 + k = i
      BY <1>19, <2>2
    <3> HIDE DEF k
    <3>2. lines'[i] = body[k]
      BY <1>7, <3>1
    <3> QED
      BY <1>9, <3>1, <3>2
  <2>3. CASE i > to
    <3> DEFINE k == i - to
               j == end + k
    <3>1. k \in 1 .. Len(lines) - end /\ to + k = i /\ j \in 1 .. Len(lines) - 1
      BY <1>19, <2>3
    <3>2. lines'[to + k] = lines[end + k]
      BY <1>8, <3>1
    <3> HIDE DEF k
    <3>3. lines'[i] = lines[j]
      BY <3>1, <3>2
    <3> HIDE DEF j
    <3> QED
      BY <3>1, <3>3 DEF OrderInv, Terminated
  <2>4. i <= m - 1 \/ (i > m - 1 /\ i <= to) \/ i > to
    BY <1>20
  <2> QED
    BY <2>1, <2>2, <2>3, <2>4
<1>13. Len(lines) <= Len(src) /\ \A i \in at .. Len(lines) : lines[i] = src[i + (Len(src) - Len(lines))]
  BY DEF OrderInv, Remaining
<1>14. Remaining'
  <2>1. Len(lines') <= Len(src)
    BY <1>19, <1>13
  <2>2. ASSUME NEW i \in at' .. Len(lines')
        PROVE  lines'[i] = src[i + (Len(src) - Len(lines'))]
    <3> DEFINE k == i - to
               j == end + k
    <3>1. /\ k \in 1 .. Len(lines) - end /\ to + k = i /\ j \in at .. Len(lines)
          /\ j + (Len(src) - Len(lines)) = i + (Len(src) - Len(lines'))
      BY <1>19
    <3>2. lines'[to + k] = lines[end + k]
      BY <1>8, <3>1
    <3> HIDE DEF k
    <3>3. lines'[i] = lines[j]
      BY <3>1, <3>2
    <3> HIDE DEF j
    <3> QED
      BY <1>13, <3>1, <3>3
  <2> QED
    BY <1>3, <2>1, <2>2 DEF Remaining
<1>15. Through'
  BY <1>1, <1>3 DEF Through
<1>16. ASSUME Narrow(src)
       PROVE  Remembered' /\ Closed' /\ Sorted'
  <2>1. Remembered /\ Closed /\ Sorted
    BY <1>16 DEF OrderInv
  <2>2. IsImport(lines[at]) /\ at' <= Len(lines') => ~grouping /\ lines[at].nl > 1
    <3> SUFFICES ASSUME IsImport(lines[at]), at' <= Len(lines')
                 PROVE  ~grouping /\ lines[at].nl > 1
      OBVIOUS
    <3>1. at # Len(lines)
      BY <1>2, <1>5
    <3>2. grouping => ~Beyond(MaxGap)
      BY <1>1, <1>16, <2>1, NearLast DEF OrderInv
    <3> QED
      BY <1>1, <3>1, <3>2 DEF EndsGroup
  <2>3. Remembered'
    <3>1. ~IsImport(lines[at]) => last' = None
      BY <1>4 DEF Flushing, LastSeen
    <3> QED
      BY <1>3, <2>2, <3>1 DEF Remembered
  <2>4. Closed'
    <3> SUFFICES ASSUME at' <= Len(lines')
                 PROVE  LET line == lines'[at' - pending' - 1]
                        IN  ~IsImport(line) \/ (~grouping /\ line.nl > 1)
      BY <1>3 DEF Closed, IsImport
    <3>1. at' - pending' - 1 = at' - 1
      BY <1>2, <1>5
    <3>2. CASE ~IsImport(lines[at])
      BY <1>10, <3>1, <3>2
    <3>3. CASE IsImport(lines[at])
      <4>1. ~grouping /\ lines[at].nl > 1
        BY <2>2, <3>3
      <4>2. Len(body) > 0 /\ body[Len(body)].nl = lines[at].nl
        BY <1>4, <3>3, <4>1 DEF Flushing
      <4>3. Len(body) \in 1 .. Len(body) /\ m - 1 + Len(body) = to
        BY <1>5, <4>2
      <4>4. lines'[to] = body[Len(body)]
        BY <1>7, <4>3
      <4> QED
        BY <1>11, <3>1, <3>3, <4>1, <4>2, <4>4
    <3> QED
      BY <3>2, <3>3
  <2>5. Sorted'
    <3> SUFFICES ASSUME NEW i \in 1 .. at' - pending' - 2, Adjoin(grouping, lines'[i], lines'[i + 1])
                 PROVE  Fits(grouping, lines'[i], lines'[i + 1])
      BY <1>3 DEF Sorted, Adjoin, IsImport, Fits
    <3>7. i \in Nat /\ i >= 1 /\ i <= at' - 2
      BY <1>19
    <3>1. i \in Nat /\ i >= 1 /\ i <= to /\ (IsImport(lines[at]) => i <= to - 1)
      <4>1. CASE IsImport(lines[at])
        BY <1>11, <1>20, <3>7, <4>1
      <4>2. CASE ~IsImport(lines[at])
        BY <1>10, <1>20, <3>7, <4>2
      <4> QED
        BY <4>1, <4>2
    <3>2. CASE i <= m - 2
      <4>1. i \in 1 .. m - 1 /\ i + 1 \in 1 .. m - 1 /\ i \in 1 .. at - pending - 2
        BY <1>19, <3>1, <3>2
      <4>2. lines'[i] = lines[i] /\ lines'[i + 1] = lines[i + 1]
        BY <1>6, <4>1
      <4> QED
        BY <2>1, <4>1, <4>2 DEF Sorted
    <3>3. CASE i = m - 1
      <4>1. /\ i \in 1 .. m - 1 /\ at <= Len(lines) /\ at - pending > 1
            /\ at - pending - 1 = i
        BY <1>2, <1>5, <3>1, <3>3
      <4>2. lines'[i] = lines[i]
        BY <1>6, <4>1
      <4>3. ~IsImport(lines[i]) \/ (~grouping /\ lines[i].nl > 1)
        BY <2>1, <4>1 DEF Closed
      <4> QED
        BY <4>2, <4>3 DEF Adjoin
    <3>4. CASE i > m - 1 /\ i < to
      <4> DEFINE k == i - (m - 1)
                 n == k + 1
      <4>1. /\ k \in 1 .. Len(body) - 1 /\ k \in 1 .. Len(body) /\ n \in 1 .. Len(body)
            /\ m - 1 + k = i /\ m - 1 + n = i + 1
        BY <1>20, <3>1, <3>4
      <4>2. n = k + 1
        OBVIOUS
      <4> HIDE DEF k, n
      <4>3. lines'[i] = body[k] /\ lines'[i + 1] = body[n]
        BY <1>7, <4>1
      <4> QED
        BY <1>9, <4>1, <4>2, <4>3 DEF Settled
    <3>5. CASE i = to
      <4>1. ~IsImport(lines[at])
        BY <1>5, <3>1, <3>5
      <4>2. ~IsImport(lines'[i + 1])
        BY <1>10, <3>5, <4>1
      <4> QED
        BY <4>2 DEF Adjoin
    <3>6. i <= m - 2 \/ i = m - 1 \/ (i > m - 1 /\ i < to) \/ i = to
      BY <1>20, <3>1
    <3> QED
      BY <3>2, <3>3, <3>4, <3>5, <3>6
  <2> QED
    BY <2>3, <2>4, <2>5
<1>17. Narrow(src)' => Remembered' /\ Closed' /\ Sorted' /\ Through'
  BY <1>3, <1>15, <1>16 DEF Narrow
<1>18. Terminated(src)'
  BY <1>3 DEF OrderInv, Terminated
<1> QED
  BY <1>5, <1>12, <1>14, <1>17, <1>18 DEF OrderInv

LEMMA OrderStep ==
  ASSUME ScanInv, OrderInv, [Next]_vars
  PROVE  OrderInv'
<1>1. CASE UNCHANGED vars
  BY <1>1 DEF vars, src, OrderInv, Terminated, Remaining, Narrow, Remembered, Closed, Sorted,
              Through, Adjoin, IsImport, Fits
<1> QED
  BY <1>1, CollectOrder, FlushOrder, TooManyOrder, FinishOrder, AgainOrder DEF Next

\* When the scan is over, every group of the file is in order and, with
\* grouping, without duplicates and with its blank lines where they belong, in
\* files of any length that end with a newline and have no gap at which the scan
\* gives up.
THEOREM SortedAtTheEnd == Spec => []SortedAtEnd
<1>1. Init => ScanInv /\ OrderInv
  BY InitScan, InitOrder
<1>2. ScanInv /\ OrderInv /\ [Next]_vars => (ScanInv /\ OrderInv)'
  BY ScanStep, OrderStep
<1>3. ScanInv /\ OrderInv => SortedAtEnd
  <2> SUFFICES ASSUME ScanInv, OrderInv, Complete, NEW i \in 1 .. Len(lines) - 1, Together(i)
               PROVE  /\ ~Before(Key(lines[i + 1]), Key(lines[i]))
                      /\ grouping => /\ lines[i].text # lines[i + 1].text
                                     /\ lines[i].nl = 2 <=> Apart(lines[i].text, lines[i + 1].text)
    BY DEF SortedAtEnd
  <2>1. at > Len(lines) /\ pending = 0 /\ Sorted
    BY DEF Complete, OrderInv, Through
  <2>2. Len(lines) \in Nat /\ at \in 1 .. Len(lines) + 1
    BY SeqFacts DEF ScanInv, TypeOK, Files
  <2>3. i \in 1 .. at - pending - 2
    BY <2>1, <2>2
  <2>4. Fits(grouping, lines[i], lines[i + 1])
    BY <2>1, <2>3 DEF Sorted, Together, Adjoin
  <2> QED
    BY <2>4 DEF Fits, Same
<1> QED
  BY <1>1, <1>2, <1>3, PTL DEF Spec

-----------------------------------------------------------------------------
(* There is one order                                                      *)

\* The chunk a differs from b in, so that it comes before.
Differs(a, b, i) ==
  /\ i \in 1 .. Len(b) /\ i - 1 <= Len(a)
  /\ \A j \in 1 .. i - 1 : a[j] = b[j]
  /\ i > Len(a) \/ a[i] < b[i]

LEMMA BeforeDiffers ==
  ASSUME NEW a \in Seq(Nat), NEW b \in Seq(Nat)
  PROVE  Before(a, b) <=> \E i \in Nat : Differs(a, b, i)
<1>1. Len(a) \in Nat /\ Len(b) \in Nat
  BY SeqFacts
<1>2. ASSUME NEW i \in 1 .. Len(b), i - 1 <= Len(a)
      PROVE  SubSeq(a, 1, i - 1) = SubSeq(b, 1, i - 1) <=> \A j \in 1 .. i - 1 : a[j] = b[j]
  <2> DEFINE n == i - 1
             u == SubSeq(a, 1, n)
             v == SubSeq(b, 1, n)
  <2>1. n \in Nat /\ n <= Len(a) /\ n <= Len(b) /\ n - 1 + 1 = n
    BY <1>1, <1>2
  <2>2. (\A j \in 1 .. n : a[j] \in Nat) /\ (\A j \in 1 .. n : b[j] \in Nat)
    BY <1>1, <2>1, SeqFacts
  <2> HIDE DEF n
  <2>3. u \in Seq(Nat) /\ Len(u) = n /\ \A j \in 1 .. n : u[j] = a[j]
    BY <2>1, <2>2, SubSeqProperties
  <2>4. v \in Seq(Nat) /\ Len(v) = n /\ \A j \in 1 .. n : v[j] = b[j]
    BY <2>1, <2>2, SubSeqProperties
  <2> HIDE DEF u, v
  <2>5. u = v <=> \A j \in 1 .. n : a[j] = b[j]
    BY <2>3, <2>4, SeqEqual
  <2> QED
    BY <2>5 DEF n, u, v
<1>3. 1 .. Len(b) \subseteq Nat
  OBVIOUS
<1> QED
  BY <1>2, <1>3 DEF Before, Differs

LEMMA NotBothBefore ==
  ASSUME NEW a \in Seq(Nat), NEW b \in Seq(Nat), Before(a, b)
  PROVE  ~Before(b, a)
<1>1. Len(a) \in Nat /\ Len(b) \in Nat
      /\ (\A j \in 1 .. Len(a) : a[j] \in Nat) /\ (\A j \in 1 .. Len(b) : b[j] \in Nat)
  BY SeqFacts
<1>2. PICK i \in Nat : Differs(a, b, i)
  BY BeforeDiffers
<1>3. SUFFICES ASSUME NEW k \in Nat, Differs(b, a, k)
               PROVE  FALSE
  BY BeforeDiffers
<1>4. CASE i < k
  BY <1>1, <1>2, <1>3, <1>4 DEF Differs
<1>5. CASE i = k
  BY <1>1, <1>2, <1>3, <1>5 DEF Differs
<1>6. CASE i > k
  BY <1>1, <1>2, <1>3, <1>6 DEF Differs
<1> QED
  BY <1>4, <1>5, <1>6

LEMMA BeforeTransitive ==
  ASSUME NEW a \in Seq(Nat), NEW b \in Seq(Nat), NEW c \in Seq(Nat), Before(a, b), Before(b, c)
  PROVE  Before(a, c)
<1>1. /\ Len(a) \in Nat /\ Len(b) \in Nat /\ Len(c) \in Nat
      /\ (\A j \in 1 .. Len(a) : a[j] \in Nat) /\ (\A j \in 1 .. Len(b) : b[j] \in Nat)
      /\ (\A j \in 1 .. Len(c) : c[j] \in Nat)
  BY SeqFacts
<1>2. PICK i \in Nat : Differs(a, b, i)
  BY BeforeDiffers
<1>3. PICK k \in Nat : Differs(b, c, k)
  BY BeforeDiffers
<1>4. CASE i < k
  <2>1. Differs(a, c, i)
    BY <1>1, <1>2, <1>3, <1>4 DEF Differs
  <2> QED
    BY <2>1, BeforeDiffers
<1>5. CASE i >= k
  <2>1. k \in 1 .. Len(c) /\ k - 1 <= Len(a) /\ \A j \in 1 .. k - 1 : a[j] = c[j]
    BY <1>1, <1>2, <1>3, <1>5 DEF Differs
  <2>2. ASSUME k <= Len(a)
        PROVE  a[k] < c[k]
    <3>1. k \in 1 .. Len(a)
      BY <2>1, <2>2
    <3>2. k <= Len(b) /\ a[k] <= b[k]
      BY <1>1, <1>2, <1>5, <3>1 DEF Differs
    <3>3. k \in 1 .. Len(b) /\ b[k] < c[k]
      BY <1>3, <3>1, <3>2 DEF Differs
    <3>4. a[k] \in Nat /\ b[k] \in Nat /\ c[k] \in Nat
      BY <1>1, <2>1, <3>1, <3>3
    <3> QED
      BY <3>2, <3>3, <3>4
  <2>3. k > Len(a) \/ a[k] < c[k]
    BY <1>1, <2>2
  <2>4. Differs(a, c, k)
    BY <2>1, <2>3 DEF Differs
  <2> QED
    BY <2>4, BeforeDiffers
<1> QED
  BY <1>4, <1>5

LEMMA BeforeTotal ==
  ASSUME NEW a \in Seq(Nat), NEW b \in Seq(Nat), ~Before(a, b), ~Before(b, a)
  PROVE  a = b
<1> DEFINE D == {j \in Nat : /\ j >= 1 /\ (j <= Len(a) \/ j <= Len(b))
                             /\ ~(j <= Len(a) /\ j <= Len(b) /\ a[j] = b[j])}
<1>1. /\ Len(a) \in Nat /\ Len(b) \in Nat
      /\ (\A j \in 1 .. Len(a) : a[j] \in Nat) /\ (\A j \in 1 .. Len(b) : b[j] \in Nat)
  BY SeqFacts
<1>2. CASE D = {}
  <2>1. \A j \in Nat : j >= 1 /\ (j <= Len(a) \/ j <= Len(b)) =>
                         j <= Len(a) /\ j <= Len(b) /\ a[j] = b[j]
    BY <1>2
  <2>2. Len(a) = Len(b)
    <3>1. Len(a) >= 1 => Len(a) <= Len(b)
      BY <1>1, <2>1
    <3>2. Len(b) >= 1 => Len(b) <= Len(a)
      BY <1>1, <2>1
    <3> QED
      BY <1>1, <3>1, <3>2
  <2>3. \A j \in 1 .. Len(a) : a[j] = b[j]
    BY <1>1, <2>1
  <2> QED
    BY <2>2, <2>3, SeqEqual
<1>3. CASE D # {}
  <2>0. D \in SUBSET Nat
    OBVIOUS
  <2>1. PICK n \in D : \A m \in D : n <= m
    <3> HIDE DEF D
    <3> QED
      BY <1>3, <2>0, LeastNumber
  <2>2. n \in Nat /\ n >= 1 /\ (n <= Len(a) \/ n <= Len(b))
        /\ ~(n <= Len(a) /\ n <= Len(b) /\ a[n] = b[n])
    BY <2>1
  <2>3. ASSUME NEW j \in 1 .. n - 1
        PROVE  j <= Len(a) /\ j <= Len(b) /\ a[j] = b[j]
    <3>1. j \in Nat /\ j >= 1 /\ j < n
      BY <2>2
    <3>2. j \notin D
      BY <2>1, <3>1
    <3> QED
      BY <1>1, <2>2, <3>1, <3>2
  <2>4. n - 1 <= Len(a) /\ n - 1 <= Len(b)
    <3>1. n - 1 >= 1 => n - 1 \in 1 .. n - 1
      BY <2>2
    <3> QED
      BY <1>1, <2>2, <2>3, <3>1
  <2>5. Differs(a, b, n) \/ Differs(b, a, n)
    BY <1>1, <2>2, <2>3, <2>4 DEF Differs
  <2> QED
    BY <2>2, <2>5, BeforeDiffers
<1> QED
  BY <1>2, <1>3

LEMMA KeyOfLine ==
  ASSUME NEW x \in Line
  PROVE  /\ Key(x) \in Seq(Nat) /\ x.text \in Seq(Nat \ {0}) /\ x.comment \in BOOLEAN
         /\ Len(Key(x)) = Len(x.text) + (IF x.comment THEN 2 ELSE 1)
         /\ \A i \in 1 .. Len(x.text) : Key(x)[i] = x.text[i] /\ x.text[i] \in Nat \ {0}
         /\ Key(x)[Len(x.text) + 1] = 0
<1> DEFINE t == x.text
           u == Append(t, 0)
           w == IF x.comment THEN <<0>> ELSE <<>>
<1>1. t \in Seq(Nat \ {0}) /\ x.comment \in BOOLEAN
  BY DEF Line
<1>2. Len(t) \in Nat /\ \A i \in 1 .. Len(t) : t[i] \in Nat \ {0}
  BY <1>1, SeqFacts
<1>3. t \in Seq(Nat)
  BY <1>1
<1>4. w \in Seq(Nat) /\ Len(w) = IF x.comment THEN 1 ELSE 0
  <2>1. <<0>> \in Seq(Nat) /\ Len(<<0>>) = 1 /\ <<>> \in Seq(Nat) /\ Len(<<>>) = 0
    OBVIOUS
  <2> QED
    BY <2>1
<1> HIDE DEF t, w
<1>5. /\ u \in Seq(Nat) /\ Len(u) = Len(t) + 1 /\ u[Len(t) + 1] = 0
      /\ \A i \in 1 .. Len(t) : u[i] = t[i]
  BY <1>3, AppendProperties
<1> HIDE DEF u
<1>6. /\ u \o w \in Seq(Nat) /\ Len(u \o w) = Len(u) + Len(w)
      /\ \A i \in 1 .. Len(u) + Len(w) : (u \o w)[i] = IF i <= Len(u) THEN u[i] ELSE w[i - Len(u)]
  BY <1>4, <1>5, ConcatProperties
<1>7. \A i \in 1 .. Len(t) + 1 : i \in 1 .. Len(u) + Len(w) /\ i <= Len(u)
  BY <1>2, <1>4, <1>5
<1>8. \A i \in 1 .. Len(t) + 1 : (u \o w)[i] = u[i]
  BY <1>6, <1>7
<1>9. (\A i \in 1 .. Len(t) : i \in 1 .. Len(t) + 1) /\ Len(t) + 1 \in 1 .. Len(t) + 1
  BY <1>2
<1>10. Key(x) = u \o w
  BY DEF Key, u, w, t
<1>11. Len(u) + Len(w) = Len(t) + (IF x.comment THEN 2 ELSE 1)
  BY <1>2, <1>4, <1>5
<1>12. \A i \in 1 .. Len(t) : (u \o w)[i] = t[i]
  BY <1>5, <1>8, <1>9
<1>13. (u \o w)[Len(t) + 1] = 0
  BY <1>5, <1>8, <1>9
<1> QED
  BY <1>1, <1>2, <1>6, <1>10, <1>11, <1>12, <1>13 DEF t

\* Lines that the sort does not tell apart are the same.
LEMMA KeyTells ==
  ASSUME NEW x \in Line, NEW y \in Line, Key(x) = Key(y)
  PROVE  x.text = y.text /\ x.comment = y.comment
<1> DEFINE t == x.text
           u == y.text
           k == Key(x)
<1>1. /\ t \in Seq(Nat \ {0}) /\ x.comment \in BOOLEAN /\ Len(k) = Len(t) + (IF x.comment THEN 2 ELSE 1)
      /\ \A i \in 1 .. Len(t) : k[i] = t[i] /\ t[i] \in Nat \ {0}
      /\ k[Len(t) + 1] = 0
  BY KeyOfLine
<1>2. /\ u \in Seq(Nat \ {0}) /\ y.comment \in BOOLEAN /\ Len(k) = Len(u) + (IF y.comment THEN 2 ELSE 1)
      /\ \A i \in 1 .. Len(u) : k[i] = u[i] /\ u[i] \in Nat \ {0}
      /\ k[Len(u) + 1] = 0
  BY KeyOfLine
<1>3. Len(t) \in Nat /\ Len(u) \in Nat
  BY <1>1, <1>2, SeqFacts
<1> HIDE DEF t, u, k
<1>4. ~(Len(t) < Len(u))
  <2> SUFFICES ASSUME Len(t) < Len(u)
               PROVE  FALSE
    OBVIOUS
  <2> DEFINE i == Len(t) + 1
  <2>1. i \in 1 .. Len(u)
    BY <1>3
  <2> HIDE DEF i
  <2>2. k[i] # 0
    BY <1>2, <2>1
  <2> QED
    BY <1>1, <2>2 DEF i
<1>5. ~(Len(u) < Len(t))
  <2> SUFFICES ASSUME Len(u) < Len(t)
               PROVE  FALSE
    OBVIOUS
  <2> DEFINE i == Len(u) + 1
  <2>1. i \in 1 .. Len(t)
    BY <1>3
  <2> HIDE DEF i
  <2>2. k[i] # 0
    BY <1>1, <2>1
  <2> QED
    BY <1>2, <2>2 DEF i
<1>6. Len(t) = Len(u)
  BY <1>3, <1>4, <1>5
<1>7. t = u
  <2>1. \A i \in 1 .. Len(t) : t[i] = u[i]
    BY <1>1, <1>2, <1>6
  <2> QED
    BY <1>1, <1>2, <1>6, <2>1, SeqEqual
<1>8. x.comment = y.comment
  <2>1. (IF x.comment THEN 2 ELSE 1) = (IF y.comment THEN 2 ELSE 1)
    <3> DEFINE v == IF x.comment THEN 2 ELSE 1
               w == IF y.comment THEN 2 ELSE 1
    <3>1. v \in Int /\ w \in Int
      OBVIOUS
    <3>2. Len(t) + v = Len(t) + w
      BY <1>1, <1>2, <1>6
    <3> HIDE DEF v, w
    <3>3. v = w
      BY <1>3, <3>1, <3>2
    <3> QED
      BY <3>3 DEF v, w
  <2> QED
    BY <1>1, <1>2, <2>1
<1> QED
  BY <1>7, <1>8 DEF t, u

\* Neither the keys of a sequence in order nor a permutation of it that is in
\* order too.
KeysInOrder(n, K) == \A i, j \in 1 .. n : i < j => ~Before(K[j], K[i])

LEMMA NotBeforeItself ==
  ASSUME NEW a \in Seq(Nat)
  PROVE  ~Before(a, a)
  BY NotBothBefore

\* The numbers from m to n, taken to those from l to h, of which there are fewer.
Taken(p, m, n, l, h) ==
  /\ m \in Int /\ n \in Int /\ l \in Int /\ h \in Int /\ m <= n /\ h - l < n - m
  /\ \A i \in m .. n : p[i] \in l .. h

LEMMA NoRoom ==
  ASSUME NEW m, NEW n, NEW l, NEW h, NEW p, Taken(p, m, n, l, h)
  PROVE  \E i, j \in m .. n : i # j /\ p[i] = p[j]
<1> DEFINE q == [i \in m .. n |-> p[i]]
           S == m .. n
           T == l .. h
<1>4. q \in [S -> T]
  BY DEF Taken
<1>1. IsFiniteSet(m .. n) /\ Cardinality(m .. n) = n - m + 1
  BY FS_Interval DEF Taken
<1>2. IsFiniteSet(l .. h) /\ Cardinality(l .. h) = IF l > h THEN 0 ELSE h - l + 1
  BY FS_Interval DEF Taken
<1>3. Cardinality(l .. h) < Cardinality(m .. n)
  BY <1>1, <1>2 DEF Taken
<1>5. IsFiniteSet(S) /\ IsFiniteSet(T) /\ Cardinality(T) < Cardinality(S)
  BY <1>1, <1>2, <1>3
<1> HIDE DEF S, T, q
<1>6. \E i, j \in S : i # j /\ q[i] = q[j]
  BY <1>4, <1>5, FS_PigeonHole
<1> QED
  BY <1>6 DEF S, q

TwoOrders(n, K, p) ==
  /\ n \in Nat /\ K \in [1 .. n -> Seq(Nat)] /\ KeysInOrder(n, K)
  /\ p \in [1 .. n -> 1 .. n] /\ \A i, j \in 1 .. n : p[i] = p[j] => i = j
  /\ \A i, j \in 1 .. n : i < j => ~Before(K[p[j]], K[p[i]])

\* A sequence in order and a permutation of it that is in order are the same.
LEMMA OneOrder ==
  ASSUME NEW n, NEW K, NEW p, TwoOrders(n, K, p), NEW i \in 1 .. n
  PROVE  K[p[i]] = K[i]
<1>4. /\ n \in Nat /\ K \in [1 .. n -> Seq(Nat)] /\ KeysInOrder(n, K)
      /\ p \in [1 .. n -> 1 .. n] /\ \A j, k \in 1 .. n : p[j] = p[k] => j = k
      /\ \A j, k \in 1 .. n : j < k => ~Before(K[p[k]], K[p[j]])
  BY DEF TwoOrders
<1>1. \A j \in 1 .. n : K[j] \in Seq(Nat) /\ K[p[j]] \in Seq(Nat) /\ p[j] \in 1 .. n
  BY <1>4
<1>2. ~Before(K[p[i]], K[i])
  <2> SUFFICES ASSUME Before(K[p[i]], K[i])
               PROVE  FALSE
    OBVIOUS
  <2>1. ASSUME NEW j \in 1 .. i
        PROVE  p[j] \in 1 .. i - 1 /\ j \in 1 .. n
    <3>1. j \in 1 .. n /\ (j < i \/ j = i)
      BY <1>4
    <3>2. ~Before(K[p[i]], K[p[j]])
      BY <1>1, <1>4, <3>1, NotBeforeItself
    <3>3. K[p[j]] = K[p[i]] \/ Before(K[p[j]], K[p[i]])
      BY <1>1, <3>1, <3>2, BeforeTotal
    <3>4. Before(K[p[j]], K[i])
      BY <1>1, <3>1, <3>3, BeforeTransitive
    <3>5. ~(i < p[j])
      BY <1>1, <3>1, <3>4, <1>4 DEF KeysInOrder
    <3>6. p[j] # i
      BY <1>1, <3>4, NotBeforeItself
    <3>7. p[j] \in 1 .. n
      BY <1>1, <3>1
    <3> QED
      BY <3>1, <3>5, <3>6, <3>7
  <2> DEFINE q == p
             m == 1
             h == i - 1
  <2>3. m \in Int /\ i \in Int /\ h \in Int /\ m <= i /\ h - m < i - m
    BY <1>4
  <2>5. \A j \in m .. i : q[j] \in m .. h
    BY <2>1
  <2> HIDE DEF h, m, q
  <2>2. Taken(q, m, i, m, h)
    BY <2>3, <2>5 DEF Taken
  <2>4. \E j, k \in m .. i : j # k /\ q[j] = q[k]
    BY <2>2, NoRoom
  <2> QED
    BY <1>4, <2>1, <2>4 DEF m, q
<1>3. ~Before(K[i], K[p[i]])
  <2> SUFFICES ASSUME Before(K[i], K[p[i]])
               PROVE  FALSE
    OBVIOUS
  <2>1. ASSUME NEW j \in i .. n
        PROVE  p[j] \in i + 1 .. n /\ j \in 1 .. n
    <3>1. j \in 1 .. n /\ (i < j \/ j = i)
      BY <1>4
    <3>2. ~Before(K[p[j]], K[p[i]])
      BY <1>1, <1>4, <3>1, NotBeforeItself
    <3>3. K[p[j]] = K[p[i]] \/ Before(K[p[i]], K[p[j]])
      BY <1>1, <3>1, <3>2, BeforeTotal
    <3>4. Before(K[i], K[p[j]])
      BY <1>1, <3>1, <3>3, BeforeTransitive
    <3>5. ~(p[j] < i)
      BY <1>1, <3>1, <3>4, <1>4 DEF KeysInOrder
    <3>6. p[j] # i
      BY <1>1, <3>4, NotBeforeItself
    <3>7. p[j] \in 1 .. n
      BY <1>1, <3>1
    <3> QED
      BY <3>1, <3>5, <3>6, <3>7
  <2> DEFINE q == p
             l == i + 1
  <2>3. l \in Int /\ i \in Int /\ n \in Int /\ i <= n /\ n - l < n - i
    BY <1>4
  <2>5. \A j \in i .. n : q[j] \in l .. n
    BY <2>1
  <2> HIDE DEF l, q
  <2>2. Taken(q, i, n, l, n)
    BY <2>3, <2>5 DEF Taken
  <2>4. \E j, k \in i .. n : j # k /\ q[j] = q[k]
    BY <2>2, NoRoom
  <2> QED
    BY <1>4, <2>1, <2>4 DEF q
<1> QED
  BY <1>1, <1>2, <1>3, BeforeTotal

-----------------------------------------------------------------------------
(* A group that is in order is left alone                                  *)

\* Lines that look the same in the output.
Like(x, y) == x.kind = y.kind /\ x.text = y.text /\ x.comment = y.comment /\ x.nl = y.nl

Looks(f, g) == Len(f) = Len(g) /\ \A i \in 1 .. Len(g) : Like(f[i], g[i])

Follow(g) == \A i \in 1 .. Len(g) - 1 : ~Before(Key(g[i + 1]), Key(g[i]))

LEMMA FollowInOrder ==
  ASSUME NEW g \in Seq(Line), Follow(g)
  PROVE  InOrder(g)
<1> DEFINE n == Len(g)
           K(i) == Key(g[i])
           T == {d \in Nat : \A i \in 1 .. n : d >= 1 /\ i + d \in 1 .. n => ~Before(K(i + d), K(i))}
<1>1. n \in Nat /\ DOMAIN g = 1 .. n /\ \A i \in 1 .. n : K(i) \in Seq(Nat)
  BY SeqFacts, KeyOfLine
<1>2. \A i \in 1 .. n - 1 : ~Before(K(i + 1), K(i))
  BY DEF Follow
<1> HIDE DEF n, K
<1>3. 0 \in T
  OBVIOUS
<1>4. ASSUME NEW d \in Nat, d \in T
      PROVE  d + 1 \in T
  <2> SUFFICES ASSUME NEW i \in 1 .. n, i + (d + 1) \in 1 .. n
               PROVE  ~Before(K(i + (d + 1)), K(i))
    OBVIOUS
  <2> DEFINE j == i + d
             k == i + (d + 1)
  <2>1. j \in 1 .. n - 1 /\ j \in 1 .. n /\ k = j + 1 /\ k \in 1 .. n
    BY <1>1
  <2>2. ~Before(K(k), K(j))
    BY <1>2, <2>1
  <2>3. d >= 1 => ~Before(K(j), K(i))
    BY <1>4, <2>1
  <2>4. d = 0 => j = i
    OBVIOUS
  <2>5. K(i) \in Seq(Nat) /\ K(j) \in Seq(Nat) /\ K(k) \in Seq(Nat)
    BY <1>1, <2>1
  <2> HIDE DEF j, k
  <2>6. CASE d = 0
    BY <2>2, <2>4, <2>6 DEF k
  <2>7. CASE d # 0
    <3>1. ~Before(K(j), K(i))
      BY <2>3, <2>7
    <3>2. K(i) = K(j) \/ Before(K(i), K(j))
      BY <2>5, <3>1, BeforeTotal
    <3>3. Before(K(k), K(i)) => Before(K(k), K(j))
      BY <2>5, <3>2, BeforeTransitive
    <3> QED
      BY <2>2, <3>3 DEF k
  <2> QED
    BY <2>6, <2>7
<1>5. Nat \subseteq T
  <2> HIDE DEF T
  <2> QED
    BY <1>3, <1>4, InductiveSet
<1>6. ASSUME NEW i \in 1 .. n, NEW j \in 1 .. n, i < j
      PROVE  ~Before(K(j), K(i))
  <2> DEFINE d == j - i
  <2>1. d \in Nat /\ d >= 1 /\ i + d = j
    BY <1>1, <1>6
  <2> HIDE DEF d
  <2>2. d \in T
    BY <1>5, <2>1
  <2>3. ~Before(K(i + d), K(i))
    BY <2>1, <2>2
  <2> QED
    BY <2>1, <2>3
<1> QED
  BY <1>1, <1>6 DEF InOrder, K

\* No two lines of g are the same to the sort.
NoneTwice(g) == \A i \in 1 .. Len(g) - 1 : Key(g[i]) # Key(g[i + 1])

LEMMA AllDiffer ==
  ASSUME NEW g \in Seq(Line), Follow(g), NoneTwice(g), NEW i \in 1 .. Len(g), NEW j \in 1 .. Len(g), i < j
  PROVE  Key(g[i]) # Key(g[j])
<1> DEFINE n == Len(g)
           k == i + 1
<1>1. n \in Nat /\ DOMAIN g = 1 .. n /\ \A l \in 1 .. n : Key(g[l]) \in Seq(Nat)
  BY SeqFacts, KeyOfLine
<1>2. k \in 1 .. n /\ i \in 1 .. n - 1 /\ (k = j \/ k < j)
  BY <1>1
<1>3. Key(g[i]) # Key(g[k]) /\ ~Before(Key(g[k]), Key(g[i]))
  BY <1>2 DEF NoneTwice, Follow
<1>4. Before(Key(g[i]), Key(g[k]))
  BY <1>1, <1>2, <1>3, BeforeTotal
<1> HIDE DEF k
<1>5. k < j => ~Before(Key(g[j]), Key(g[k]))
  BY <1>1, <1>2, FollowInOrder DEF InOrder
<1> QED
  BY <1>2, <1>3, <1>4, <1>5

\* do_the_sort() on lines in order.
LEMMA SortKeeps ==
  ASSUME NEW b, NEW g, Group(b, g), Follow(g), NEW s \in Sortings(g)
  PROVE  Looks(s, g) /\ (NoneTwice(g) => s = g)
<1> DEFINE n == Len(g)
           K == [i \in 1 .. n |-> Key(g[i])]
<1>1. g \in Seq(Line) /\ n \in Nat /\ DOMAIN g = 1 .. n
      /\ \A i \in 1 .. n : g[i] \in Line /\ IsImport(g[i])
  BY SeqFacts DEF Group, Files
<1>2. PICK p \in [1 .. n -> 1 .. n] :
        /\ \A i, j \in 1 .. n : p[i] = p[j] => i = j
        /\ \A i, j \in 1 .. n : i < j => ~Before(Key(g[p[j]]), Key(g[p[i]]))
        /\ s = [i \in 1 .. n |-> [g[p[i]] EXCEPT !.nl = g[i].nl]]
  BY <1>1 DEF Sortings
<1>3. InOrder(g)
  BY <1>1, FollowInOrder
<1>4. K \in [1 .. n -> Seq(Nat)]
  BY <1>1, KeyOfLine
<1>5. KeysInOrder(n, K)
  BY <1>1, <1>3 DEF InOrder, KeysInOrder
<1>6. \A i, j \in 1 .. n : i < j => ~Before(K[p[j]], K[p[i]])
  BY <1>2
<1>7. \A i \in 1 .. n : K[i] = Key(g[i]) /\ K[p[i]] = Key(g[p[i]])
  BY <1>2
<1> HIDE DEF K
<1>8. ASSUME NEW i \in 1 .. n
      PROVE  Key(g[p[i]]) = Key(g[i])
  <2>2. TwoOrders(n, K, p)
    BY <1>1, <1>2, <1>4, <1>5, <1>6 DEF TwoOrders
  <2> DEFINE q == p
  <2>3. TwoOrders(n, K, q)
    BY <2>2
  <2> HIDE DEF n, q
  <2>4. K[q[i]] = K[i]
    BY <2>3, OneOrder
  <2>1. K[p[i]] = K[i]
    BY <2>4 DEF q
  <2> QED
    BY <1>7, <2>1
<1>9. Len(s) = n
  <2>1. Group(b, s) /\ Len(s) = Len(g)
    BY SortedAlike
  <2> QED
    BY <2>1
<1>10. ASSUME NEW i \in 1 .. n
       PROVE  Like(s[i], g[i])
  <2> DEFINE x == g[p[i]]
             y == g[i]
             m == y.nl
  <2>1. x \in Line /\ y \in Line /\ IsImport(x) /\ IsImport(y) /\ Key(x) = Key(y)
    BY <1>1, <1>2, <1>8
  <2>2. s[i] = [x EXCEPT !.nl = m]
    BY <1>2
  <2>5. m = y.nl
    OBVIOUS
  <2> HIDE DEF x, y, m
  <2>3. x.text = y.text /\ x.comment = y.comment /\ x.kind = y.kind
    BY <2>1, KeyTells DEF IsImport
  <2>4. /\ [x EXCEPT !.nl = m].kind = x.kind /\ [x EXCEPT !.nl = m].text = x.text
        /\ [x EXCEPT !.nl = m].comment = x.comment /\ [x EXCEPT !.nl = m].nl = m
    BY <2>1 DEF Line
  <2> QED
    BY <2>2, <2>3, <2>4, <2>5 DEF Like, y
<1>11. ASSUME NoneTwice(g)
       PROVE  s = g
  <2>1. ASSUME NEW i \in 1 .. n
        PROVE  p[i] = i
    <3>1. p[i] \in 1 .. n
      BY <1>2
    <3>2. ~(p[i] < i) /\ ~(i < p[i])
      BY <1>1, <1>8, <1>11, <3>1, AllDiffer
    <3> QED
      BY <3>1, <3>2
  <2>2. ASSUME NEW i \in 1 .. n
        PROVE  s[i] = g[i]
    <3> DEFINE y == g[i]
    <3>1. s[i] = [y EXCEPT !.nl = y.nl] /\ y \in Line
      BY <1>1, <1>2, <2>1
    <3> HIDE DEF y
    <3>2. [y EXCEPT !.nl = y.nl] = y
      BY <3>1 DEF Line
    <3> QED
      BY <3>1, <3>2 DEF y
  <2>3. s = [i \in 1 .. n |-> s[i]] /\ g = [i \in 1 .. n |-> g[i]]
    BY <1>1, <1>2
  <2> QED
    BY <2>2, <2>3
<1> QED
  BY <1>9, <1>10, <1>11 DEF Looks

LEMMA Singles ==
  ASSUME NEW S, NEW g \in Seq(S), Len(g) > 0
  PROVE  FlattenSeq([i \in DOMAIN g |-> <<g[i]>>]) = g
<1> DEFINE n == Len(g)
           s == [i \in 1 .. n |-> <<g[i]>>]
<1>1. n \in Nat /\ DOMAIN g = 1 .. n /\ \A i \in 1 .. n : g[i] \in S
  BY SeqFacts
<1>2. \A i \in 1 .. n : s[i] = <<g[i]>> /\ s[i] \in Seq(S) /\ Len(s[i]) = 1 /\ s[i][1] = g[i]
  BY <1>1
<1>3. s \in Seq(Seq(S)) /\ Len(s) = n /\ Len(s) > 0
  BY <1>1, <1>2
<1>8. s = [i \in DOMAIN g |-> <<g[i]>>]
  BY <1>1
<1> HIDE DEF s
<1>4. PICK f \in [1 .. n -> Seq(S)] :
        /\ f[1] = s[1] /\ \A i \in 2 .. n : f[i] = f[i - 1] \o s[i]
        /\ FlattenSeq(s) = f[n]
  <2>1. \E f \in [1 .. Len(s) -> Seq(S)] :
          /\ f[1] = s[1] /\ \A i \in 2 .. Len(s) : f[i] = f[i - 1] \o s[i]
          /\ FlattenSeq(s) = f[Len(s)]
    <3> HIDE DEF n
    <3>1. s \in Seq(Seq(S)) /\ Len(s) > 0
      BY <1>3
    <3> QED
      BY <3>1, Flattened
  <2> QED
    BY <1>3, <2>1
<1> DEFINE Good(k) == Len(f[k]) = k /\ \A j \in 1 .. k : f[k][j] = g[j]
           T == {k \in Nat : k \in 1 .. n => Good(k)}
<1>5. 0 \in T
  OBVIOUS
<1>6. ASSUME NEW k \in Nat, k \in T
      PROVE  k + 1 \in T
  <2> SUFFICES ASSUME k + 1 \in 1 .. n
               PROVE  Good(k + 1)
    OBVIOUS
  <2>1. CASE k = 0
    <3>1. k + 1 = 1 /\ 1 \in 1 .. n
      BY <2>1
    <3>2. Len(f[1]) = 1 /\ f[1][1] = g[1]
      BY <1>2, <1>4, <3>1
    <3>3. \A j \in 1 .. 1 : j = 1
      OBVIOUS
    <3> QED
      BY <3>1, <3>2, <3>3
  <2>2. CASE k # 0
    <3> DEFINE i == k + 1
    <3>1. i \in 2 .. n /\ i \in 1 .. n /\ k \in 1 .. n /\ i - 1 = k /\ i = k + 1
      BY <1>1, <2>2
    <3>5. Good(k)
      BY <1>6, <3>1
    <3> HIDE DEF i
    <3>2. f[i] = f[k] \o s[i] /\ f[k] \in Seq(S) /\ s[i] \in Seq(S)
      BY <1>2, <1>4, <3>1
    <3>3. /\ Len(f[i]) = Len(f[k]) + Len(s[i])
          /\ \A j \in 1 .. Len(f[k]) + Len(s[i]) :
               f[i][j] = IF j <= Len(f[k]) THEN f[k][j] ELSE s[i][j - Len(f[k])]
      <4> DEFINE u == f[k]
                 v == s[i]
                 w == f[i]
      <4>1. u \in Seq(S) /\ v \in Seq(S) /\ w = u \o v
        BY <3>2
      <4> HIDE DEF u, v, w
      <4>2. /\ Len(w) = Len(u) + Len(v)
            /\ \A j \in 1 .. Len(u) + Len(v) : w[j] = IF j <= Len(u) THEN u[j] ELSE v[j - Len(u)]
        BY <4>1, ConcatProperties
      <4> QED
        BY <4>2 DEF u, v, w
    <3>4. Len(f[k]) = k /\ Len(s[i]) = 1 /\ s[i][1] = g[i]
      BY <1>2, <3>1, <3>5
    <3>6. ASSUME NEW j \in 1 .. i
          PROVE  f[i][j] = g[j]
      <4>1. f[i][j] = IF j <= k THEN f[k][j] ELSE s[i][j - k]
        BY <3>1, <3>3, <3>4
      <4>2. CASE j <= k
        BY <3>5, <4>1, <4>2
      <4>3. CASE ~(j <= k)
        <5>1. j = i /\ j - k = 1
          BY <3>1, <4>3
        <5> QED
          BY <3>4, <4>1, <4>3, <5>1
      <4> QED
        BY <4>2, <4>3
    <3>7. Good(i)
      BY <3>1, <3>3, <3>4, <3>6
    <3> QED
      BY <3>1, <3>7
  <2> QED
    BY <2>1, <2>2
<1>7. Nat \subseteq T
  <2> HIDE DEF T
  <2> QED
    BY <1>5, <1>6, InductiveSet
<1>9. Good(n) /\ f[n] \in Seq(S)
  BY <1>1, <1>4, <1>7
<1>10. f[n] = g
  BY <1>9, SeqEqual
<1> QED
  BY <1>4, <1>8, <1>10

\* What grouping makes of a group.
Tidy(g) == \A i \in 1 .. Len(g) - 1 : Fits(TRUE, g[i], g[i + 1])

\* The blank lines of a group in order stay.
LEMMA JoinedAndGrouped ==
  ASSUME NEW g \in Seq(Line), Len(g) > 0, Tidy(g)
  PROVE  Grouped(Joined(g)) = g
<1> DEFINE n == Len(g)
           j == Joined(g)
           e == Grouped(j)
<1>1. n \in Nat /\ DOMAIN g = 1 .. n /\ \A i \in 1 .. n : g[i] \in Line
  BY SeqFacts
<1>2. DOMAIN j = 1 .. n /\ \A i \in 1 .. n : j[i] = IF i < n THEN [g[i] EXCEPT !.nl = 1] ELSE g[i]
  BY <1>1 DEF Joined
<1>3. Len(j) = n
  <2>1. j = [i \in 1 .. n |-> IF i < n THEN [g[i] EXCEPT !.nl = 1] ELSE g[i]]
    BY <1>1 DEF Joined
  <2> QED
    BY <1>1, <2>1
<1> HIDE DEF j
<1>4. DOMAIN e = 1 .. n
      /\ \A i \in 1 .. n : e[i] = IF i < n /\ j[i].nl < 2 /\ Apart(j[i].text, j[i + 1].text)
                                 THEN [j[i] EXCEPT !.nl = 2] ELSE j[i]
  BY <1>2, <1>3 DEF Grouped
<1>5. \A i \in 1 .. n : j[i].text = g[i].text
  <2> SUFFICES ASSUME NEW i \in 1 .. n
               PROVE  j[i].text = g[i].text
    OBVIOUS
  <2> DEFINE x == g[i]
             y == j[i]
             one == [x EXCEPT !.nl = 1]
  <2>1. x \in Line /\ (y = one \/ y = x)
    BY <1>1, <1>2
  <2>2. one.text = x.text
    BY <2>1, NewlineSet
  <2> HIDE DEF x, y, one
  <2>3. y.text = x.text
    BY <2>1, <2>2
  <2> QED
    BY <2>3 DEF x, y
<1>9. \A i \in 1 .. n : i = n \/ i < n
  <2> HIDE DEF n
  <2> QED
    BY <1>1
<1>6. ASSUME NEW i \in 1 .. n
      PROVE  e[i] = g[i]
  <2>1. CASE i = n
    BY <1>2, <1>4, <2>1
  <2>2. CASE i < n
    <3> DEFINE x == g[i]
    <3>1. i \in 1 .. n - 1 /\ i + 1 \in 1 .. n
      BY <1>1, <2>2
    <3>2. x.nl = IF Apart(x.text, g[i + 1].text) THEN 2 ELSE 1
      BY <3>1 DEF Tidy, Fits
    <3>3. j[i] = [x EXCEPT !.nl = 1] /\ x \in Line /\ j[i].text = x.text /\ j[i + 1].text = g[i + 1].text
      BY <1>1, <1>2, <1>5, <2>2, <3>1
    <3>4. e[i] = IF j[i].nl < 2 /\ Apart(x.text, g[i + 1].text) THEN [j[i] EXCEPT !.nl = 2] ELSE j[i]
      BY <1>4, <2>2, <3>3
    <3> HIDE DEF x
    <3>5. [x EXCEPT !.nl = 1].nl = 1
      BY <3>3, NewlineSet
    <3>7. ASSUME Apart(x.text, g[i + 1].text)
          PROVE  e[i] = x
      <4>1. x.nl = 2 /\ e[i] = [[x EXCEPT !.nl = 1] EXCEPT !.nl = 2]
        BY <3>2, <3>3, <3>4, <3>5, <3>7
      <4>2. [[x EXCEPT !.nl = 1] EXCEPT !.nl = 2] = x
        BY <3>3, <4>1 DEF Line
      <4> QED
        BY <4>1, <4>2
    <3>8. ASSUME ~Apart(x.text, g[i + 1].text)
          PROVE  e[i] = x
      <4>1. x.nl = 1 /\ e[i] = [x EXCEPT !.nl = 1]
        BY <3>2, <3>3, <3>4, <3>8
      <4>2. [x EXCEPT !.nl = 1] = x
        BY <3>3, <4>1 DEF Line
      <4> QED
        BY <4>1, <4>2
    <3>9. e[i] = x
      BY <3>7, <3>8
    <3> QED
      BY <3>9 DEF x
  <2> QED
    BY <1>9, <2>1, <2>2
<1>7. e \in [1 .. n -> Line] /\ g \in [1 .. n -> Line]
  <2>1. e = [i \in 1 .. n |-> e[i]] /\ g = [i \in 1 .. n |-> g[i]]
    BY <1>1, <1>4 DEF Grouped
  <2> HIDE DEF e
  <2> QED
    BY <1>1, <1>6, <2>1
<1> HIDE DEF e
<1>8. e = g
  BY <1>6, <1>7
<1> QED
  BY <1>8 DEF e, j

\* The lines of a group without duplicates stay.
LEMMA NothingDeduped ==
  ASSUME NEW g \in Seq(Line), Len(g) > 0, Tidy(g)
  PROVE  Deduped(g) = g
<1>1. Len(g) \in Nat /\ DOMAIN g = 1 .. Len(g)
  BY SeqFacts
<1>2. \A i \in DOMAIN g : ~(i < Len(g) /\ Same(g[i], g[i + 1]))
  BY <1>1 DEF Tidy, Fits
<1>3. Deduped(g) = FlattenSeq([i \in DOMAIN g |-> <<g[i]>>])
  BY <1>2 DEF Deduped
<1> QED
  BY <1>3, Singles

LEMMA FlushKeeps ==
  ASSUME grouping \in BOOLEAN, NEW g, Group(grouping, g),
         \A i \in 1 .. Len(g) - 1 : Fits(grouping, g[i], g[i + 1]),
         NEW body \in Flushed(g)
  PROVE  Looks(body, g) /\ (grouping => body = g)
<1>1. g \in Seq(Line) /\ Len(g) \in Nat /\ DOMAIN g = 1 .. Len(g)
      /\ \A i \in 1 .. Len(g) : g[i] \in Line
  BY SeqFacts DEF Group, Files
<1>2. Looks(g, g)
  BY DEF Looks, Like
<1>3. Follow(g)
  BY DEF Follow, Fits
<1>4. CASE Len(g) < 2
  <2>1. body = g
    BY <1>4 DEF Flushed
  <2> QED
    BY <1>2, <2>1
<1>5. CASE ~(Len(g) < 2) /\ ~grouping
  <2>1. body \in Sortings(g)
    BY <1>5 DEF Flushed
  <2> QED
    BY <1>3, <1>5, <2>1, SortKeeps
<1>6. CASE ~(Len(g) < 2) /\ grouping
  <2>1. PICK s \in Sortings(Joined(g)) : body = Deduped(Grouped(s))
    BY <1>6 DEF Flushed
  <2> DEFINE j == Joined(g)
  <2>2. /\ Group(grouping, j) /\ Len(j) = Len(g) /\ DOMAIN j = DOMAIN g
        /\ \A i \in DOMAIN g : j[i].text = g[i].text
    BY <1>6, JoinedAlike DEF OnlyCodeEnds
  <2>3. j \in Seq(Line) /\ \A i \in 1 .. Len(g) : j[i] \in Line /\ Key(j[i]) = Key(g[i])
    <3>1. j \in Seq(Line) /\ \A i \in 1 .. Len(j) : j[i] \in Line
      BY <2>2, SeqFacts DEF Group, Files
    <3>2. \A i \in 1 .. Len(g) : j[i] = [g[i] EXCEPT !.nl = 1] \/ j[i] = g[i]
      BY <1>1 DEF Joined
    <3> HIDE DEF j
    <3>3. ASSUME NEW i \in 1 .. Len(g)
          PROVE  Key(j[i]) = Key(g[i])
      <4> DEFINE x == g[i]
                 one == [x EXCEPT !.nl = 1]
      <4>1. x \in Line /\ (j[i] = one \/ j[i] = x)
        BY <1>1, <3>2
      <4>2. Key(one) = Key(x)
        BY <4>1, NewlineSet
      <4> HIDE DEF x, one
      <4>3. Key(j[i]) = Key(x)
        BY <4>1, <4>2
      <4> QED
        BY <4>3 DEF x
    <3> QED
      BY <2>2, <3>1, <3>3
  <2>4. s \in Sortings(j)
    OBVIOUS
  <2> HIDE DEF j
  <2>5. ASSUME NEW i \in 1 .. Len(g) - 1
        PROVE  i \in 1 .. Len(g) /\ i + 1 \in 1 .. Len(g)
    BY <1>1
  <2>6. Follow(j)
    BY <1>3, <2>2, <2>3, <2>5 DEF Follow
  <2>7. NoneTwice(j)
    <3> SUFFICES ASSUME NEW i \in 1 .. Len(g) - 1, Key(g[i]) = Key(g[i + 1])
                 PROVE  FALSE
      BY <2>2, <2>3, <2>5 DEF NoneTwice
    <3>1. g[i].text = g[i + 1].text
      BY <1>1, <2>5, KeyTells
    <3>2. ~Same(g[i], g[i + 1])
      BY <1>6 DEF Fits
    <3> QED
      BY <3>1, <3>2 DEF Same
  <2>8. s = j
    BY <2>2, <2>4, <2>6, <2>7, SortKeeps
  <2>9. Tidy(g)
    BY <1>6 DEF Tidy, Fits
  <2>10. Grouped(j) = g
    BY <1>1, <1>6, <2>9, JoinedAndGrouped DEF j
  <2>11. Deduped(g) = g
    BY <1>1, <1>6, <2>9, NothingDeduped
  <2> QED
    BY <1>2, <2>1, <2>8, <2>10, <2>11
<1> QED
  BY <1>4, <1>5, <1>6

-----------------------------------------------------------------------------
(* A second run leaves the file alone                                      *)

\* Between imports there are no more blank lines than a group may have.
NoWideSpace(f) ==
  \A i \in 1 .. Len(f) - 1 : IsImport(f[i]) /\ IsImport(f[i + 1]) => f[i].nl <= MaxGap

\* The lines behind k are a group that no newline ends: it is collected, and
\* the file is over.
Unended(b, f, k) ==
  /\ k < Len(f) /\ f[Len(f)].nl = 0
  /\ \A i \in k + 1 .. Len(f) - 1 :
       IsImport(f[i]) /\ (IF b THEN IsImport(f[i + 1]) => f[i].nl <= MaxGap ELSE f[i].nl = 1)
  /\ b /\ k > 0 => ~IsImport(f[k])

\* The groups up to line k are in order, and the rest is not flushed.
Lasting(b, f, k) ==
  /\ k \in 0 .. Len(f)
  /\ \A i \in 1 .. k - 1 : Adjoin(b, f[i], f[i + 1]) => Fits(b, f[i], f[i + 1])
  /\ k = Len(f) \/ Unended(b, f, k)

Near ==
  \A i \in at - pending .. Len(lines) - 1 :
    IsImport(lines[i]) /\ IsImport(lines[i + 1]) => lines[i].nl <= MaxGap

\* The scan ends where there is no newline.
Over == ~running /\ ~exited => ~HasNewline

\* In the second run the line numbers are those of the lines, and what is
\* remembered is the line before.
Twice ==
  /\ Looks(lines, src)
  /\ \E k \in Int : Lasting(grouping, lines, k)
  /\ grouping =>
       /\ lines = src
       /\ \A i \in 1 .. Len(lines) - 1 : lines[i + 1].orig = lines[i].orig + lines[i].nl
       /\ last # None => at > 1 /\ IsImport(lines[at - 1]) /\ last = lines[at - 1].orig

StableInv ==
  Narrow(given[1]) =>
    /\ Len(given) = 1 => Near /\ Over
    /\ Len(given) = 2 => Twice

LEMMA FitsLike ==
  ASSUME NEW b, NEW x, NEW y, NEW u, NEW v, Like(u, x), Like(v, y)
  PROVE  /\ Fits(b, x, y) <=> Fits(b, u, v)
         /\ Adjoin(b, x, y) <=> Adjoin(b, u, v)
<1>1. Key(u) = Key(x) /\ Key(v) = Key(y)
  BY DEF Like, Key
<1> QED
  BY <1>1 DEF Like, Fits, Adjoin, Same, IsImport

LEMMA LastingLooks ==
  ASSUME NEW b, NEW f \in Seq(Line), NEW h \in Seq(Line), NEW k, Looks(h, f), Lasting(b, f, k)
  PROVE  Lasting(b, h, k)
<1> DEFINE n == Len(f)
<1>1. n \in Nat /\ Len(h) = n /\ \A i \in 1 .. n : Like(h[i], f[i])
  BY SeqFacts DEF Looks
<1>2. k \in 0 .. n
  BY DEF Lasting
<1> HIDE DEF n
<1>3. ASSUME NEW i \in 1 .. k - 1, Adjoin(b, h[i], h[i + 1])
      PROVE  Fits(b, h[i], h[i + 1])
  <2> DEFINE j == i + 1
  <2>1. i \in 1 .. n /\ j \in 1 .. n
    BY <1>1, <1>2
  <2>2. Adjoin(b, f[i], f[i + 1]) => Fits(b, f[i], f[i + 1])
    BY DEF Lasting
  <2>3. Like(h[i], f[i]) /\ Like(h[j], f[j])
    BY <1>1, <2>1
  <2> HIDE DEF j
  <2>4. /\ Fits(b, f[i], f[j]) <=> Fits(b, h[i], h[j])
        /\ Adjoin(b, f[i], f[j]) <=> Adjoin(b, h[i], h[j])
    BY <2>3, FitsLike
  <2> QED
    BY <1>3, <2>2, <2>4 DEF j
<1>4. ASSUME Unended(b, f, k)
      PROVE  Unended(b, h, k)
  <2>1. k < n /\ f[n].nl = 0 /\ n \in 1 .. n
    BY <1>1, <1>2, <1>4 DEF Unended, n
  <2>2. h[n].nl = 0
    BY <1>1, <2>1 DEF Like
  <2>3. ASSUME NEW i \in k + 1 .. n - 1
        PROVE  IsImport(h[i]) /\ (IF b THEN IsImport(h[i + 1]) => h[i].nl <= MaxGap ELSE h[i].nl = 1)
    <3> DEFINE j == i + 1
    <3>1. i \in 1 .. n /\ j \in 1 .. n
      BY <1>1, <1>2
    <3>2. Like(h[i], f[i]) /\ Like(h[j], f[j])
      BY <1>1, <3>1
    <3>3. IsImport(f[i]) /\ (IF b THEN IsImport(f[j]) => f[i].nl <= MaxGap ELSE f[i].nl = 1)
      BY <1>4 DEF Unended, n
    <3> QED
      BY <3>2, <3>3 DEF Like, IsImport
  <2>4. ASSUME b, k > 0
        PROVE  ~IsImport(h[k])
    <3>1. k \in 1 .. n
      BY <1>1, <1>2, <2>4
    <3>2. Like(h[k], f[k])
      BY <1>1, <3>1
    <3>3. ~IsImport(f[k])
      BY <1>4, <2>4 DEF Unended
    <3> QED
      BY <3>2, <3>3 DEF Like, IsImport
  <2> QED
    BY <1>1, <2>1, <2>2, <2>3, <2>4 DEF Unended
<1>5. k = n \/ Unended(b, f, k)
  BY DEF Lasting, n
<1> QED
  BY <1>1, <1>2, <1>3, <1>4, <1>5 DEF Lasting

LEMMA LikeTransitive ==
  ASSUME NEW f, NEW g, NEW h, Looks(f, g), Looks(g, h)
  PROVE  Looks(f, h)
  BY DEF Looks, Like

LEMMA LooksInside ==
  ASSUME NEW p \in Seq(Line), NEW g \in Seq(Line), NEW body \in Seq(Line), NEW q \in Seq(Line),
         Looks(body, g)
  PROVE  Looks((p \o body) \o q, (p \o g) \o q)
<1> DEFINE u == (p \o body) \o q
           v == (p \o g) \o q
<1>1. Len(p) \in Nat /\ Len(g) \in Nat /\ Len(q) \in Nat /\ Len(body) = Len(g)
  BY SeqFacts DEF Looks
<1>2. /\ Len(u) = Len(p) + Len(body) + Len(q)
      /\ \A i \in 1 .. Len(p) : u[i] = p[i]
      /\ \A i \in 1 .. Len(body) : u[Len(p) + i] = body[i]
      /\ \A i \in 1 .. Len(q) : u[Len(p) + Len(body) + i] = q[i]
  BY ThreeParts
<1>3. /\ Len(v) = Len(p) + Len(g) + Len(q)
      /\ \A i \in 1 .. Len(p) : v[i] = p[i]
      /\ \A i \in 1 .. Len(g) : v[Len(p) + i] = g[i]
      /\ \A i \in 1 .. Len(q) : v[Len(p) + Len(g) + i] = q[i]
  BY ThreeParts
<1> HIDE DEF u, v
<1>4. ASSUME NEW i \in 1 .. Len(v)
      PROVE  Like(u[i], v[i])
  <2>1. CASE i <= Len(p)
    <3>1. i \in 1 .. Len(p)
      BY <2>1
    <3> QED
      BY <1>2, <1>3, <3>1 DEF Like
  <2>2. CASE i > Len(p) /\ i <= Len(p) + Len(g)
    <3> DEFINE j == i - Len(p)
    <3>1. j \in 1 .. Len(g) /\ Len(p) + j = i
      BY <1>1, <2>2
    <3> HIDE DEF j
    <3>2. u[i] = body[j] /\ v[i] = g[j]
      BY <1>1, <1>2, <1>3, <3>1
    <3> QED
      BY <3>1, <3>2 DEF Looks
  <2>3. CASE i > Len(p) + Len(g)
    <3> DEFINE j == i - (Len(p) + Len(g))
    <3>1. j \in 1 .. Len(q) /\ Len(p) + Len(g) + j = i
      BY <1>1, <1>3, <2>3
    <3> HIDE DEF j
    <3>2. u[i] = q[j] /\ v[i] = q[j]
      BY <1>1, <1>2, <1>3, <3>1
    <3> QED
      BY <3>2 DEF Like
  <2> QED
    BY <1>1, <2>1, <2>2, <2>3
<1>5. Len(u) = Len(v)
  BY <1>1, <1>2, <1>3
<1> QED
  BY <1>4, <1>5 DEF Looks, u, v

LEMMA InitStable ==
  ASSUME \A f \in Inputs : NoWideSpace(f), Init
  PROVE  StableInv
<1>1. NoWideSpace(lines) /\ at = 1 /\ pending = 0 /\ running = TRUE /\ Len(given) = 1
  BY DEF Init
<1>2. at - pending = 1
  BY <1>1
<1> QED
  BY <1>1, <1>2 DEF StableInv, NoWideSpace, Near, Over

LEMMA CollectStable ==
  ASSUME ScanInv, StableInv, Collect
  PROVE  StableInv'
<1>1. HasNewline /\ TypeOK /\ running
  BY DEF Collect, ScanInv
<1>2. at \in Nat /\ pending \in Nat /\ at \in 1 .. Len(lines)
  BY <1>1, LineScanned
<1>3. /\ pending' = pending + 1 /\ at' = at + 1 /\ last' = lines[at].orig /\ IsImport(lines[at])
      /\ lines' = lines /\ running' = running /\ grouping' = grouping /\ given' = given /\ src' = src
  BY DEF Collect, src
<1>4. at' - pending' = at - pending /\ at' > 1 /\ at' - 1 = at
  BY <1>2, <1>3
<1>5. Near => Near'
  BY <1>3, <1>4 DEF Near, IsImport
<1>6. Over'
  BY <1>1, <1>3 DEF Over
<1>7. ASSUME Twice
      PROVE  Twice'
  <2>1. Looks(lines', src') /\ \E k \in Int : Lasting(grouping', lines', k)
    BY <1>3, <1>7 DEF Twice
  <2>2. IsImport(lines'[at' - 1]) /\ last' = lines'[at' - 1].orig
    BY <1>3, <1>4 DEF IsImport
  <2> QED
    BY <1>3, <1>4, <1>7, <2>1, <2>2 DEF Twice, IsImport
<1> QED
  BY <1>3, <1>5, <1>6, <1>7 DEF StableInv

LEMMA TooManyStable ==
  ASSUME StableInv, TooMany
  PROVE  StableInv'
<1>1. /\ lines' = lines /\ at' = at /\ pending' = pending /\ last' = last /\ exited' = TRUE
      /\ grouping' = grouping /\ given' = given /\ src' = src
  BY DEF TooMany, src
<1>2. Over' /\ (Near => Near') /\ (Twice => Twice')
  BY <1>1 DEF Over, Near, Twice, IsImport
<1> QED
  BY <1>1, <1>2 DEF StableInv

LEMMA FinishStable ==
  ASSUME ScanInv, OrderInv, StableInv, Finish
  PROVE  StableInv'
<1>1. /\ lines' = lines /\ at' = at /\ pending' = pending /\ last' = last /\ exited' = exited
      /\ grouping' = grouping /\ given' = given /\ src' = src
      /\ HasNewline => TooFar
  BY DEF Finish, src
<1>2. (Near => Near') /\ (Twice => Twice')
  BY <1>1 DEF Near, Twice, IsImport
<1>3. ASSUME Len(given) = 1, Narrow(given[1])
      PROVE  ~HasNewline
  <2>1. Narrow(src)
    BY <1>3 DEF src
  <2>2. Remaining /\ Remembered /\ TypeOK
    BY <2>1 DEF OrderInv, ScanInv
  <2>3. HasNewline => grouping
    BY <1>1 DEF TooFar
  <2> QED
    BY <1>1, <2>1, <2>2, <2>3, NearLast
<1>4. Len(given) = 1 /\ Narrow(given[1]) => Over'
  BY <1>1, <1>3 DEF Over, HasNewline
<1> QED
  BY <1>1, <1>2, <1>4 DEF StableInv

\* The file a run has come to the end of lasts.
LEMMA EndLasts ==
  ASSUME ScanInv, OrderInv, Narrow(src), Near, ~HasNewline
  PROVE  \E k \in Int : Lasting(grouping, lines, k)
<1> DEFINE n == Len(lines)
           m == at - pending
<1>1. /\ n \in Nat /\ at \in 1 .. n + 1 /\ pending \in 0 .. at - 1
      /\ \A i \in 1 .. n : lines[i] \in Line /\ lines[i].nl \in Nat
  <2>1. lines \in Seq(Line)
    BY DEF ScanInv, TypeOK, Files
  <2>2. n \in Nat /\ \A i \in 1 .. n : lines[i] \in Line
    BY <2>1, SeqFacts
  <2> QED
    BY <2>2 DEF ScanInv, TypeOK, Line
<1>2. Closed /\ Sorted /\ Terminated(lines) /\ Collected /\ (at > n => pending = 0)
  BY DEF OrderInv, ScanInv
<1>3. CASE at > n
  <2>1. at - pending - 2 = n - 1 /\ n \in 0 .. n /\ n \in Int
    BY <1>1, <1>2, <1>3
  <2>2. Lasting(grouping, lines, n)
    BY <1>2, <2>1 DEF Lasting, Sorted
  <2> QED
    BY <2>1, <2>2
<1>4. CASE at <= n
  <2> DEFINE k == m - 1
  <2>1. at \in 1 .. n /\ lines[at].nl = 0
    BY <1>1, <1>4 DEF HasNewline
  <2>2. at = n
    <3>1. at \in 1 .. n - 1 => lines[at].nl > 0
      BY <1>2 DEF Terminated
    <3> QED
      BY <1>1, <2>1, <3>1
  <2>3. /\ k \in 0 .. n /\ k \in Int /\ k < n /\ k + 1 = m /\ k - 1 = at - pending - 2
        /\ k = at - pending - 1 /\ (k > 0 => at - pending > 1)
    BY <1>1, <2>2
  <2>4. \A i \in k + 1 .. n - 1 : IsImport(lines[i]) /\ (~grouping => lines[i].nl = 1)
    BY <1>2, <2>2, <2>3 DEF Collected
  <2>5. \A i \in k + 1 .. n - 1 : IsImport(lines[i + 1]) => lines[i].nl <= MaxGap
    BY <2>3, <2>4 DEF Near
  <2>6. grouping /\ k > 0 => ~IsImport(lines[k])
    BY <1>2, <1>4, <2>3 DEF Closed
  <2>7. Unended(grouping, lines, k)
    BY <2>1, <2>2, <2>3, <2>4, <2>5, <2>6 DEF Unended
  <2>8. \A i \in 1 .. k - 1 :
          Adjoin(grouping, lines[i], lines[i + 1]) => Fits(grouping, lines[i], lines[i + 1])
    BY <1>2, <2>3 DEF Sorted
  <2> HIDE DEF k
  <2>9. Lasting(grouping, lines, k)
    BY <2>3, <2>7, <2>8 DEF Lasting
  <2> QED
    BY <2>3, <2>9
<1> QED
  BY <1>1, <1>3, <1>4

LEMMA AgainStable ==
  ASSUME ScanInv, OrderInv, StableInv, Again
  PROVE  StableInv'
<1> DEFINE f == Numbered(lines)
<1>1. /\ lines' = f /\ given' = Append(given, f) /\ last' = None /\ grouping' = grouping
      /\ ~running /\ ~exited /\ Len(given) = 1
  BY DEF Again
<1>2. /\ f \in Files /\ Len(f) = Len(lines)
      /\ \A i \in DOMAIN lines : /\ f[i].nl = lines[i].nl /\ f[i].kind = lines[i].kind
                                 /\ f[i].text = lines[i].text /\ f[i].comment = lines[i].comment
      /\ \A i \in 1 .. Len(lines) - 1 : f[i + 1].orig = f[i].orig + lines[i].nl
  BY NumberedFile DEF ScanInv, TypeOK
<1>3. lines \in Seq(Line) /\ Len(lines) \in Nat /\ DOMAIN lines = 1 .. Len(lines)
  BY SeqFacts DEF ScanInv, TypeOK, Files
<1>4. f \in Seq(Line)
  BY <1>2 DEF Files
<1> HIDE DEF f
<1>5. src' = f /\ Len(given') = 2 /\ given'[1] = given[1]
  <2>1. given \in Seq(Files)
    BY DEF ScanInv, TypeOK
  <2>2. Len(Append(given, f)) = Len(given) + 1
    BY <1>2, <2>1, AppendProperties
  <2>3. Append(given, f)[Len(given) + 1] = f
    BY <1>2, <2>1, AppendProperties
  <2>4. 1 \in 1 .. Len(given)
    BY <1>1
  <2>5. Append(given, f)[1] = given[1]
    BY <1>2, <2>1, <2>4, AppendProperties
  <2> QED
    BY <1>1, <2>2, <2>3, <2>5 DEF src
<1>6. SUFFICES ASSUME Narrow(given[1])
               PROVE  Twice'
  BY <1>5 DEF StableInv
<1>7. Narrow(src) /\ Near /\ ~HasNewline
  BY <1>1, <1>6 DEF StableInv, Over, src
<1>8. PICK k \in Int : Lasting(grouping, lines, k)
  BY <1>7, EndLasts
<1>9. Looks(f, lines)
  BY <1>2, <1>3 DEF Looks, Like
<1>10. Lasting(grouping, f, k)
  BY <1>3, <1>4, <1>8, <1>9, LastingLooks
<1>11. Looks(f, f)
  BY DEF Looks, Like
<1>12. \A i \in 1 .. Len(f) - 1 : f[i + 1].orig = f[i].orig + f[i].nl
  BY <1>2, <1>3
<1> QED
  BY <1>1, <1>5, <1>10, <1>11, <1>12 DEF Twice

\* Run one: what is behind the group is as it was.
LEMMA FlushNear ==
  ASSUME ScanInv, OrderInv, Near, Flush
  PROVE  Near'
<1>1. HasNewline /\ TypeOK
  BY DEF Flush, ScanInv
<1>2. at \in 1 .. Len(lines) /\ Len(lines) \in Nat /\ pending \in Nat
  BY <1>1, LineScanned
<1>3. PICK m, end, to, body : Flushing(m, end, to, body)
  BY FlushMeans
<1>4. /\ m \in Nat /\ end \in Nat /\ to \in Nat /\ m = at - pending /\ m >= 1 /\ end <= at
      /\ to <= end /\ at' = to + 1 + (at - end) /\ pending' = 0
      /\ Len(lines') = to + Len(lines) - end
      /\ \A i \in 1 .. Len(lines) - end : lines'[to + i] = lines[end + i]
  BY <1>3 DEF Flushing
<1> SUFFICES ASSUME NEW i \in at' .. Len(lines') - 1, IsImport(lines'[i]), IsImport(lines'[i + 1])
             PROVE  lines'[i].nl <= MaxGap
  <2>1. at' - pending' = at'
    BY <1>2, <1>4
  <2> QED
    BY <2>1 DEF Near, IsImport
<1> DEFINE k == i - to
           l == k + 1
           j == end + k
<1>5. /\ k \in 1 .. Len(lines) - end /\ l \in 1 .. Len(lines) - end
      /\ to + k = i /\ to + l = i + 1 /\ end + l = j + 1
      /\ j \in at - pending .. Len(lines) - 1
  BY <1>2, <1>4
<1>6. lines'[to + k] = lines[end + k] /\ lines'[to + l] = lines[end + l]
  BY <1>4, <1>5
<1> HIDE DEF k, l
<1>7. lines'[i] = lines[j] /\ lines'[i + 1] = lines[j + 1]
  BY <1>5, <1>6
<1> HIDE DEF j
<1> QED
  BY <1>5, <1>7 DEF Near, IsImport

\* Run two: the line that is flushed is not behind the groups in order.
LEMMA FlushedInOrder ==
  ASSUME ScanInv, Twice, Flush, NEW k \in Int, Lasting(grouping, lines, k)
  PROVE  at <= k
<1>1. HasNewline /\ TypeOK /\ EndsGroup
  BY DEF Flush, ScanInv
<1>2. at \in 1 .. Len(lines) /\ Len(lines) \in Nat /\ lines[at].nl > 0 /\ lines[at].nl \in Nat
  BY <1>1, LineScanned
<1>3. \A i \in 1 .. Len(lines) : lines[i].nl \in Nat /\ lines[i].orig \in Int
  <2>1. lines \in Seq(Line)
    BY <1>1 DEF TypeOK, Files
  <2>2. \A i \in 1 .. Len(lines) : lines[i] \in Line
    BY <2>1, SeqFacts
  <2> QED
    BY <2>2 DEF Line
<1> SUFFICES ASSUME at > k
             PROVE  FALSE
  BY <1>2
<1>4. Unended(grouping, lines, k) /\ k \in Nat
  BY <1>2 DEF Lasting
<1>5. at # Len(lines)
  BY <1>2, <1>4 DEF Unended
<1>6. at \in k + 1 .. Len(lines) - 1
  BY <1>2, <1>4, <1>5
<1>7. IsImport(lines[at]) /\ (~grouping => lines[at].nl = 1)
  BY <1>4, <1>6 DEF Unended
<1>8. grouping /\ Beyond(MaxGap)
  BY <1>1, <1>5, <1>7 DEF EndsGroup
<1> DEFINE j == at - 1
<1>9. last # None /\ at > 1 /\ IsImport(lines[j]) /\ last = lines[j].orig /\ lines[at].orig - last > MaxGap
  BY <1>8 DEF Beyond, Twice
<1>10. j \in 1 .. Len(lines) - 1 /\ j + 1 = at /\ j \in 1 .. Len(lines) /\ (j = k \/ j \in k + 1 .. Len(lines) - 1)
  BY <1>2, <1>4, <1>6, <1>9
<1>11. lines[at].orig = lines[j].orig + lines[j].nl
  BY <1>8, <1>10 DEF Twice
<1> HIDE DEF j
<1>12. lines[j].nl > MaxGap
  <2>1. lines[j].nl \in Int /\ lines[j].orig \in Int /\ MaxGap \in Int
    BY <1>3, <1>10, BoundsAssumption
  <2> DEFINE x == lines[j].nl
             y == lines[j].orig
             z == lines[at].orig
  <2>2. x \in Int /\ y \in Int /\ z = y + x /\ z - y > MaxGap
    BY <1>9, <1>11, <2>1
  <2> HIDE DEF x, y, z
  <2>3. x > MaxGap
    BY <2>1, <2>2
  <2> QED
    BY <2>3 DEF x
<1>13. CASE j = k
  <2>1. k > 0
    BY <1>10, <1>13
  <2> QED
    BY <1>4, <1>8, <1>9, <1>13, <2>1 DEF Unended
<1>14. CASE j # k
  <2>1. j \in k + 1 .. Len(lines) - 1
    BY <1>10, <1>14
  <2>2. IsImport(lines[j + 1])
    BY <1>7, <1>10
  <2>3. lines[j].nl <= MaxGap
    BY <1>4, <1>8, <2>1, <2>2 DEF Unended
  <2>4. lines[j].nl \in Nat /\ MaxGap \in Nat
    BY <1>3, <1>10, BoundsAssumption
  <2> QED
    BY <1>12, <2>3, <2>4
<1> QED
  BY <1>13, <1>14

LEMMA FlushTwice ==
  ASSUME ScanInv, Twice, Flush
  PROVE  Twice'
<1>1. HasNewline /\ TypeOK /\ Collected /\ ScanInv'
  BY ScanStep DEF Flush, ScanInv, Next
<1>2. /\ at \in 1 .. Len(lines) /\ Len(lines) \in Nat /\ pending \in Nat /\ at - pending \in 1 .. at
      /\ lines \in Seq(Line) /\ grouping \in BOOLEAN
  BY <1>1, LineScanned DEF TypeOK
<1>3. grouping' = grouping /\ given' = given /\ src' = src
  BY DEF Flush, src
<1>4. PICK k \in Int : Lasting(grouping, lines, k)
  BY DEF Twice
<1>5. at <= k
  BY <1>4, FlushedInOrder
<1>6. PICK p, g, q, body, end : Cut(p, g, q, body, end)
  BY <1>1, FlushParts
<1> DEFINE m == at - pending
<1>7. /\ end = (IF IsImport(lines[at]) THEN at ELSE at - 1)
      /\ p \in Seq(Line) /\ q \in Seq(Line) /\ Group(grouping, g)
      /\ Len(p) = m - 1 /\ Len(g) = end - m + 1
      /\ \A i \in 1 .. Len(g) : g[i] = lines[m + i - 1]
      /\ lines = (p \o g) \o q
      /\ body \in Flushed(g)
      /\ lines' = (p \o body) \o q
      /\ at' = m + Len(body) + (IF IsImport(lines[at]) THEN 0 ELSE 1)
      /\ last' \in LastSeen(body)
  BY <1>6 DEF Cut
<1>8. m \in Nat /\ m >= 1 /\ m <= at /\ end \in Nat /\ end <= at /\ end >= m - 1 /\ end <= k
  <2>1. end = at \/ end = at - 1
    BY <1>7
  <2> QED
    BY <1>2, <1>5, <2>1
<1>9. m = at - pending
  OBVIOUS
<1> HIDE DEF m
<1>10. g \in Seq(Line) /\ Len(g) \in Nat /\ DOMAIN g = 1 .. Len(g)
  BY <1>7, SeqFacts DEF Group, Files
<1>11. ASSUME NEW i \in 1 .. Len(g) - 1
       PROVE  Fits(grouping, g[i], g[i + 1])
  <2> DEFINE j == m + i - 1
             l == i + 1
             n == Len(g)
  <2>7. n \in Nat /\ n = end - m + 1 /\ i \in 1 .. n - 1
    BY <1>7, <1>10
  <2> HIDE DEF n
  <2>8. i \in 1 .. n /\ l \in 1 .. n /\ m + l - 1 = j + 1 /\ j \in m .. at - 1 /\ j \in 1 .. k - 1
    BY <1>2, <1>8, <2>7
  <2>1. /\ i \in 1 .. Len(g) /\ l \in 1 .. Len(g) /\ m + l - 1 = j + 1
        /\ j \in at - pending .. at - 1 /\ j \in 1 .. k - 1
    BY <1>9, <2>8 DEF n
  <2>2. g[i] = lines[j] /\ g[l] = lines[j + 1]
    BY <1>7, <2>1
  <2>3. IsImport(g[i]) /\ IsImport(g[l])
    BY <1>7, <1>10, <2>1 DEF Group
  <2> HIDE DEF j
  <2>4. ~grouping => lines[j].nl = 1
    BY <1>1, <2>1 DEF Collected
  <2>5. Adjoin(grouping, lines[j], lines[j + 1])
    BY <2>2, <2>3, <2>4 DEF Adjoin
  <2>6. Fits(grouping, lines[j], lines[j + 1])
    BY <1>4, <2>1, <2>5 DEF Lasting
  <2> QED
    BY <2>2, <2>6
<1>12. Looks(body, g) /\ (grouping => body = g)
  BY <1>2, <1>7, <1>11, FlushKeeps
<1>13. body \in Seq(Line)
  BY <1>2, <1>7, FlushedAlike DEF Files
<1>14. Looks(lines', lines)
  <2>1. Looks((p \o body) \o q, (p \o g) \o q)
    BY <1>7, <1>10, <1>12, <1>13, LooksInside
  <2> QED
    BY <1>7, <2>1
<1>15. lines' \in Seq(Line)
  BY <1>1 DEF ScanInv, TypeOK, Files
<1>16. Lasting(grouping', lines', k)
  BY <1>2, <1>3, <1>4, <1>14, <1>15, LastingLooks
<1>17. Looks(lines', src')
  <2>1. Looks(lines, src)
    BY DEF Twice
  <2>2. Looks(lines', src)
    BY <1>14, <2>1, LikeTransitive
  <2> QED
    BY <1>3, <2>2
<1>18. grouping => lines' = lines
  BY <1>7, <1>12
<1>19. at' = at + 1
  <2>1. Len(body) = end - m + 1
    BY <1>7, <1>12 DEF Looks
  <2>2. CASE IsImport(lines[at])
    BY <1>2, <1>7, <1>8, <2>1, <2>2
  <2>3. CASE ~IsImport(lines[at])
    BY <1>2, <1>7, <1>8, <2>1, <2>3
  <2> QED
    BY <2>2, <2>3
<1>20. ASSUME grouping, last' # None
       PROVE  at' > 1 /\ IsImport(lines'[at' - 1]) /\ last' = lines'[at' - 1].orig
  <2>1. IsImport(lines[at])
    BY <1>7, <1>20 DEF LastSeen
  <2>2. body = g /\ lines' = lines
    BY <1>12, <1>18, <1>20
  <2> DEFINE n == Len(g)
  <2>3. n \in 1 .. Len(g) /\ m + n - 1 = at /\ n \in DOMAIN body
    BY <1>2, <1>7, <1>8, <1>10, <2>1, <2>2
  <2>4. g[n] = lines[at]
    BY <1>7, <2>3
  <2>5. last' = lines[at].orig
    BY <1>7, <2>1, <2>2, <2>3, <2>4 DEF LastSeen
  <2>6. at' > 1 /\ at' - 1 = at
    BY <1>2, <1>19
  <2> QED
    BY <2>1, <2>2, <2>5, <2>6
<1>21. grouping => /\ lines' = src'
                   /\ \A i \in 1 .. Len(lines') - 1 : lines'[i + 1].orig = lines'[i].orig + lines'[i].nl
  BY <1>3, <1>18 DEF Twice
<1> QED
  BY <1>3, <1>16, <1>17, <1>20, <1>21 DEF Twice, IsImport

LEMMA FlushStable ==
  ASSUME ScanInv, OrderInv, StableInv, Flush
  PROVE  StableInv'
<1>1. running' = running /\ given' = given /\ running
  BY DEF Flush
<1>2. Over'
  BY <1>1 DEF Over
<1>3. (Near => Near') /\ (Twice => Twice')
  BY FlushNear, FlushTwice
<1> QED
  BY <1>1, <1>2, <1>3 DEF StableInv

LEMMA StableStep ==
  ASSUME ScanInv, OrderInv, StableInv, [Next]_vars
  PROVE  StableInv'
<1>1. CASE UNCHANGED vars
  <2>1. /\ lines' = lines /\ at' = at /\ pending' = pending /\ last' = last /\ exited' = exited
        /\ running' = running /\ grouping' = grouping /\ given' = given /\ src' = src
    BY <1>1 DEF vars, src
  <2>2. (Over => Over') /\ (Near => Near') /\ (Twice => Twice')
    BY <2>1 DEF Over, HasNewline, Near, Twice, IsImport
  <2> QED
    BY <2>1, <2>2 DEF StableInv
<1> QED
  BY <1>1, CollectStable, FlushStable, TooManyStable, FinishStable, AgainStable DEF Next

\* A second run of the program leaves every line as the first one made it,
\* also with a group at the end of the file that no newline ends, if the blank
\* lines between two imports are not more than the scan allows for.
THEOREM StaysStable ==
  ASSUME \A f \in Inputs : NoWideSpace(f)
  PROVE  Spec => Stable
<1> DEFINE A == Len(given) = 2 /\ Narrow(given[1]) => Layout(lines') = Layout(src)
           J == ScanInv /\ OrderInv /\ StableInv
<1>1. Init => J
  BY InitScan, InitOrder, InitStable
<1>2. J /\ [Next]_vars => J'
  BY ScanStep, OrderStep, StableStep
<1>3. J /\ [Next]_vars => [A]_vars
  <2> SUFFICES ASSUME J, J', Next, Len(given) = 2, Narrow(given[1])
               PROVE  Layout(lines') = Layout(src)
    BY <1>2
  <2>1. given' = given /\ src' = src
    <3>1. given' = given
      BY DEF Next, Collect, Flush, TooMany, Finish, Again
    <3> QED
      BY <3>1 DEF src
  <2>2. Looks(lines', src)
    BY <2>1 DEF StableInv, Twice
  <2>3. src \in Seq(Line) /\ DOMAIN src = 1 .. Len(src) /\ Len(src) \in Nat
    BY SourceFacts DEF ScanInv
  <2>4. lines' \in Seq(Line) /\ DOMAIN lines' = 1 .. Len(lines')
    <3>1. lines' \in Seq(Line)
      BY DEF ScanInv, TypeOK, Files
    <3> QED
      BY <3>1, SeqFacts
  <2> QED
    BY <2>2, <2>3, <2>4 DEF Looks, Like, Layout
<1> QED
  BY <1>1, <1>2, <1>3, PTL DEF Spec, Stable

=============================================================================
