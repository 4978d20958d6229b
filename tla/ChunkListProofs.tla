-------------------------- MODULE ChunkListProofs --------------------------
(***************************************************************************)
(* The chunk list is the sequence the passes take it for, whatever they    *)
(* do to it and however many chunks there are, as long as Swap() is only   *)
(* called where it is called today.                                        *)
(*                                                                         *)
(* The invariant is inductive as it stands; the work is in the methods.    *)
(* Each has a lemma: from a list that links s it makes one that links the  *)
(* edited s.  Positions are read with At(), which is Null off both ends,   *)
(* so that the first and the last chunk need no cases of their own.        *)
(***************************************************************************)
EXTENDS ChunkList, SequenceTheorems, TLAPS

Absent(c, s) == \A i \in 1 .. Len(s) : s[i] # c

LEMMA InsertAtProperties ==
  ASSUME NEW S, NEW s \in Seq(S), NEW e \in S, NEW k \in 1 .. Len(s) + 1
  PROVE  /\ InsertAt(s, k, e) \in Seq(S)
         /\ Len(InsertAt(s, k, e)) = Len(s) + 1
         /\ \A i \in 1 .. Len(s) + 1 :
              InsertAt(s, k, e)[i] = IF i < k THEN s[i] ELSE IF i = k THEN e ELSE s[i - 1]
<1> DEFINE a == SubSeq(s, 1, k - 1)
           b == SubSeq(s, k, Len(s))
<1>1. Len(s) \in Nat /\ k \in Nat /\ k >= 1 /\ k <= Len(s) + 1
  OBVIOUS
<1>2. a \in Seq(S) /\ Len(a) = k - 1 /\ \A i \in 1 .. k - 1 : a[i] = s[i]
  BY <1>1
<1>3. b \in Seq(S) /\ Len(b) = Len(s) - k + 1
      /\ \A i \in 1 .. Len(s) - k + 1 : b[i] = s[k + i - 1]
  BY <1>1
<1>4. <<e>> \in Seq(S) /\ Len(<<e>>) = 1 /\ <<e>>[1] = e
  OBVIOUS
<1> HIDE DEF a, b
<1>5. /\ a \o <<e>> \in Seq(S) /\ Len(a \o <<e>>) = k
      /\ \A i \in 1 .. k : (a \o <<e>>)[i] = IF i < k THEN s[i] ELSE e
  BY <1>1, <1>2, <1>4
<1> DEFINE c == a \o <<e>>
<1>6. c \in Seq(S) /\ Len(c) = k /\ \A i \in 1 .. k : c[i] = IF i < k THEN s[i] ELSE e
  BY <1>5
<1> HIDE DEF c
<1>7. /\ c \o b \in Seq(S) /\ Len(c \o b) = Len(s) + 1
      /\ \A i \in 1 .. Len(s) + 1 : (c \o b)[i] = IF i <= k THEN c[i] ELSE b[i - k]
  <2>1. Len(c) + Len(b) = Len(s) + 1 /\ Len(c) = k
    BY <1>1, <1>3, <1>6
  <2>2. /\ c \o b \in Seq(S) /\ Len(c \o b) = Len(c) + Len(b)
        /\ \A i \in 1 .. Len(c) + Len(b) :
             (c \o b)[i] = IF i <= Len(c) THEN c[i] ELSE b[i - Len(c)]
    BY <1>3, <1>6, ConcatProperties
  <2> QED
    BY <2>1, <2>2
<1>8. InsertAt(s, k, e) = c \o b
  BY DEF InsertAt, a, b, c
<1>9. \A i \in 1 .. Len(s) + 1 : i > k => b[i - k] = s[i - 1]
  BY <1>1, <1>3
<1> QED
  BY <1>1, <1>6, <1>7, <1>8, <1>9

LEMMA RemoveAtProperties ==
  ASSUME NEW S, NEW s \in Seq(S), NEW k \in 1 .. Len(s)
  PROVE  /\ RemoveAt(s, k) \in Seq(S)
         /\ Len(RemoveAt(s, k)) = Len(s) - 1
         /\ \A i \in 1 .. Len(s) - 1 :
              RemoveAt(s, k)[i] = IF i < k THEN s[i] ELSE s[i + 1]
<1> DEFINE a == SubSeq(s, 1, k - 1)
           b == SubSeq(s, k + 1, Len(s))
<1>1. Len(s) \in Nat /\ k \in Nat /\ k >= 1 /\ k <= Len(s)
  OBVIOUS
<1>2. a \in Seq(S) /\ Len(a) = k - 1 /\ \A i \in 1 .. k - 1 : a[i] = s[i]
  BY <1>1
<1>3. b \in Seq(S) /\ Len(b) = Len(s) - k
      /\ \A i \in 1 .. Len(s) - k : b[i] = s[k + i]
  BY <1>1
<1>4. RemoveAt(s, k) = a \o b
  BY DEF RemoveAt, a, b
<1> HIDE DEF a, b
<1>5. /\ a \o b \in Seq(S) /\ Len(a \o b) = Len(s) - 1
      /\ \A i \in 1 .. Len(s) - 1 : (a \o b)[i] = IF i < k THEN a[i] ELSE b[i - (k - 1)]
  <2>1. Len(a) + Len(b) = Len(s) - 1 /\ Len(a) = k - 1
    BY <1>1, <1>2, <1>3
  <2>2. /\ a \o b \in Seq(S) /\ Len(a \o b) = Len(a) + Len(b)
        /\ \A i \in 1 .. Len(a) + Len(b) :
             (a \o b)[i] = IF i <= Len(a) THEN a[i] ELSE b[i - Len(a)]
    BY <1>2, <1>3, ConcatProperties
  <2> QED
    BY <2>1, <2>2, <1>1
<1>6. \A i \in 1 .. Len(s) - 1 : i >= k => b[i - (k - 1)] = s[i + 1]
  <2> TAKE i \in 1 .. Len(s) - 1
  <2> HAVE i >= k
  <2>1. i - (k - 1) \in 1 .. Len(s) - k /\ k + (i - (k - 1)) = i + 1
    BY <1>1
  <2> QED
    BY <2>1, <1>3
<1> QED
  BY <1>1, <1>2, <1>4, <1>5, <1>6


-----------------------------------------------------------------------------

\* The edited sequence, read with At().
LEMMA AtInsert ==
  ASSUME NEW s \in Seq(Chunks), NEW c \in Chunks, NEW k \in 1 .. Len(s) + 1
  PROVE  \A i \in Int : At(InsertAt(s, k, c), i) =
           IF i < k THEN At(s, i) ELSE IF i = k THEN c ELSE At(s, i - 1)
<1>1. /\ Len(InsertAt(s, k, c)) = Len(s) + 1
      /\ \A i \in 1 .. Len(s) + 1 :
           InsertAt(s, k, c)[i] = IF i < k THEN s[i] ELSE IF i = k THEN c ELSE s[i - 1]
  BY InsertAtProperties
<1> DEFINE t == InsertAt(s, k, c)
<1> HIDE DEF t
<1>2. SUFFICES ASSUME NEW i \in Int
               PROVE  At(t, i) = IF i < k THEN At(s, i) ELSE IF i = k THEN c ELSE At(s, i - 1)
  BY DEF t
<1>3. Len(t) = Len(s) + 1 /\ Len(s) \in Nat
  BY <1>1 DEF t
<1>4. CASE i \in 1 .. Len(s) + 1
  <2>1. t[i] = IF i < k THEN s[i] ELSE IF i = k THEN c ELSE s[i - 1]
    BY <1>1, <1>4 DEF t
  <2> QED
    BY <2>1, <1>3, <1>4 DEF At
<1>5. CASE i \notin 1 .. Len(s) + 1
  BY <1>3, <1>5 DEF At
<1> QED
  BY <1>4, <1>5

LEMMA AtRemove ==
  ASSUME NEW s \in Seq(Chunks), NEW k \in 1 .. Len(s)
  PROVE  \A i \in Int : At(RemoveAt(s, k), i) =
           IF i < k THEN At(s, i) ELSE At(s, i + 1)
<1>1. /\ Len(RemoveAt(s, k)) = Len(s) - 1
      /\ \A i \in 1 .. Len(s) - 1 : RemoveAt(s, k)[i] = IF i < k THEN s[i] ELSE s[i + 1]
  BY RemoveAtProperties
<1> DEFINE t == RemoveAt(s, k)
<1> HIDE DEF t
<1>2. SUFFICES ASSUME NEW i \in Int
               PROVE  At(t, i) = IF i < k THEN At(s, i) ELSE At(s, i + 1)
  BY DEF t
<1>3. Len(t) = Len(s) - 1 /\ Len(s) \in Nat
  BY <1>1 DEF t
<1>4. CASE i \in 1 .. Len(s) - 1
  <2>1. t[i] = IF i < k THEN s[i] ELSE s[i + 1]
    BY <1>1, <1>4 DEF t
  <2> QED
    BY <2>1, <1>3, <1>4 DEF At
<1>5. CASE i \notin 1 .. Len(s) - 1
  BY <1>3, <1>5 DEF At
<1> QED
  BY <1>4, <1>5

\* Two sequences of chunks that At() reads alike are the same.
LEMMA AtExtensional ==
  ASSUME NEW s \in Seq(Chunks), NEW t \in Seq(Chunks), Len(s) = Len(t),
         \A i \in 1 .. Len(s) : At(s, i) = At(t, i)
  PROVE  s = t
<1>1. \A i \in 1 .. Len(s) : s[i] = t[i]
  BY DEF At
<1> QED
  BY <1>1, SeqEqual

-----------------------------------------------------------------------------

\* What Linked says, one fact at a time.
LEMMA LinkedFacts ==
  ASSUME NEW l \in Links, NEW s \in Seq(Chunks), Linked(l, s)
  PROVE  /\ \A i, j \in 1 .. Len(s) : s[i] = s[j] => i = j
         /\ l.head = At(s, 1) /\ l.tail = At(s, Len(s))
         /\ \A i \in 1 .. Len(s) : l.next[s[i]] = At(s, i + 1)
         /\ \A i \in 1 .. Len(s) : l.prev[s[i]] = At(s, i - 1)
         /\ \A d \in Chunks : Absent(d, s) => l.next[d] = Null /\ l.prev[d] = Null
BY DEF Linked, Distinct, Absent

\* A chunk of s stands in one place.
LEMMA AtOnce ==
  ASSUME NEW s \in Seq(Chunks), \A i, j \in 1 .. Len(s) : s[i] = s[j] => i = j,
         NEW i \in 1 .. Len(s), NEW j \in Int
  PROVE  /\ At(s, i) = s[i] /\ s[i] \in Chunks
         /\ s[i] = At(s, j) <=> i = j
<1>1. s[i] \in Chunks /\ s[i] # Null /\ At(s, i) = s[i]
  BY NullAssumption DEF At
<1>2. CASE j \in 1 .. Len(s)
  BY <1>1, <1>2 DEF At
<1>3. CASE j \notin 1 .. Len(s)
  BY <1>1, <1>3 DEF At
<1> QED
  BY <1>1, <1>2, <1>3

\* The same pointers, read through the places.
LEMMA LinkedByPlaces ==
  ASSUME NEW m, NEW t \in Seq(Chunks), Distinct(t),
         m.head = At(t, 1), m.tail = At(t, Len(t)),
         \A i \in 1 .. Len(t) : m.next[At(t, i)] = At(t, i + 1)
                               /\ m.prev[At(t, i)] = At(t, i - 1),
         \A d \in Chunks : Absent(d, t) => m.next[d] = Null /\ m.prev[d] = Null
  PROVE  Linked(m, t)
<1>1. \A i \in 1 .. Len(t) : At(t, i) = t[i]
  BY DEF At
<1> QED
  BY <1>1 DEF Linked, Absent

\* Whichever end or side it comes from, a chunk c has been linked in at place k
\* when it points at the chunks around the place and they point at it.
LEMMA InsertLinked ==
  ASSUME NEW l \in Links, NEW s \in Seq(Chunks), Linked(l, s),
         NEW c \in Chunks, Absent(c, s), NEW k \in 1 .. Len(s) + 1,
         NEW m \in Links,
         \A d \in Chunks : m.next[d] = IF d = c THEN At(s, k)
                                        ELSE IF d = At(s, k - 1) THEN c ELSE l.next[d],
         \A d \in Chunks : m.prev[d] = IF d = c THEN At(s, k - 1)
                                        ELSE IF d = At(s, k) THEN c ELSE l.prev[d],
         m.head = IF k = 1 THEN c ELSE l.head,
         m.tail = IF k = Len(s) + 1 THEN c ELSE l.tail
  PROVE  Linked(m, InsertAt(s, k, c))
<1> DEFINE t == InsertAt(s, k, c)
           n == Len(s)
<1>1. /\ Len(t) = n + 1
      /\ t \in Seq(Chunks)
      /\ \A i \in 1 .. n + 1 : t[i] = IF i < k THEN s[i] ELSE IF i = k THEN c ELSE s[i - 1]
  BY InsertAtProperties
<1>2. \A i \in Int : At(t, i) = IF i < k THEN At(s, i) ELSE IF i = k THEN c ELSE At(s, i - 1)
  BY AtInsert
<1>3. n \in Nat /\ k \in 1 .. n + 1
  OBVIOUS
<1>4. \A i \in 1 .. n : s[i] \in Chunks /\ s[i] # c
  BY DEF Absent
<1>5. \A i, j \in 1 .. n : s[i] = s[j] => i = j
  BY LinkedFacts
<1>6. l.head = At(s, 1) /\ l.tail = At(s, n)
  BY LinkedFacts
<1>7. \A i \in 1 .. n : l.next[s[i]] = At(s, i + 1) /\ l.prev[s[i]] = At(s, i - 1)
  BY LinkedFacts
<1>8. \A d \in Chunks : Absent(d, s) => l.next[d] = Null /\ l.prev[d] = Null
  BY LinkedFacts
<1>9. \A i \in 1 .. n, j \in Int : At(s, i) = s[i] /\ (s[i] = At(s, j) <=> i = j)
  BY <1>5, AtOnce
<1> HIDE DEF t, n
<1>10. Distinct(t)
  <2> SUFFICES ASSUME NEW i \in 1 .. n + 1, NEW j \in 1 .. n + 1, t[i] = t[j] PROVE i = j
    BY <1>1 DEF Distinct
  <2>1. CASE i = k \/ j = k
    <3>1. t[k] = c
      BY <1>1, <1>3
    <3>2. ASSUME NEW x \in 1 .. n + 1, x # k PROVE t[x] # c
      <4>1. CASE x < k
        BY <1>1, <1>3, <1>4, <4>1
      <4>2. CASE x > k
        <5>1. t[x] = s[x - 1] /\ x - 1 \in 1 .. n
          BY <1>1, <1>3, <4>2
        <5> QED
          BY <5>1, <1>4
      <4> QED
        BY <3>2, <4>1, <4>2, <1>3
    <3> QED
      BY <2>1, <3>1, <3>2
  <2>2. ASSUME NEW x \in 1 .. n + 1, x < k PROVE x \in 1 .. n /\ t[x] = s[x]
    BY <1>1, <1>3, <2>2
  <2>3. ASSUME NEW x \in 1 .. n + 1, x > k PROVE x - 1 \in 1 .. n /\ t[x] = s[x - 1]
    BY <1>1, <1>3, <2>3
  <2>4. ASSUME NEW x \in 1 .. n, NEW y \in 1 .. n, s[x] = s[y] PROVE x = y
    BY <1>5, <2>4 DEF Distinct
  <2>5. CASE i < k /\ j < k
    <3>1. i \in 1 .. n /\ j \in 1 .. n /\ s[i] = s[j]
      BY <2>2, <2>5
    <3> QED
      BY <2>4, <3>1
  <2>6. CASE i < k /\ j > k
    <3>1. i \in 1 .. n /\ j - 1 \in 1 .. n /\ s[i] = s[j - 1]
      BY <2>2, <2>3, <2>6
    <3>2. i = j - 1
      BY <2>4, <3>1
    <3> QED
      BY <1>3, <2>6, <3>2
  <2>7. CASE i > k /\ j < k
    <3>1. i - 1 \in 1 .. n /\ j \in 1 .. n /\ s[i - 1] = s[j]
      BY <2>2, <2>3, <2>7
    <3>2. i - 1 = j
      BY <2>4, <3>1
    <3> QED
      BY <1>3, <2>7, <3>2
  <2>8. CASE i > k /\ j > k
    <3>1. i - 1 \in 1 .. n /\ j - 1 \in 1 .. n /\ s[i - 1] = s[j - 1]
      BY <2>3, <2>8
    <3>2. i - 1 = j - 1
      BY <2>4, <3>1
    <3> QED
      BY <3>2
  <2> QED
    BY <1>3, <2>1, <2>5, <2>6, <2>7, <2>8
<1>11. m.head = At(t, 1)
  <2>1. At(t, 1) = IF 1 < k THEN At(s, 1) ELSE c
    BY <1>2, <1>3
  <2> QED
    BY <2>1, <1>3, <1>6
<1>12. m.tail = At(t, n + 1)
  <2>1. At(t, n + 1) = IF n + 1 = k THEN c ELSE At(s, n)
    BY <1>2, <1>3
  <2> QED
    BY <2>1, <1>3, <1>6 DEF n
<1>13. ASSUME NEW i \in 1 .. n + 1
       PROVE  m.next[At(t, i)] = At(t, i + 1) /\ m.prev[At(t, i)] = At(t, i - 1)
  <2>1. CASE i = k
    <3>1. At(t, i) = c /\ At(t, i + 1) = At(s, k) /\ At(t, i - 1) = At(s, k - 1)
      BY <1>2, <1>3, <2>1
    <3> QED
      BY <3>1
  <2>2. CASE i < k
    <3>1. At(t, i) = s[i] /\ i \in 1 .. n /\ s[i] \in Chunks /\ s[i] # c
      BY <1>2, <1>3, <1>4, <1>9, <2>2
    <3>2. At(t, i - 1) = At(s, i - 1)
          /\ At(t, i + 1) = IF i = k - 1 THEN c ELSE At(s, i + 1)
      BY <1>2, <1>3, <2>2
    <3>3. (s[i] = At(s, k - 1) <=> i = k - 1) /\ s[i] # At(s, k)
      BY <1>3, <1>9, <2>2, <3>1
    <3>4. l.next[s[i]] = At(s, i + 1) /\ l.prev[s[i]] = At(s, i - 1)
      BY <1>7, <3>1
    <3> QED
      BY <3>1, <3>2, <3>3, <3>4
  <2>3. CASE i > k
    <3> DEFINE j == i - 1
    <3>0. j \in 1 .. n /\ j >= k /\ i = j + 1
      BY <1>3, <2>3
    <3>1. At(t, i) = s[j] /\ s[j] \in Chunks /\ s[j] # c
      BY <1>2, <1>3, <1>4, <1>9, <2>3, <3>0
    <3>2. At(t, i + 1) = At(s, j + 1)
          /\ At(t, i - 1) = IF j = k THEN c ELSE At(s, j - 1)
      BY <1>2, <1>3, <2>3, <3>0
    <3>3. (s[j] = At(s, k) <=> j = k) /\ s[j] # At(s, k - 1)
      BY <1>3, <1>9, <3>0
    <3>4. l.next[s[j]] = At(s, j + 1) /\ l.prev[s[j]] = At(s, j - 1)
      BY <1>7, <3>0
    <3> QED
      BY <3>1, <3>2, <3>3, <3>4
  <2> QED
    BY <1>3, <2>1, <2>2, <2>3
<1>14. ASSUME NEW d \in Chunks, Absent(d, t)
       PROVE  m.next[d] = Null /\ m.prev[d] = Null
  <2>1. \A i \in 1 .. n + 1 : t[i] # d
    BY <1>1, <1>14 DEF Absent
  <2>2. d # c
    BY <1>1, <1>3, <2>1
  <2>3. \A i \in 1 .. n : s[i] # d
    <3> SUFFICES ASSUME NEW i \in 1 .. n PROVE s[i] # d
      OBVIOUS
    <3>1. CASE i < k
      BY <1>1, <1>3, <2>1, <3>1
    <3>2. CASE i >= k
      <4>1. i + 1 \in 1 .. n + 1 /\ t[i + 1] = s[i]
        BY <1>1, <1>3, <3>2
      <4> QED
        BY <4>1, <2>1
    <3> QED
      BY <3>1, <3>2, <1>3
  <2>4. d # At(s, k) /\ d # At(s, k - 1)
    BY <2>3, NullAssumption DEF At, n
  <2>5. l.next[d] = Null /\ l.prev[d] = Null
    BY <1>8, <2>3 DEF Absent, n
  <2> QED
    BY <2>2, <2>4, <2>5
<1>15. Linked(m, t)
  BY <1>1, <1>10, <1>11, <1>12, <1>13, <1>14, LinkedByPlaces
<1> QED
  BY <1>15 DEF t

\* Likewise for taking out the chunk at place k.
LEMMA UnlinkLinked ==
  ASSUME NEW l \in Links, NEW s \in Seq(Chunks), Linked(l, s), NEW k \in 1 .. Len(s)
  PROVE  Unlink(l, s[k]) \in Links /\ Linked(Unlink(l, s[k]), RemoveAt(s, k))
<1> DEFINE t == RemoveAt(s, k)
           n == Len(s)
           c == s[k]
           m == Unlink(l, c)
<1>1. /\ Len(t) = n - 1
      /\ t \in Seq(Chunks)
      /\ \A i \in 1 .. n - 1 : t[i] = IF i < k THEN s[i] ELSE s[i + 1]
  BY RemoveAtProperties
<1>2. \A i \in Int : At(t, i) = IF i < k THEN At(s, i) ELSE At(s, i + 1)
  BY AtRemove
<1>3. n \in Nat /\ k \in 1 .. n /\ \A i \in 1 .. n : s[i] \in Chunks
  OBVIOUS
<1>4. \A i, j \in 1 .. n : s[i] = s[j] => i = j
  BY LinkedFacts
<1>5. l.head = At(s, 1) /\ l.tail = At(s, n)
  BY LinkedFacts
<1>6. \A i \in 1 .. n : l.next[s[i]] = At(s, i + 1) /\ l.prev[s[i]] = At(s, i - 1)
  BY LinkedFacts
<1>7. \A d \in Chunks : Absent(d, s) => l.next[d] = Null /\ l.prev[d] = Null
  BY LinkedFacts
<1>8. \A i \in 1 .. n, j \in Int : At(s, i) = s[i] /\ (s[i] = At(s, j) <=> i = j)
  BY <1>4, AtOnce
<1>9. /\ l.next \in [Chunks -> Chunks \cup {Null}] /\ l.prev \in [Chunks -> Chunks \cup {Null}]
      /\ l.head \in Chunks \cup {Null} /\ l.tail \in Chunks \cup {Null}
  BY DEF Links
<1>10. c \in Chunks /\ l.next[c] = At(s, k + 1) /\ l.prev[c] = At(s, k - 1)
  BY <1>3, <1>6
<1>11. At(s, k + 1) \in Chunks \cup {Null} /\ At(s, k - 1) \in Chunks \cup {Null}
  BY <1>9, <1>10
<1>12. \A d \in Chunks : m.next[d] = IF d = c THEN Null
                                      ELSE IF d = At(s, k - 1) THEN At(s, k + 1) ELSE l.next[d]
  BY <1>9, <1>10, <1>11, NullAssumption DEF Unlink, Store
<1>13. \A d \in Chunks : m.prev[d] = IF d = c THEN Null
                                      ELSE IF d = At(s, k + 1) THEN At(s, k - 1) ELSE l.prev[d]
  BY <1>9, <1>10, <1>11, NullAssumption DEF Unlink, Store
<1>14. m \in Links
  <2>1. m.next \in [Chunks -> Chunks \cup {Null}] /\ m.prev \in [Chunks -> Chunks \cup {Null}]
    BY <1>9, <1>10, <1>11, NullAssumption DEF Unlink, Store
  <2>2. m.head \in Chunks \cup {Null} /\ m.tail \in Chunks \cup {Null}
    BY <1>9, <1>10, <1>11 DEF Unlink
  <2> QED
    BY <2>1, <2>2 DEF Links, Unlink
<1>15. (At(s, 1) = c <=> k = 1) /\ (At(s, n) = c <=> k = n)
  BY <1>3, <1>8
<1>16. m.head = IF k = 1 THEN At(s, k + 1) ELSE At(s, 1)
  BY <1>5, <1>10, <1>15 DEF Unlink
<1>17. m.tail = IF k = n THEN At(s, k - 1) ELSE At(s, n)
  BY <1>5, <1>10, <1>15 DEF Unlink
<1> HIDE DEF m, t, n
<1>18. m.head = At(t, 1)
  <2>1. At(t, 1) = IF 1 < k THEN At(s, 1) ELSE At(s, 2)
    BY <1>2
  <2> QED
    BY <2>1, <1>3, <1>16
<1>19. m.tail = At(t, n - 1)
  <2>1. At(t, n - 1) = IF n - 1 < k THEN At(s, n - 1) ELSE At(s, n)
    BY <1>2, <1>3
  <2> QED
    BY <2>1, <1>3, <1>17
<1>20. Distinct(t)
  <2> SUFFICES ASSUME NEW i \in 1 .. n - 1, NEW j \in 1 .. n - 1, t[i] = t[j] PROVE i = j
    BY <1>1 DEF Distinct
  <2>1. CASE i < k /\ j < k
    BY <1>1, <1>3, <1>4, <2>1
  <2>2. CASE i < k /\ j >= k
    BY <1>1, <1>3, <1>4, <2>2
  <2>3. CASE i >= k /\ j < k
    BY <1>1, <1>3, <1>4, <2>3
  <2>4. CASE i >= k /\ j >= k
    BY <1>1, <1>3, <1>4, <2>4
  <2> QED
    BY <1>3, <2>1, <2>2, <2>3, <2>4
<1>21. ASSUME NEW i \in 1 .. n - 1
       PROVE  m.next[At(t, i)] = At(t, i + 1) /\ m.prev[At(t, i)] = At(t, i - 1)
  <2>1. CASE i < k
    <3>1. At(t, i) = s[i] /\ i \in 1 .. n /\ s[i] \in Chunks /\ s[i] # c
      BY <1>2, <1>3, <1>4, <1>8, <2>1
    <3>2. At(t, i - 1) = At(s, i - 1)
          /\ At(t, i + 1) = IF i = k - 1 THEN At(s, k + 1) ELSE At(s, i + 1)
      BY <1>2, <1>3, <2>1
    <3>3. (s[i] = At(s, k - 1) <=> i = k - 1) /\ s[i] # At(s, k + 1)
      BY <1>3, <1>8, <2>1, <3>1
    <3>4. l.next[s[i]] = At(s, i + 1) /\ l.prev[s[i]] = At(s, i - 1)
      BY <1>6, <3>1
    <3> QED
      BY <1>12, <1>13, <3>1, <3>2, <3>3, <3>4
  <2>2. CASE i >= k
    <3> DEFINE j == i + 1
    <3>0. j \in 1 .. n /\ j > k
      BY <1>3, <2>2
    <3>1. At(t, i) = s[j] /\ s[j] \in Chunks /\ s[j] # c
      <4>1. At(t, i) = At(s, j)
        BY <1>2, <1>3, <2>2
      <4>2. At(s, j) = s[j]
        BY <1>8, <3>0
      <4>3. s[j] \in Chunks /\ s[j] # s[k]
        BY <1>3, <1>4, <3>0
      <4> QED
        BY <4>1, <4>2, <4>3
    <3>2. At(t, i + 1) = At(s, j + 1)
          /\ At(t, i - 1) = IF j = k + 1 THEN At(s, k - 1) ELSE At(s, j - 1)
      BY <1>2, <1>3, <2>2, <3>0
    <3>3. (s[j] = At(s, k + 1) <=> j = k + 1) /\ s[j] # At(s, k - 1)
      BY <1>3, <1>8, <3>0
    <3>4. l.next[s[j]] = At(s, j + 1) /\ l.prev[s[j]] = At(s, j - 1)
      BY <1>6, <3>0
    <3> QED
      BY <1>12, <1>13, <3>1, <3>2, <3>3, <3>4
  <2> QED
    BY <1>3, <2>1, <2>2
<1>22. ASSUME NEW d \in Chunks, Absent(d, t)
       PROVE  m.next[d] = Null /\ m.prev[d] = Null
  <2>1. CASE d = c
    BY <1>12, <1>13, <2>1
  <2>2. CASE d # c
    <3>1. \A i \in 1 .. n - 1 : t[i] # d
      BY <1>1, <1>22 DEF Absent
    <3>2. \A i \in 1 .. n : s[i] # d
      <4> SUFFICES ASSUME NEW i \in 1 .. n PROVE s[i] # d
        OBVIOUS
      <4>1. CASE i < k
        BY <1>1, <1>3, <3>1, <4>1
      <4>2. CASE i = k
        BY <2>2, <4>2
      <4>3. CASE i > k
        <5>1. i - 1 \in 1 .. n - 1 /\ t[i - 1] = s[i]
          BY <1>1, <1>3, <4>3
        <5> QED
          BY <5>1, <3>1
      <4> QED
        BY <4>1, <4>2, <4>3, <1>3
    <3>3. d # At(s, k + 1) /\ d # At(s, k - 1)
      BY <3>2, NullAssumption DEF At, n
    <3>4. l.next[d] = Null /\ l.prev[d] = Null
      BY <1>7, <3>2 DEF Absent, n
    <3> QED
      BY <1>12, <1>13, <2>2, <3>3, <3>4
  <2> QED
    BY <2>1, <2>2
<1>23. Linked(m, t)
  BY <1>1, <1>18, <1>19, <1>20, <1>21, <1>22, LinkedByPlaces
<1> QED
  BY <1>14, <1>23 DEF t, m

-----------------------------------------------------------------------------

\* A chunk that is not in the list points nowhere and nothing points at it.
LEMMA AbsentFacts ==
  ASSUME NEW l \in Links, NEW s \in Seq(Chunks), Linked(l, s),
         NEW c \in Chunks, Absent(c, s)
  PROVE  /\ l.next[c] = Null /\ l.prev[c] = Null
         /\ l.head # c /\ l.tail # c
         /\ \A i \in Int : At(s, i) # c /\ At(s, i) \in Chunks \cup {Null}
<1>1. \A i \in Int : At(s, i) # c /\ At(s, i) \in Chunks \cup {Null}
  BY NullAssumption DEF At, Absent
<1>2. l.head = At(s, 1) /\ l.tail = At(s, Len(s)) /\ Len(s) \in Int
  BY LinkedFacts
<1>3. l.next[c] = Null /\ l.prev[c] = Null
  BY LinkedFacts
<1> QED
  BY <1>1, <1>2, <1>3

LEMMA AddAfterLinked ==
  ASSUME NEW l \in Links, NEW s \in Seq(Chunks), Linked(l, s),
         NEW c \in Chunks, Absent(c, s), NEW k \in 1 .. Len(s)
  PROVE  AddAfter(l, c, s[k]) \in Links /\ Linked(AddAfter(l, c, s[k]), InsertAt(s, k + 1, c))
<1> DEFINE ref == s[k]
           m   == AddAfter(l, c, ref)
<1>1. ref \in Chunks /\ ref # Null /\ ref # c /\ ref = At(s, k)
  BY NullAssumption DEF Absent, At
<1>2. l.next[ref] = At(s, k + 1) /\ l.prev[ref] = At(s, k - 1)
  BY LinkedFacts
<1>3. At(s, k + 1) \in Chunks \cup {Null} /\ At(s, k + 1) # c
  BY AbsentFacts
<1>4. At(s, k + 1) = Null <=> k = Len(s)
  BY NullAssumption DEF At
<1>5. /\ l.next \in [Chunks -> Chunks \cup {Null}] /\ l.prev \in [Chunks -> Chunks \cup {Null}]
      /\ l.head \in Chunks \cup {Null} /\ l.tail \in Chunks \cup {Null}
  BY DEF Links
<1>6. m = [next |-> [l.next EXCEPT ![c] = At(s, k + 1), ![ref] = c],
           prev |-> [Store(l.prev, At(s, k + 1), c) EXCEPT ![c] = ref],
           head |-> l.head,
           tail |-> IF At(s, k + 1) = Null THEN c ELSE l.tail]
  BY <1>1, <1>2 DEF AddAfter
<1>7. m \in Links
  BY <1>1, <1>3, <1>5, <1>6 DEF Links, Store
<1>8. \A d \in Chunks : m.next[d] = IF d = c THEN At(s, k + 1)
                                     ELSE IF d = At(s, k) THEN c ELSE l.next[d]
  BY <1>1, <1>5, <1>6
<1>9. \A d \in Chunks : m.prev[d] = IF d = c THEN At(s, k)
                                     ELSE IF d = At(s, k + 1) THEN c ELSE l.prev[d]
  BY <1>1, <1>3, <1>5, <1>6, NullAssumption DEF Store
<1>10. m.head = l.head /\ m.tail = IF k + 1 = Len(s) + 1 THEN c ELSE l.tail
  BY <1>4, <1>6
<1> HIDE DEF m
<1> DEFINE j == k + 1
<1>11. j \in 1 .. Len(s) + 1 /\ j # 1 /\ k = j - 1
  OBVIOUS
<1>12. Linked(m, InsertAt(s, j, c))
  <2>1. \A d \in Chunks : m.next[d] = IF d = c THEN At(s, j)
                                       ELSE IF d = At(s, j - 1) THEN c ELSE l.next[d]
    BY <1>8, <1>11
  <2>2. \A d \in Chunks : m.prev[d] = IF d = c THEN At(s, j - 1)
                                       ELSE IF d = At(s, j) THEN c ELSE l.prev[d]
    BY <1>9, <1>11
  <2>3. m.head = (IF j = 1 THEN c ELSE l.head) /\ m.tail = IF j = Len(s) + 1 THEN c ELSE l.tail
    BY <1>10, <1>11
  <2> HIDE DEF j
  <2> QED
    BY <1>7, <1>11, <2>1, <2>2, <2>3, InsertLinked
<1> QED
  BY <1>7, <1>12 DEF m

LEMMA AddBeforeLinked ==
  ASSUME NEW l \in Links, NEW s \in Seq(Chunks), Linked(l, s),
         NEW c \in Chunks, Absent(c, s), NEW k \in 1 .. Len(s)
  PROVE  AddBefore(l, c, s[k]) \in Links /\ Linked(AddBefore(l, c, s[k]), InsertAt(s, k, c))
<1> DEFINE ref == s[k]
           m   == AddBefore(l, c, ref)
<1>1. ref \in Chunks /\ ref # Null /\ ref # c /\ ref = At(s, k)
  BY NullAssumption DEF Absent, At
<1>2. l.next[ref] = At(s, k + 1) /\ l.prev[ref] = At(s, k - 1)
  BY LinkedFacts
<1>3. At(s, k - 1) \in Chunks \cup {Null} /\ At(s, k - 1) # c
  BY AbsentFacts
<1>4. At(s, k - 1) = Null <=> k = 1
  BY NullAssumption DEF At
<1>5. /\ l.next \in [Chunks -> Chunks \cup {Null}] /\ l.prev \in [Chunks -> Chunks \cup {Null}]
      /\ l.head \in Chunks \cup {Null} /\ l.tail \in Chunks \cup {Null}
      /\ l = [next |-> l.next, prev |-> l.prev, head |-> l.head, tail |-> l.tail]
  BY DEF Links
<1>6. l.next[c] = Null /\ l.prev[c] = Null /\ l.head # c /\ l.tail # c
  BY AbsentFacts
<1>7. Unlink(l, c) = l
  <2>1. [l.next EXCEPT ![c] = Null] = l.next /\ [l.prev EXCEPT ![c] = Null] = l.prev
    BY <1>5, <1>6
  <2> QED
    BY <1>5, <1>6, <2>1 DEF Unlink, Store
<1>8. m = [next |-> [Store(l.next, At(s, k - 1), c) EXCEPT ![c] = ref],
           prev |-> [l.prev EXCEPT ![c] = At(s, k - 1), ![ref] = c],
           head |-> IF At(s, k - 1) = Null THEN c ELSE l.head,
           tail |-> l.tail]
  BY <1>1, <1>2, <1>7 DEF AddBefore, LinkBefore
<1>9. m \in Links
  BY <1>1, <1>3, <1>5, <1>8 DEF Links, Store
<1>10. \A d \in Chunks : m.next[d] = IF d = c THEN At(s, k)
                                      ELSE IF d = At(s, k - 1) THEN c ELSE l.next[d]
  BY <1>1, <1>3, <1>5, <1>8, NullAssumption DEF Store
<1>11. \A d \in Chunks : m.prev[d] = IF d = c THEN At(s, k - 1)
                                      ELSE IF d = At(s, k) THEN c ELSE l.prev[d]
  BY <1>1, <1>5, <1>8
<1>12. (m.head = IF k = 1 THEN c ELSE l.head) /\ (m.tail = IF k = Len(s) + 1 THEN c ELSE l.tail)
  BY <1>4, <1>8
<1> HIDE DEF m
<1>13. k \in 1 .. Len(s) + 1
  OBVIOUS
<1>14. Linked(m, InsertAt(s, k, c))
  BY <1>9, <1>10, <1>11, <1>12, <1>13, InsertLinked
<1> QED
  BY <1>9, <1>14 DEF m

LEMMA AddHeadLinked ==
  ASSUME NEW l \in Links, NEW s \in Seq(Chunks), Linked(l, s), NEW c \in Chunks, Absent(c, s)
  PROVE  AddHead(l, c) \in Links /\ Linked(AddHead(l, c), InsertAt(s, 1, c))
<1> DEFINE m == AddHead(l, c)
<1>1. At(s, 1) \in Chunks \cup {Null} /\ At(s, 1) # c /\ At(s, 0) = Null
  BY AbsentFacts DEF At
<1>2. l.head = At(s, 1) /\ l.tail = At(s, Len(s))
  BY LinkedFacts
<1>3. At(s, 1) = Null <=> Len(s) = 0
  BY NullAssumption DEF At
<1>4. /\ l.next \in [Chunks -> Chunks \cup {Null}] /\ l.prev \in [Chunks -> Chunks \cup {Null}]
      /\ l.tail \in Chunks \cup {Null}
  BY DEF Links
<1>5. m = [next |-> [l.next EXCEPT ![c] = At(s, 1)],
           prev |-> [Store(l.prev, At(s, 1), c) EXCEPT ![c] = Null],
           head |-> c,
           tail |-> IF At(s, 1) = Null THEN c ELSE l.tail]
  BY <1>2 DEF AddHead
<1>6. m \in Links
  BY <1>1, <1>4, <1>5 DEF Links, Store
<1>7. \A d \in Chunks : m.next[d] = IF d = c THEN At(s, 1)
                                     ELSE IF d = At(s, 1 - 1) THEN c ELSE l.next[d]
  BY <1>1, <1>4, <1>5, NullAssumption
<1>8. \A d \in Chunks : m.prev[d] = IF d = c THEN At(s, 1 - 1)
                                     ELSE IF d = At(s, 1) THEN c ELSE l.prev[d]
  BY <1>1, <1>4, <1>5, NullAssumption DEF Store
<1>9. (m.head = IF 1 = 1 THEN c ELSE l.head) /\ (m.tail = IF 1 = Len(s) + 1 THEN c ELSE l.tail)
  BY <1>3, <1>5
<1> HIDE DEF m
<1>10. 1 \in 1 .. Len(s) + 1
  OBVIOUS
<1>11. Linked(m, InsertAt(s, 1, c))
  BY <1>6, <1>7, <1>8, <1>9, <1>10, InsertLinked
<1> QED
  BY <1>6, <1>11 DEF m

LEMMA AddTailLinked ==
  ASSUME NEW l \in Links, NEW s \in Seq(Chunks), Linked(l, s), NEW c \in Chunks, Absent(c, s)
  PROVE  AddTail(l, c) \in Links /\ Linked(AddTail(l, c), InsertAt(s, Len(s) + 1, c))
<1> DEFINE m == AddTail(l, c)
           k == Len(s) + 1
<1>1. At(s, k - 1) \in Chunks \cup {Null} /\ At(s, k - 1) # c /\ At(s, k) = Null
  BY AbsentFacts DEF At
<1>2. l.head = At(s, 1) /\ l.tail = At(s, k - 1)
  BY LinkedFacts
<1>3. At(s, k - 1) = Null <=> k = 1
  BY NullAssumption DEF At
<1>4. /\ l.next \in [Chunks -> Chunks \cup {Null}] /\ l.prev \in [Chunks -> Chunks \cup {Null}]
      /\ l.head \in Chunks \cup {Null}
  BY DEF Links
<1>5. k \in 1 .. Len(s) + 1
  OBVIOUS
<1>6. m = [next |-> [Store(l.next, At(s, k - 1), c) EXCEPT ![c] = Null],
           prev |-> [l.prev EXCEPT ![c] = At(s, k - 1)],
           head |-> IF At(s, k - 1) = Null THEN c ELSE l.head,
           tail |-> c]
  BY <1>2 DEF AddTail
<1>7. m \in Links
  BY <1>1, <1>4, <1>6 DEF Links, Store
<1>8. \A d \in Chunks : m.next[d] = IF d = c THEN At(s, k)
                                     ELSE IF d = At(s, k - 1) THEN c ELSE l.next[d]
  BY <1>1, <1>4, <1>6, NullAssumption DEF Store
<1>9. \A d \in Chunks : m.prev[d] = IF d = c THEN At(s, k - 1)
                                     ELSE IF d = At(s, k) THEN c ELSE l.prev[d]
  BY <1>1, <1>4, <1>6, NullAssumption
<1>10. (m.head = IF k = 1 THEN c ELSE l.head) /\ (m.tail = IF k = Len(s) + 1 THEN c ELSE l.tail)
  BY <1>3, <1>6
<1> HIDE DEF m, k
<1>11. Linked(m, InsertAt(s, k, c))
  BY <1>5, <1>7, <1>8, <1>9, <1>10, InsertLinked
<1> QED
  BY <1>7, <1>11 DEF m, k

-----------------------------------------------------------------------------

\* The calls made of two or four methods.

\* A chunk stands nowhere else once it was taken from its place.
LEMMA RemovedIsAbsent ==
  ASSUME NEW s \in Seq(Chunks), \A i, j \in 1 .. Len(s) : s[i] = s[j] => i = j,
         NEW k \in 1 .. Len(s)
  PROVE  Absent(s[k], RemoveAt(s, k))
<1> DEFINE t == RemoveAt(s, k)
<1>1. /\ Len(t) = Len(s) - 1
      /\ \A i \in 1 .. Len(s) - 1 : t[i] = IF i < k THEN s[i] ELSE s[i + 1]
  BY RemoveAtProperties
<1> HIDE DEF t
<1>2. SUFFICES ASSUME NEW i \in 1 .. Len(s) - 1 PROVE t[i] # s[k]
  BY <1>1 DEF Absent, t
<1>3. CASE i < k
  BY <1>1, <1>3
<1>4. CASE i >= k
  <2>1. t[i] = s[i + 1] /\ i + 1 \in 1 .. Len(s) /\ i + 1 # k
    BY <1>1, <1>4
  <2> QED
    BY <2>1
<1> QED
  BY <1>3, <1>4

Moved(s, k, r) ==
  IF k < r THEN InsertAt(RemoveAt(s, k), r, s[k]) ELSE InsertAt(RemoveAt(s, k), r + 1, s[k])

LEMMA MoveAfterLinked ==
  ASSUME NEW l \in Links, NEW s \in Seq(Chunks), Linked(l, s),
         NEW k \in 1 .. Len(s), NEW r \in 1 .. Len(s), k # r
  PROVE  LET m == AddAfter(Unlink(l, s[k]), s[k], s[r])
         IN  m \in Links /\ Linked(m, Moved(s, k, r))
<1> DEFINE u == RemoveAt(s, k)
           l1 == Unlink(l, s[k])
           q == IF k < r THEN r - 1 ELSE r
<1>1. l1 \in Links /\ Linked(l1, u)
  BY UnlinkLinked
<1>2. /\ u \in Seq(Chunks) /\ Len(u) = Len(s) - 1
      /\ \A i \in 1 .. Len(s) - 1 : u[i] = IF i < k THEN s[i] ELSE s[i + 1]
  BY RemoveAtProperties
<1>3. Absent(s[k], u)
  BY RemovedIsAbsent, LinkedFacts
<1>4. q \in 1 .. Len(u) /\ u[q] = s[r] /\ q + 1 = IF k < r THEN r ELSE r + 1
  BY <1>2
<1> HIDE DEF u, l1, q
<1>5. AddAfter(l1, s[k], u[q]) \in Links
      /\ Linked(AddAfter(l1, s[k], u[q]), InsertAt(u, q + 1, s[k]))
  BY <1>1, <1>2, <1>3, <1>4, AddAfterLinked
<1>6. InsertAt(u, q + 1, s[k]) = Moved(s, k, r)
  BY <1>4 DEF Moved, u
<1> QED
  BY <1>4, <1>5, <1>6 DEF l1

Exchanged(s, j, k) == [s EXCEPT ![j] = s[k], ![k] = s[j]]

LEMMA AtExchanged ==
  ASSUME NEW s \in Seq(Chunks), NEW j \in 1 .. Len(s), NEW k \in 1 .. Len(s)
  PROVE  /\ Exchanged(s, j, k) \in Seq(Chunks)
         /\ Len(Exchanged(s, j, k)) = Len(s)
         /\ \A i \in 1 .. Len(s) : At(Exchanged(s, j, k), i) =
              IF i = k THEN At(s, j) ELSE IF i = j THEN At(s, k) ELSE At(s, i)
<1> DEFINE t == Exchanged(s, j, k)
<1>1. s \in [1 .. Len(s) -> Chunks] /\ Len(s) \in Nat
  OBVIOUS
<1>2. t \in Seq(Chunks) /\ Len(t) = Len(s)
  BY DEF Exchanged
<1>3. \A i \in 1 .. Len(s) : t[i] = IF i = k THEN s[j] ELSE IF i = j THEN s[k] ELSE s[i]
  BY <1>1 DEF Exchanged
<1> QED
  BY <1>2, <1>3 DEF At

\* The second of two neighbours is put before the first.
LEMMA SwapNextLinked ==
  ASSUME NEW l \in Links, NEW s \in Seq(Chunks), Linked(l, s),
         NEW j \in 1 .. Len(s), NEW k \in 1 .. Len(s), j = k + 1
  PROVE  LET m == AddBefore(Unlink(l, s[j]), s[j], s[k])
         IN  m \in Links /\ Linked(m, Exchanged(s, j, k)) /\ Linked(m, Exchanged(s, k, j))
<1> DEFINE u == RemoveAt(s, j)
           l1 == Unlink(l, s[j])
           t == InsertAt(u, k, s[j])
<1>1. l1 \in Links /\ Linked(l1, u)
  BY UnlinkLinked
<1>2. /\ u \in Seq(Chunks) /\ Len(u) = Len(s) - 1
      /\ \A i \in 1 .. Len(s) - 1 : u[i] = IF i < j THEN s[i] ELSE s[i + 1]
  BY RemoveAtProperties
<1>3. Absent(s[j], u)
  BY RemovedIsAbsent, LinkedFacts
<1>4. k \in 1 .. Len(u) /\ u[k] = s[k] /\ k \in 1 .. Len(u) + 1
  BY <1>2
<1>5. \A i \in Int : At(u, i) = IF i < j THEN At(s, i) ELSE At(s, i + 1)
  BY AtRemove
<1> HIDE DEF u, l1
<1>6. AddBefore(l1, s[j], s[k]) \in Links /\ Linked(AddBefore(l1, s[j], s[k]), t)
  BY <1>1, <1>2, <1>3, <1>4, AddBeforeLinked
<1>7. t \in Seq(Chunks) /\ Len(t) = Len(s)
  <2>1. /\ u \in Seq(Chunks) /\ k \in 1 .. Len(u) + 1
        /\ Len(u) = Len(s) - 1 /\ Len(s) \in Nat
    BY <1>2, <1>4
  <2>2. s[j] \in Chunks
    OBVIOUS
  <2>3. t \in Seq(Chunks) /\ Len(t) = Len(u) + 1
    BY <2>1, <2>2, InsertAtProperties
  <2> HIDE DEF t
  <2> QED
    BY <2>1, <2>3
<1>8. \A i \in Int : At(t, i) = IF i < k THEN At(u, i) ELSE IF i = k THEN s[j] ELSE At(u, i - 1)
  <2>1. u \in Seq(Chunks) /\ k \in 1 .. Len(u) + 1 /\ s[j] \in Chunks
    BY <1>2, <1>4
  <2> HIDE DEF t
  <2> QED
    BY <2>1, AtInsert DEF t
<1>9. s[j] = At(s, j)
  BY DEF At
<1> HIDE DEF t
<1>10. \A i \in 1 .. Len(s) : At(t, i) = IF i = k THEN At(s, j) ELSE IF i = j THEN At(s, k) ELSE At(s, i)
  <2> TAKE i \in 1 .. Len(s)
  <2>1. CASE i < k
    BY <2>1, <1>5, <1>8
  <2>2. CASE i = k
    BY <2>2, <1>8, <1>9
  <2>3. CASE i = j
    <3>1. At(t, i) = At(u, k) /\ At(u, k) = At(s, k)
      BY <2>3, <1>5, <1>8
    <3> QED
      BY <3>1, <2>3
  <2>4. CASE i > j
    <3>1. At(t, i) = At(u, i - 1) /\ At(u, i - 1) = At(s, i)
      BY <2>4, <1>5, <1>8
    <3> QED
      BY <3>1, <2>4
  <2> QED
    BY <2>1, <2>2, <2>3, <2>4
<1>11. t = Exchanged(s, j, k) /\ t = Exchanged(s, k, j)
  <2> DEFINE e == Exchanged(s, j, k)
             f == Exchanged(s, k, j)
  <2>3. \A i \in 1 .. Len(s) :
          At(e, i) = IF i = k THEN At(s, j) ELSE IF i = j THEN At(s, k) ELSE At(s, i)
    BY AtExchanged
  <2>4. \A i \in 1 .. Len(s) :
          At(f, i) = IF i = j THEN At(s, k) ELSE IF i = k THEN At(s, j) ELSE At(s, i)
    BY AtExchanged
  <2> HIDE DEF e, f
  <2>1. \A i \in 1 .. Len(s) : At(t, i) = At(e, i) /\ At(t, i) = At(f, i)
    BY <1>10, <2>3, <2>4
  <2>2. e \in Seq(Chunks) /\ Len(e) = Len(s) /\ f \in Seq(Chunks) /\ Len(f) = Len(s)
    BY AtExchanged DEF e, f
  <2>5. t = e /\ t = f
    BY <1>7, <2>1, <2>2, AtExtensional
  <2> QED
    BY <2>5 DEF e, f
<1> QED
  BY <1>6, <1>11 DEF l1

LEMMA SwapApartLinked ==
  ASSUME NEW l \in Links, NEW s \in Seq(Chunks), Linked(l, s),
         NEW j \in 1 .. Len(s), NEW k \in 1 .. Len(s),
         j # k, j # k + 1, k # j + 1, j # 1, k # 1
  PROVE  SwapApart(l, s[j], s[k]) \in Links
         /\ Linked(SwapApart(l, s[j], s[k]), Exchanged(s, j, k))
<1> DEFINE n  == Len(s)
           q  == IF j < k THEN k - 1 ELSE k
           u  == RemoveAt(s, j)
           l1 == Unlink(l, s[j])
           v  == RemoveAt(u, q)
           l2 == Unlink(l1, s[k])
           w  == InsertAt(v, q, s[j])
           l3 == AddAfter(l2, s[j], l1.prev[s[k]])
           x  == InsertAt(w, j, s[k])
           l4 == AddAfter(l3, s[k], l.prev[s[j]])
<1>0. n \in Nat /\ j \in 2 .. n /\ k \in 2 .. n /\ q \in 2 .. n - 1
  OBVIOUS
<1>1. s[j] \in Chunks /\ s[k] \in Chunks /\ s[j] = At(s, j) /\ s[k] = At(s, k) /\ s[j] # s[k]
  BY LinkedFacts DEF At
<1>2. \A i \in 1 .. n, i2 \in 1 .. n : s[i] = s[i2] => i = i2
  BY LinkedFacts
<1>3. l.prev[s[j]] = At(s, j - 1)
  BY LinkedFacts
\* The first chunk is taken out ...
<1>4. l1 \in Links /\ Linked(l1, u) /\ u \in Seq(Chunks) /\ Len(u) = n - 1
  BY UnlinkLinked, RemoveAtProperties
<1>5. Absent(s[j], u)
  BY <1>2, RemovedIsAbsent
<1>6. \A i \in Int : At(u, i) = IF i < j THEN At(s, i) ELSE At(s, i + 1)
  BY AtRemove
<1>7. SwapApart(l, s[j], s[k]) = l4
  BY DEF SwapApart
<1> HIDE DEF u, l1, n, q
\* ... and the second, which stands at q now ...
<1>8. q \in 1 .. Len(u) /\ At(u, q) = s[k] /\ u[q] = s[k]
  <2>1. q \in 1 .. Len(u)
    BY <1>0, <1>4
  <2>2. At(u, q) = At(s, k)
    BY <1>0, <1>6 DEF q
  <2> QED
    BY <2>1, <2>2, <1>1 DEF At
<1>9. l1.prev[s[k]] = At(u, q - 1)
  BY <1>4, <1>8, LinkedFacts
<1>10. l2 \in Links /\ Linked(l2, v) /\ v \in Seq(Chunks) /\ Len(v) = n - 2
  <2>1. Unlink(l1, u[q]) \in Links /\ Linked(Unlink(l1, u[q]), RemoveAt(u, q))
    BY <1>4, <1>8, UnlinkLinked
  <2>2. l2 \in Links /\ Linked(l2, v)
    BY <2>1, <1>8
  <2>3. v \in Seq(Chunks) /\ Len(v) = Len(u) - 1
    BY <1>4, <1>8, RemoveAtProperties
  <2> QED
    BY <2>2, <2>3, <1>0, <1>4
<1>11. \A i \in Int : At(v, i) = IF i < q THEN At(u, i) ELSE At(u, i + 1)
  BY <1>4, <1>8, AtRemove
<1>12. Absent(s[k], v)
  <2>1. \A i, i2 \in 1 .. Len(u) : u[i] = u[i2] => i = i2
    BY <1>4, LinkedFacts
  <2> QED
    BY <1>4, <1>8, <2>1, RemovedIsAbsent
<1>13. Absent(s[j], v)
  <2> SUFFICES ASSUME NEW i \in 1 .. Len(v) PROVE v[i] # s[j]
    BY DEF Absent
  <2>1. v[i] = At(v, i)
    BY DEF At
  <2>2. \A i2 \in Int : At(u, i2) # s[j]
    BY <1>1, <1>4, <1>5, AbsentFacts
  <2> QED
    BY <2>1, <2>2, <1>10, <1>11
<1> HIDE DEF v, l2
\* ... the first goes after the chunk that was before the second ...
<1>14. q - 1 \in 1 .. Len(v) /\ l1.prev[s[k]] = v[q - 1]
  <2>1. q - 1 \in 1 .. Len(v)
    BY <1>0, <1>10
  <2>2. At(v, q - 1) = At(u, q - 1)
    BY <1>0, <1>11
  <2> QED
    BY <2>1, <2>2, <1>9 DEF At
<1>15. l3 \in Links /\ Linked(l3, w)
  <2>1. (q - 1) + 1 = q
    BY <1>0
  <2> QED
    BY <2>1, <1>1, <1>10, <1>13, <1>14, AddAfterLinked
<1>16. q \in 1 .. Len(v) + 1
  BY <1>0, <1>10
<1>17. w \in Seq(Chunks) /\ Len(w) = n - 1
  <2>1. w \in Seq(Chunks) /\ Len(w) = Len(v) + 1
    BY <1>1, <1>10, <1>16, InsertAtProperties
  <2> QED
    BY <2>1, <1>0, <1>10
<1>18. \A i \in Int : At(w, i) = IF i < q THEN At(v, i) ELSE IF i = q THEN s[j] ELSE At(v, i - 1)
  BY <1>1, <1>10, <1>16, AtInsert
<1>19. Absent(s[k], w)
  <2> SUFFICES ASSUME NEW i \in 1 .. Len(w) PROVE w[i] # s[k]
    BY DEF Absent
  <2>1. w[i] = At(w, i)
    BY DEF At
  <2>2. \A i2 \in Int : At(v, i2) # s[k]
    BY <1>1, <1>10, <1>12, AbsentFacts
  <2> QED
    BY <2>1, <2>2, <1>1, <1>17, <1>18
<1> HIDE DEF w, l3
\* ... and the second after the chunk that was before the first.
<1>20. j - 1 \in 1 .. Len(w) /\ l.prev[s[j]] = w[j - 1]
  <2>1. j - 1 \in 1 .. Len(w)
    BY <1>0, <1>17
  <2>2. At(w, j - 1) = At(s, j - 1)
    <3>1. CASE j < k
      BY <3>1, <1>0, <1>6, <1>11, <1>18 DEF q
    <3>2. CASE j > k
      <4>1. j - 2 >= k /\ j - 1 > q /\ q = k
        BY <3>2, <1>0 DEF q
      <4>2. At(w, j - 1) = At(v, j - 2)
        BY <4>1, <1>0, <1>18
      <4>3. At(v, j - 2) = At(u, j - 1)
        BY <4>1, <1>0, <1>11
      <4>4. At(u, j - 1) = At(s, j - 1)
        BY <1>0, <1>6
      <4> QED
        BY <4>2, <4>3, <4>4
    <3> QED
      BY <3>1, <3>2, <1>0
  <2> QED
    BY <2>1, <2>2, <1>3 DEF At
<1>21. l4 \in Links /\ Linked(l4, x)
  <2>1. (j - 1) + 1 = j
    BY <1>0
  <2> QED
    BY <2>1, <1>1, <1>15, <1>17, <1>19, <1>20, AddAfterLinked
<1>22. j \in 1 .. Len(w) + 1
  BY <1>0, <1>17
<1>23. x \in Seq(Chunks) /\ Len(x) = n
  <2>1. x \in Seq(Chunks) /\ Len(x) = Len(w) + 1
    <3> HIDE DEF l4
    <3>1. s[k] \in Chunks /\ w \in Seq(Chunks) /\ j \in 1 .. Len(w) + 1
      BY <1>1, <1>17, <1>22
    <3> QED
      BY <3>1, InsertAtProperties
  <2> QED
    BY <2>1, <1>0, <1>17
<1>24. \A i \in Int : At(x, i) = IF i < j THEN At(w, i) ELSE IF i = j THEN s[k] ELSE At(w, i - 1)
  BY <1>1, <1>17, <1>22, AtInsert
<1> HIDE DEF x, l4
\* Where each chunk has come to, read back through the four steps.
<1>25. ASSUME NEW i \in Int
       PROVE  /\ i < j => At(x, i) = At(w, i)
              /\ i > j => At(x, i) = At(w, i - 1)
              /\ i < q => At(w, i) = At(v, i)
              /\ i > q => At(w, i) = At(v, i - 1)
              /\ i < q => At(v, i) = At(u, i)
              /\ i > q => At(v, i - 1) = At(u, i)
              /\ i < j => At(u, i) = At(s, i)
              /\ i > j => At(u, i - 1) = At(s, i)
  <2>1. (i - 1) + 1 = i /\ i - 1 \in Int
    OBVIOUS
  <2>2. (i > q => ~(i - 1 < q)) /\ (i > j => ~(i - 1 < j)) /\ (i < q => i # q)
    BY <1>0
  <2>3. (i < j => At(x, i) = At(w, i)) /\ (i > j => At(x, i) = At(w, i - 1))
    BY <1>0, <1>24
  <2>4. (i < q => At(w, i) = At(v, i)) /\ (i > q => At(w, i) = At(v, i - 1))
    BY <1>0, <1>18
  <2>5. (i < q => At(v, i) = At(u, i)) /\ (i > q => At(v, i - 1) = At(u, i))
    BY <1>11, <2>1, <2>2
  <2>6. (i < j => At(u, i) = At(s, i)) /\ (i > j => At(u, i - 1) = At(s, i))
    BY <1>6, <2>1, <2>2
  <2> QED
    BY <2>3, <2>4, <2>5, <2>6
<1>26. At(x, j) = s[k] /\ At(w, q) = s[j]
  BY <1>0, <1>18, <1>24
<1>27. \A i \in 1 .. n : At(x, i) = IF i = k THEN At(s, j) ELSE IF i = j THEN At(s, k) ELSE At(s, i)
  <2> TAKE i \in 1 .. n
  <2>1. i \in Int /\ i - 1 \in Int
    BY <1>0
  <2>2. CASE j < k
    <3>1. q = k - 1
      BY <2>2 DEF q
    <3>2. CASE i < j
      <4>1. i < q /\ i # k
        BY <3>1, <3>2, <2>1, <2>2, <1>0
      <4> QED
        BY <4>1, <3>2, <2>1, <1>25
    <3>3. CASE i = j
      BY <3>3, <2>2, <1>0, <1>1, <1>26
    <3>4. CASE i > j /\ i < k
      <4>1. i - 1 < q /\ i # k /\ i # j
        BY <3>1, <3>4, <2>1, <1>0
      <4> QED
        BY <4>1, <3>4, <2>1, <1>25
    <3>5. CASE i = k
      <4>1. i - 1 = q /\ i > j
        BY <3>1, <3>5, <2>1, <2>2
      <4> QED
        BY <4>1, <3>5, <2>1, <1>1, <1>25, <1>26
    <3>6. CASE i > k
      <4>1. i - 1 > q /\ i - 1 > j /\ i > j /\ i # k /\ i # j
        BY <3>1, <3>6, <2>1, <2>2, <1>0
      <4>2. At(x, i) = At(w, i - 1)
        BY <4>1, <2>1, <1>25
      <4>3. At(w, i - 1) = At(v, (i - 1) - 1) /\ At(v, (i - 1) - 1) = At(u, i - 1)
        BY <4>1, <2>1, <1>25
      <4>4. At(u, i - 1) = At(s, i)
        BY <4>1, <2>1, <1>25
      <4> QED
        BY <4>1, <4>2, <4>3, <4>4
    <3> QED
      BY <3>2, <3>3, <3>4, <3>5, <3>6, <2>1, <1>0
  <2>3. CASE j > k
    <3>1. q = k
      BY <2>3, <1>0 DEF q
    <3>2. CASE i < k
      <4>1. i < q /\ i < j /\ i # k /\ i # j
        BY <3>1, <3>2, <2>1, <2>3, <1>0
      <4> QED
        BY <4>1, <2>1, <1>25
    <3>3. CASE i = k
      <4>1. i < j /\ i = q
        BY <3>1, <3>3, <2>3
      <4> QED
        BY <4>1, <3>3, <2>1, <1>1, <1>25, <1>26
    <3>4. CASE i > k /\ i < j
      <4>1. i > q /\ i # k /\ i # j
        BY <3>1, <3>4, <2>1, <1>0
      <4> QED
        BY <4>1, <3>4, <2>1, <1>25
    <3>5. CASE i = j
      BY <3>5, <2>3, <1>0, <1>1, <1>26
    <3>6. CASE i > j
      <4>1. i - 1 > q /\ i # k /\ i # j
        BY <3>1, <3>6, <2>1, <2>3, <1>0
      <4>2. At(x, i) = At(w, i - 1)
        BY <3>6, <2>1, <1>25
      <4>3. At(w, i - 1) = At(v, (i - 1) - 1) /\ At(v, (i - 1) - 1) = At(u, i - 1)
        BY <4>1, <2>1, <1>25
      <4>4. At(u, i - 1) = At(s, i)
        BY <3>6, <2>1, <1>25
      <4> QED
        BY <4>1, <4>2, <4>3, <4>4
    <3> QED
      BY <3>2, <3>3, <3>4, <3>5, <3>6, <2>1, <1>0
  <2> QED
    BY <2>2, <2>3, <1>0
<1>28. x = Exchanged(s, j, k)
  <2> DEFINE e == Exchanged(s, j, k)
  <2>3. \A i \in 1 .. n :
          At(e, i) = IF i = k THEN At(s, j) ELSE IF i = j THEN At(s, k) ELSE At(s, i)
    BY AtExchanged DEF n
  <2>2. e \in Seq(Chunks) /\ Len(e) = n
    BY AtExchanged DEF n
  <2> HIDE DEF e
  <2>1. \A i \in 1 .. n : At(x, i) = At(e, i)
    BY <1>27, <2>3
  <2>4. x = e
    BY <1>23, <2>1, <2>2, AtExtensional
  <2> QED
    BY <2>4 DEF e
<1> QED
  BY <1>7, <1>21, <1>28

LEMMA SwapLinked ==
  ASSUME NEW l \in Links, NEW s \in Seq(Chunks), Linked(l, s),
         NEW j \in 1 .. Len(s), NEW k \in 1 .. Len(s), j # k,
         j - k \in {-1, 1} \/ (j # 1 /\ k # 1)
  PROVE  Swap(l, s[j], s[k]) \in Links /\ Linked(Swap(l, s[j], s[k]), Exchanged(s, j, k))
<1>1. (l.prev[s[j]] = s[k] <=> j = k + 1) /\ (l.prev[s[k]] = s[j] <=> k = j + 1)
  <2>1. l.prev[s[j]] = At(s, j - 1) /\ l.prev[s[k]] = At(s, k - 1)
    BY LinkedFacts
  <2>2. \A i, i2 \in 1 .. Len(s) : s[i] = s[i2] => i = i2
    BY LinkedFacts
  <2>3. (s[k] = At(s, j - 1) <=> k = j - 1) /\ (s[j] = At(s, k - 1) <=> j = k - 1)
    BY <2>2, AtOnce
  <2> QED
    BY <2>1, <2>3
<1>2. CASE j = k + 1
  BY <1>1, <1>2, SwapNextLinked DEF Swap
<1>3. CASE k = j + 1
  <2>1. Swap(l, s[j], s[k]) = AddBefore(Unlink(l, s[k]), s[k], s[j])
    BY <1>1, <1>3 DEF Swap
  <2> QED
    BY <1>3, <2>1, SwapNextLinked
<1>4. CASE j # k + 1 /\ k # j + 1
  BY <1>1, <1>4, SwapApartLinked DEF Swap
<1> QED
  BY <1>2, <1>3, <1>4

-----------------------------------------------------------------------------

Inv == TypeOK /\ ListIsOrder

LEMMA UnusedIsAbsent ==
  ASSUME TypeOK, NEW c \in Unused
  PROVE  c \in Chunks /\ Absent(c, order)
BY DEF Unused, Absent, ToSet, TypeOK

LEMMA InvInit == Init => Inv
<1> SUFFICES ASSUME Init PROVE Inv
  OBVIOUS
<1>1. TypeOK
  BY DEF Init, TypeOK, EmptyList, Links
<1>2. Linked(EmptyList, <<>>)
  BY DEF Linked, Distinct, At, EmptyList
<1> QED
  BY <1>1, <1>2 DEF Init, Inv, ListIsOrder

LEMMA InvNext == Inv /\ [Next]_vars => Inv'
<1> SUFFICES ASSUME Inv, [Next]_vars PROVE Inv'
  OBVIOUS
<1>0. list \in Links /\ order \in Seq(Chunks) /\ Linked(list, order) /\ Len(order) \in Nat
  BY DEF Inv, TypeOK, ListIsOrder
<1>1. ASSUME NEW pc \in Chunks, CopyAndAddHead(pc) PROVE Inv'
  <2>1. pc \in Chunks /\ Absent(pc, order) /\ 1 \in 1 .. Len(order) + 1
    BY <1>0, <1>1, UnusedIsAbsent DEF CopyAndAddHead, Inv
  <2>2. list' = AddHead(list, pc) /\ order' = InsertAt(order, 1, pc)
    BY <1>1 DEF CopyAndAddHead
  <2> QED
    BY <1>0, <2>1, <2>2, AddHeadLinked, InsertAtProperties DEF Inv, TypeOK, ListIsOrder
<1>2. ASSUME NEW pc \in Chunks, CopyAndAddTail(pc) PROVE Inv'
  <2>1. pc \in Chunks /\ Absent(pc, order) /\ Len(order) + 1 \in 1 .. Len(order) + 1
    BY <1>0, <1>2, UnusedIsAbsent DEF CopyAndAddTail, Inv
  <2>2. list' = AddTail(list, pc) /\ order' = InsertAt(order, Len(order) + 1, pc)
    BY <1>2 DEF CopyAndAddTail
  <2> QED
    BY <1>0, <2>1, <2>2, AddTailLinked, InsertAtProperties DEF Inv, TypeOK, ListIsOrder
<1>3. ASSUME NEW pc \in Chunks, NEW k \in Positions, CopyAndAddAfter(pc, k) PROVE Inv'
  <2>1. /\ pc \in Chunks /\ Absent(pc, order)
        /\ k \in 1 .. Len(order) /\ k + 1 \in 1 .. Len(order) + 1
    BY <1>0, <1>3, UnusedIsAbsent DEF CopyAndAddAfter, Inv, Positions
  <2>2. list' = AddAfter(list, pc, order[k]) /\ order' = InsertAt(order, k + 1, pc)
    BY <1>3 DEF CopyAndAddAfter
  <2> QED
    BY <1>0, <2>1, <2>2, AddAfterLinked, InsertAtProperties DEF Inv, TypeOK, ListIsOrder
<1>4. ASSUME NEW pc \in Chunks, NEW k \in Positions, CopyAndAddBefore(pc, k) PROVE Inv'
  <2>1. /\ pc \in Chunks /\ Absent(pc, order)
        /\ k \in 1 .. Len(order) /\ k \in 1 .. Len(order) + 1
    BY <1>0, <1>4, UnusedIsAbsent DEF CopyAndAddBefore, Inv, Positions
  <2>2. list' = AddBefore(list, pc, order[k]) /\ order' = InsertAt(order, k, pc)
    BY <1>4 DEF CopyAndAddBefore
  <2> QED
    BY <1>0, <2>1, <2>2, AddBeforeLinked, InsertAtProperties DEF Inv, TypeOK, ListIsOrder
<1>5. ASSUME NEW k \in Positions, Delete(k) PROVE Inv'
  <2>1. k \in 1 .. Len(order)
    BY DEF Positions
  <2>2. list' = Unlink(list, order[k]) /\ order' = RemoveAt(order, k)
    BY <1>5 DEF Delete
  <2> QED
    BY <1>0, <2>1, <2>2, UnlinkLinked, RemoveAtProperties DEF Inv, TypeOK, ListIsOrder
<1>6. ASSUME NEW j \in Positions, NEW k \in Positions, MoveAfter(j, k) PROVE Inv'
  <2>1. j \in 1 .. Len(order) /\ k \in 1 .. Len(order) /\ j # k
    BY <1>6 DEF Positions, MoveAfter
  <2>2. list' = AddAfter(Unlink(list, order[j]), order[j], order[k]) /\ order' = Moved(order, j, k)
    BY <1>6 DEF MoveAfter, Moved
  <2>3. list' \in Links /\ Linked(list', order')
    BY <1>0, <2>1, <2>2, MoveAfterLinked
  <2>4. order' \in Seq(Chunks)
    <3>1. /\ RemoveAt(order, j) \in Seq(Chunks) /\ Len(RemoveAt(order, j)) = Len(order) - 1
          /\ order[j] \in Chunks
      BY <1>0, <2>1, RemoveAtProperties
    <3>2. CASE j < k
      <4>1. k \in 1 .. Len(RemoveAt(order, j)) + 1
        BY <1>0, <2>1, <3>1
      <4> QED
        BY <3>1, <3>2, <4>1, <2>2, InsertAtProperties DEF Moved
    <3>3. CASE ~(j < k)
      <4>1. k + 1 \in 1 .. Len(RemoveAt(order, j)) + 1
        BY <1>0, <2>1, <3>1, <3>3
      <4> QED
        BY <3>1, <3>3, <4>1, <2>2, InsertAtProperties DEF Moved
    <3> QED
      BY <3>2, <3>3
  <2> QED
    BY <2>3, <2>4 DEF Inv, TypeOK, ListIsOrder
<1>7. ASSUME NEW j \in Positions, NEW k \in Positions, SwapChunks(j, k) PROVE Inv'
  <2>1. /\ j \in 1 .. Len(order) /\ k \in 1 .. Len(order) /\ j # k
        /\ j - k \in {-1, 1} \/ (j # 1 /\ k # 1)
    BY <1>7 DEF Positions, SwapChunks, Swappable
  <2>2. list' = Swap(list, order[j], order[k]) /\ order' = Exchanged(order, j, k)
    BY <1>7 DEF SwapChunks, Exchanged
  <2>3. list' \in Links /\ Linked(list', order')
    BY <1>0, <2>1, <2>2, SwapLinked
  <2>4. order' \in Seq(Chunks)
    BY <1>0, <2>1, <2>2, AtExchanged
  <2> QED
    BY <2>3, <2>4 DEF Inv, TypeOK, ListIsOrder
<1>8. CASE UNCHANGED vars
  BY <1>8 DEF vars, Inv, TypeOK, ListIsOrder
<1> QED
  BY <1>1, <1>2, <1>3, <1>4, <1>5, <1>6, <1>7, <1>8 DEF Next

\* The list is the sequence its editors take it for, for any number of chunks
\* and any sequence of calls: no call of class Chunk loses a chunk, doubles one
\* or leaves a pointer to one that is gone.
THEOREM ListStaysLinked == Spec => []ListIsOrder
<1>1. Inv => ListIsOrder
  BY DEF Inv
<1> QED
  BY <1>1, InvInit, InvNext, PTL DEF Spec

=============================================================================
