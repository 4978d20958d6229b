-------------------------- MODULE ChunkSortProofs --------------------------
(***************************************************************************)
(* do_the_sort() is right for groups of any size: the list ends up in      *)
(* order after fewer exchanges than it has lines.                          *)
(*                                                                         *)
(* The inductive invariant adds to the properties what the loop relies on: *)
(* every place before idx is filled, and an exchange pays for itself with  *)
(* a place it fills, so that exchanges and unfilled places never sum to    *)
(* more than N.                                                            *)
(***************************************************************************)
EXTENDS ChunkSort, FiniteSetTheorems, TLAPS

Unsettled == {i \in Index : positions[i] # i}

Filled == \A i \in Index : i < idx => positions[i] = i

Paid == swaps + Cardinality(Unsettled) <= N

Inv == TypeOK /\ InStep /\ OnCourse /\ Filled /\ Paid /\ FewSwaps

-----------------------------------------------------------------------------

LEMMA IndexIsFinite == IsFiniteSet(Index) /\ Cardinality(Index) = N
<1>1. 0 \in Int /\ N - 1 \in Int /\ N > 0
  BY NAssumption
<1> QED
  BY <1>1, FS_Interval, NAssumption DEF Index

\* What an exchange knows of the places it is about.
LEMMA ExchangePlaces ==
  ASSUME Inv, Exchange
  PROVE  /\ idx \in Index
         /\ positions[idx] \in Index
         /\ positions[positions[idx]] \in Index
         /\ positions[idx] # idx
         /\ positions[positions[idx]] # positions[idx]
<1>1. idx \in Index
  BY NAssumption DEF Inv, TypeOK, Exchange, Index
<1>2. positions[idx] \in Index /\ positions[positions[idx]] \in Index
  BY <1>1 DEF Inv, TypeOK
<1>3. positions[positions[idx]] # positions[idx]
  BY <1>1, <1>2 DEF Inv, OnCourse, Injective, Exchange
<1> QED
  BY <1>1, <1>2, <1>3 DEF Exchange

\* The list follows the array: exchanging two lines by their imports is
\* exchanging them by their places.
LEMMA ExchangeInStep ==
  ASSUME Inv, Exchange
  PROVE  InStep' /\ chunks' \in [Index -> Chunks] /\ rows' \in [Index -> Chunks]
<1> DEFINE from == positions[idx]
           to   == positions[from]
<1>1. from \in Index /\ to \in Index /\ from # to
  BY ExchangePlaces
<1>2. chunks' = [chunks EXCEPT ![from] = chunks[to], ![to] = chunks[from]]
  BY DEF Exchange
<1>3. chunks \in [Index -> Chunks] /\ rows = chunks /\ Injective(chunks)
  BY DEF Inv, TypeOK, InStep
<1>4. chunks' \in [Index -> Chunks]
  BY <1>1, <1>2, <1>3
<1>5. \A i \in Index : chunks'[i] = IF i = from THEN chunks[to]
                                    ELSE IF i = to THEN chunks[from] ELSE chunks[i]
  BY <1>1, <1>2, <1>3
<1>6. rows' = [i \in Index |-> CASE chunks[i] = chunks[from] -> chunks[to]
                                 [] chunks[i] = chunks[to]   -> chunks[from]
                                 [] OTHER                    -> chunks[i]]
  BY <1>3 DEF Exchange, SwapLines
<1>7. \A i \in Index : /\ chunks[i] = chunks[from] <=> i = from
                       /\ chunks[i] = chunks[to] <=> i = to
  BY <1>1, <1>3 DEF Injective
<1>8. \A i \in Index : rows'[i] = chunks'[i]
  BY <1>1, <1>5, <1>6, <1>7
<1>9. rows' = chunks'
  BY <1>4, <1>6, <1>8
<1>10. Injective(chunks')
  BY <1>1, <1>3, <1>5 DEF Injective
<1> QED
  BY <1>4, <1>9, <1>10 DEF InStep, Injective

\* chunk_positions is shortened by one place and still leads to the same order.
LEMMA ExchangeOnCourse ==
  ASSUME Inv, Exchange
  PROVE  OnCourse' /\ Filled' /\ positions' \in [Index -> Index]
<1> DEFINE from == positions[idx]
           to   == positions[from]
<1>1. idx \in Index /\ from \in Index /\ to \in Index /\ from # to /\ from # idx
  BY ExchangePlaces
<1>2. /\ positions \in [Index -> Index] /\ chunks \in [Index -> Chunks]
      /\ \A i, j \in Index : positions[i] = positions[j] => i = j
  BY DEF Inv, TypeOK, OnCourse, Injective
<1>3. positions' = [positions EXCEPT ![from] = from, ![idx] = to]
  BY DEF Exchange
<1>4. \A i \in Index : positions'[i] = IF i = idx THEN to
                                       ELSE IF i = from THEN from ELSE positions[i]
  BY <1>1, <1>2, <1>3
<1>5. positions' \in [Index -> Index]
  BY <1>1, <1>2, <1>3
<1>6. Injective(positions')
  BY <1>1, <1>2, <1>4 DEF Injective
<1>7. \A i \in Index : chunks'[i] = IF i = from THEN chunks[to]
                                    ELSE IF i = to THEN chunks[from] ELSE chunks[i]
  BY <1>1, <1>2 DEF Exchange
<1>8. \A i \in Index : chunks'[positions'[i]] = chunks[positions[i]]
  <2> TAKE i \in Index
  <2>1. CASE i = idx
    BY <2>1, <1>1, <1>4, <1>7
  <2>2. CASE i = from
    BY <2>2, <1>1, <1>4, <1>7
  <2>3. CASE i # idx /\ i # from
    <3>1. positions[i] \in Index /\ positions[i] # from /\ positions[i] # to
      BY <2>3, <1>1, <1>2
    <3> QED
      BY <2>3, <3>1, <1>1, <1>4, <1>7
  <2> QED
    BY <2>1, <2>2, <2>3
<1>9. Sorted' = Sorted
  BY <1>8 DEF Sorted, Index
<1>10. Ordered(Sorted)'
  BY <1>9 DEF Inv, OnCourse, Ordered, Index
<1>11. Filled'
  <2>1. idx' = idx /\ \A i \in Index : i < idx => positions[i] = i
    BY DEF Exchange, Inv, Filled
  <2>2. \A i \in Index : i < idx => positions'[i] = i
    BY <2>1, <1>1, <1>4 DEF Index
  <2> QED
    BY <2>1, <2>2 DEF Filled
<1> QED
  BY <1>5, <1>6, <1>10, <1>11 DEF OnCourse, Injective

\* An exchange fills a place for good, and leaves at least one settled more.
LEMMA ExchangePaid ==
  ASSUME Inv, Exchange
  PROVE  Paid' /\ FewSwaps' /\ swaps' \in 0 .. N
<1> DEFINE from == positions[idx]
           to   == positions[from]
<1>1. idx \in Index /\ from \in Index /\ to \in Index /\ from # to /\ from # idx
  BY ExchangePlaces
<1>2. \A i \in Index : positions'[i] = IF i = idx THEN to
                                       ELSE IF i = from THEN from ELSE positions[i]
  BY <1>1 DEF Exchange, Inv, TypeOK
<1>3. IsFiniteSet(Unsettled) /\ idx \in Unsettled /\ from \in Unsettled
  BY <1>1, IndexIsFinite, FS_Subset DEF Unsettled
<1>4. Unsettled' \subseteq Unsettled \ {from}
  BY <1>1, <1>2 DEF Unsettled, Index
<1>5. IsFiniteSet(Unsettled \ {from})
      /\ Cardinality(Unsettled \ {from}) = Cardinality(Unsettled) - 1
  BY <1>3, FS_RemoveElement
<1>6. Cardinality(Unsettled') <= Cardinality(Unsettled) - 1
      /\ Cardinality(Unsettled') \in Nat /\ Cardinality(Unsettled) \in Nat
  BY <1>3, <1>4, <1>5, FS_Subset, FS_CardinalityType
<1>7. Cardinality(Unsettled) >= 2
  <2>1. idx \in Unsettled \ {from}
    BY <1>1, <1>3
  <2>2. Cardinality(Unsettled \ {from}) # 0
    BY <2>1, <1>5, FS_EmptySet
  <2> QED
    BY <2>2, <1>5, <1>6, FS_CardinalityType
<1>8. swaps \in 0 .. N /\ swaps + Cardinality(Unsettled) <= N /\ N \in Nat
  BY NAssumption DEF Inv, TypeOK, Paid
<1>9. swaps' = swaps + 1
  BY <1>6, <1>7, <1>8 DEF Exchange, Tick
<1>10. swaps' + Cardinality(Unsettled') <= N /\ swaps' < N /\ swaps' \in 0 .. N
  BY <1>6, <1>7, <1>8, <1>9
<1> QED
  BY <1>10 DEF Paid, FewSwaps

LEMMA InvInit == Init => Inv
<1> SUFFICES ASSUME Init PROVE Inv
  OBVIOUS
<1>1. TypeOK
  BY NAssumption DEF Init, TypeOK
<1>2. InStep /\ OnCourse
  BY DEF Init, InStep, OnCourse
<1>3. Filled
  BY DEF Init, Filled, Index
<1>4. IsFiniteSet(Unsettled) /\ Cardinality(Unsettled) <= N /\ Cardinality(Unsettled) \in Nat
  <2>1. Unsettled \subseteq Index
    BY DEF Unsettled
  <2> QED
    BY <2>1, IndexIsFinite, FS_Subset, FS_CardinalityType
<1>5. Paid /\ FewSwaps
  BY <1>4, NAssumption DEF Init, Paid, FewSwaps
<1> QED
  BY <1>1, <1>2, <1>3, <1>5 DEF Inv

LEMMA InvNext == Inv /\ [Next]_vars => Inv'
<1> SUFFICES ASSUME Inv, [Next]_vars PROVE Inv'
  OBVIOUS
<1>1. CASE Settled
  <2>1. UNCHANGED <<chunks, positions, rows, swaps>> /\ idx' = idx + 1
    BY <1>1 DEF Settled
  <2>2. idx \in 0 .. N /\ idx < N /\ positions[idx] = idx
    BY <1>1 DEF Settled, Inv, TypeOK
  <2>3. idx' \in 0 .. N
    BY <2>1, <2>2, NAssumption
  <2>4. TypeOK'
    BY <2>1, <2>3 DEF Inv, TypeOK
  <2>5. InStep' /\ OnCourse'
    BY <2>1 DEF Inv, InStep, OnCourse, Sorted, Ordered, Injective
  <2>6. Filled'
    BY <2>1, <2>2 DEF Inv, Filled, Index
  <2>7. Unsettled' = Unsettled
    BY <2>1 DEF Unsettled
  <2>8. Paid' /\ FewSwaps'
    BY <2>1, <2>7 DEF Inv, Paid, FewSwaps
  <2> QED
    BY <2>4, <2>5, <2>6, <2>8 DEF Inv
<1>2. CASE Exchange
  <2>1. InStep' /\ chunks' \in [Index -> Chunks] /\ rows' \in [Index -> Chunks]
    BY <1>2, ExchangeInStep
  <2>2. OnCourse' /\ Filled' /\ positions' \in [Index -> Index]
    BY <1>2, ExchangeOnCourse
  <2>3. Paid' /\ FewSwaps' /\ swaps' \in 0 .. N
    BY <1>2, ExchangePaid
  <2>4. idx' \in 0 .. N
    BY <1>2 DEF Exchange, Inv, TypeOK
  <2> QED
    BY <2>1, <2>2, <2>3, <2>4 DEF Inv, TypeOK
<1>3. CASE UNCHANGED vars
  <2>1. UNCHANGED <<chunks, positions, idx, rows, swaps>>
    BY <1>3 DEF vars
  <2>2. TypeOK' /\ Filled' /\ FewSwaps' /\ Unsettled' = Unsettled
    BY <2>1 DEF Inv, TypeOK, Filled, FewSwaps, Unsettled
  <2>3. InStep' /\ OnCourse'
    BY <2>1 DEF Inv, InStep, OnCourse, Sorted, Ordered, Injective
  <2>4. Paid'
    BY <2>1, <2>2 DEF Inv, Paid
  <2> QED
    BY <2>2, <2>3, <2>4 DEF Inv
<1> QED
  BY <1>1, <1>2, <1>3 DEF Next

THEOREM Invariance == Spec => []Inv
<1> QED
  BY InvInit, InvNext, PTL DEF Spec

-----------------------------------------------------------------------------

\* The array goes on naming the lines of the list, each import once: nothing
\* is lost or doubled by do_the_sort(), whatever the size of the group.
THEOREM ArrayInStep == Spec => []InStep
<1>1. Inv => InStep
  BY DEF Inv
<1> QED
  BY <1>1, Invariance, PTL

\* Between any two exchanges chunk_positions, read through the array, is a way to
\* the order compare_chunks() asks for.
THEOREM StaysOnCourse == Spec => []OnCourse
<1>1. Inv => OnCourse
  BY DEF Inv
<1> QED
  BY <1>1, Invariance, PTL

\* The loop over chunk_positions leaves the list in the order compare_chunks()
\* asks for.
THEOREM Sorts == Spec => []SortedAtEnd
<1>1. Inv => SortedAtEnd
  <2> SUFFICES ASSUME Inv, idx = N PROVE Ordered(rows)
    BY DEF SortedAtEnd
  <2>1. \A i \in Index : positions[i] = i
    BY NAssumption DEF Inv, Filled, Index
  <2>2. \A i \in Index : Sorted[i] = rows[i]
    BY <2>1 DEF Sorted, Inv, InStep
  <2> QED
    BY <2>2 DEF Inv, OnCourse, Ordered
<1> QED
  BY <1>1, Invariance, PTL

\* Fewer exchanges than lines: the comment's 'maximum of O(n) swaps'.
THEOREM FewSwapsAlways == Spec => []FewSwaps
<1>1. Inv => FewSwaps
  BY DEF Inv
<1> QED
  BY <1>1, Invariance, PTL

\* A line that stands where it belongs is not moved again.
THEOREM SettledStays == Spec => NeverUnsettles
<1> DEFINE A == \A i \in Index : positions[i] = i => positions'[i] = i /\ rows'[i] = rows[i]
<1>1. Inv /\ [Next]_vars => [A]_vars
  <2> SUFFICES ASSUME Inv, Next PROVE A
    OBVIOUS
  <2>1. CASE Settled
    BY <2>1 DEF Settled
  <2>2. CASE Exchange
    <3> DEFINE from == positions[idx]
               to   == positions[from]
    <3>1. idx \in Index /\ from \in Index /\ to \in Index /\ from # to /\ from # idx
      BY <2>2, ExchangePlaces
    <3>2. SUFFICES ASSUME NEW i \in Index, positions[i] = i
                   PROVE  positions'[i] = i /\ rows'[i] = rows[i]
      OBVIOUS
    <3>3. i # from /\ i # idx /\ i # to
      BY <3>1, <3>2 DEF Inv, OnCourse, Injective
    <3>4. positions'[i] = i
      BY <2>2, <3>1, <3>2, <3>3 DEF Exchange, Inv, TypeOK
    <3>5. chunks'[i] = chunks[i]
      BY <2>2, <3>1, <3>3 DEF Exchange, Inv, TypeOK
    <3>6. InStep' /\ InStep
      BY <2>2, ExchangeInStep DEF Inv
    <3> QED
      BY <3>4, <3>5, <3>6 DEF InStep
  <2> QED
    BY <2>1, <2>2 DEF Next
<1> QED
  BY <1>1, Invariance, PTL DEF Spec, NeverUnsettles

=============================================================================
