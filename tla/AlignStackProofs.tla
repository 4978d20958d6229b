-------------------------- MODULE AlignStackProofs --------------------------
(***************************************************************************)
(* Proofs about class AlignStack, for every input and all of its options.  *)
(* Six theorems, the later ones from the invariants of the earlier ones.   *)
(*                                                                         *)
(* LoopsStayInOrder.  AlignStack::ReAddSkipped() runs over m_scratch, a    *)
(* member that a call from within its loop replaces; a loop that has lost  *)
(* its entries is over.  The argument is one about lengths: while a loop   *)
(* is at its index idx it can have put at most idx - 1 chunks on           *)
(* m_skipped, which was reset when it began; what a nested call makes      *)
(* m_scratch of is m_skipped.                                              *)
(*                                                                         *)
(* BaseIsInvariant.  Types, and which members are in use in which mode.    *)
(* The steps are put into three kinds here: an entry is added (for the     *)
(* first time or again), the group is flushed, nothing is aligned.  The    *)
(* invariants that follow only look at these.                              *)
(*                                                                         *)
(* StaysInOnePlace, StaysInColumn, SpanStaysKept, ThresholdStaysKept.      *)
(* Where an item is; what column the items of a group have; what lies      *)
(* between their lines; how far they are apart before they are moved.      *)
(***************************************************************************)
EXTENDS AlignStack, SequenceTheorems, FiniteSetTheorems, WellFoundedInduction, TLAPS

\* A sequence, whatever is in it.
IsSeq(s) == s \in Seq({s[k] : k \in DOMAIN s})

\* The loops among the frames have passed the first n entries.
Above(frames, n) ==
  \A k \in 1 .. Len(frames) : frames[k].fn = "ReAddSkipped" => frames[k].idx > n

LoopInv ==
  /\ calls \in Seq(Frames)
  /\ IsSeq(skipped) /\ IsSeq(scratch)
  /\ Above(calls, Len(skipped))
  /\ Above(Front(calls), Len(scratch))

-----------------------------------------------------------------------------
(* Numbers                                                                 *)

LEMMA LeastNumber ==
  ASSUME NEW S \in SUBSET Nat, S # {}
  PROVE  \E n \in S : \A m \in S : n <= m
<1> DEFINE less == OpToRel(<, Nat)
<1>1. IsWellFoundedOn(less, Nat)
  BY NatLessThanWellFounded
<1>2. \A x, y \in Nat : x < y => <<x, y>> \in less
  BY DEF OpToRel
<1> HIDE DEF less
<1>3. PICK n \in S : \A m \in S : ~(<<m, n>> \in less)
  BY <1>1, WFMin
<1>4. \A m \in S : ~(m < n)
  BY <1>2, <1>3
<1> QED
  BY <1>4

\* Induction: what holds of a number is membership in a set.
LEMMA InductiveSet ==
  ASSUME NEW S, 0 \in S, \A n \in Nat : n \in S => n + 1 \in S
  PROVE  Nat \subseteq S
<1> SUFFICES ASSUME Nat \ S # {}
             PROVE  FALSE
  OBVIOUS
<1>1. PICK n \in Nat \ S : \A m \in Nat \ S : n <= m
  BY LeastNumber
<1>2. n # 0 /\ n - 1 \in Nat
  BY <1>1
<1>3. n - 1 \in S
  BY <1>1, <1>2
<1> QED
  BY <1>1, <1>2, <1>3

LEMMA GreatestNumber ==
  ASSUME NEW S \in SUBSET Int, S # {}, IsFiniteSet(S)
  PROVE  \E m \in S : \A n \in S : n <= m
<1> DEFINE HasGreatest(T) == \E m \in T : \A n \in T : n <= m
           Good == {c \in Nat : \A T \in SUBSET S : Cardinality(T) = c + 1 => HasGreatest(T)}
<1>1. \A T \in SUBSET S : IsFiniteSet(T) /\ Cardinality(T) \in Nat
  BY FS_Subset, FS_CardinalityType
<1>2. 0 \in Good
  <2>1. ASSUME NEW T \in SUBSET S, Cardinality(T) = 1
        PROVE  HasGreatest(T)
    <3>1. PICK x : T = {x}
      BY <1>1, <2>1, FS_Singleton
    <3> QED
      BY <3>1
  <2> QED
    BY <2>1
<1>3. ASSUME NEW c \in Nat, c \in Good
      PROVE  c + 1 \in Good
  <2>1. ASSUME NEW T \in SUBSET S, Cardinality(T) = c + 2
        PROVE  HasGreatest(T)
    <3>1. PICK x : x \in T
      BY <2>1, FS_EmptySet
    <3>2. T \ {x} \in SUBSET S /\ Cardinality(T \ {x}) = c + 1
      BY <1>1, <2>1, <3>1, FS_RemoveElement
    <3>3. PICK m \in T \ {x} : \A n \in T \ {x} : n <= m
      BY <1>3, <3>2
    <3>4. m \in Int /\ x \in Int
      BY <3>1
    <3>5. CASE x <= m
      BY <3>3, <3>5
    <3>6. CASE m <= x
      <4>1. \A n \in T \ {x} : n \in Int /\ n <= x
        BY <3>3, <3>4, <3>6
      <4>2. \A n \in T : n <= x
        BY <3>4, <4>1
      <4> QED
        BY <3>1, <4>2
    <3> QED
      BY <3>4, <3>5, <3>6
  <2>2. c + 1 + 1 = c + 2
    OBVIOUS
  <2> QED
    BY <2>1, <2>2
<1>4. Nat \subseteq Good
  <2> HIDE DEF Good
  <2> QED
    BY <1>2, <1>3, InductiveSet
<1>5. Cardinality(S) # 0
  BY FS_EmptySet
<1>6. Cardinality(S) - 1 \in Good /\ Cardinality(S) - 1 + 1 = Cardinality(S)
  BY <1>1, <1>4, <1>5
<1> QED
  BY <1>6

\* The elements can be counted in their order.
LEMMA NthElement ==
  ASSUME NEW S \in SUBSET Nat, IsFiniteSet(S), NEW n \in 1 .. Cardinality(S)
  PROVE  \E k \in S : Cardinality({j \in S : j <= k}) = n
<1> DEFINE UpTo(k) == {j \in S : j <= k}
           High == {k \in S : Cardinality(UpTo(k)) >= n}
<1>1. \A T \in SUBSET S : IsFiniteSet(T) /\ Cardinality(T) \in Nat
  BY FS_Subset, FS_CardinalityType
<1>2. S # {}
  BY FS_EmptySet, <1>1
<1>3. PICK m \in S : \A j \in S : j <= m
  BY <1>2, GreatestNumber
<1>4. UpTo(m) = S
  BY <1>3
<1>5. m \in High
  BY <1>1, <1>4
<1>6. PICK k \in High : \A h \in High : k <= h
  <2>1. High \in SUBSET Nat /\ High # {}
    BY <1>5
  <2> HIDE DEF High
  <2> QED
    BY <2>1, LeastNumber
<1>7. k \in S /\ k \in Nat /\ Cardinality(UpTo(k)) >= n /\ UpTo(k) \in SUBSET S
  OBVIOUS
<1>8. ASSUME Cardinality(UpTo(k)) # n
      PROVE  FALSE
  <2> DEFINE L == UpTo(k) \ {k}
  <2>1. k \in UpTo(k)
    BY <1>7
  <2>2. Cardinality(L) = Cardinality(UpTo(k)) - 1 /\ L \in SUBSET S /\ IsFiniteSet(L)
    BY <1>1, <1>7, <2>1, FS_RemoveElement
  <2>3. Cardinality(L) >= n /\ L # {}
    BY <1>1, <1>7, <1>8, <2>2, FS_EmptySet
  <2>4. PICK l \in L : \A j \in L : j <= l
    BY <2>2, <2>3, GreatestNumber
  <2>5. l \in S /\ l \in Nat /\ l < k
    BY <1>7, <2>4
  <2>6. UpTo(l) = L
    <3>1. ASSUME NEW j \in S, j <= l
          PROVE  j \in L
      <4>1. j \in Nat /\ k \in Nat /\ l \in Nat
        BY <1>7, <2>5
      <4>2. j <= k /\ j # k
        BY <3>1, <4>1, <2>5
      <4> QED
        BY <4>2
    <3>2. ASSUME NEW j \in L
          PROVE  j \in S /\ j <= l
      BY <2>2, <2>4
    <3> QED
      BY <3>1, <3>2, <2>2
  <2>7. l \in High
    BY <2>3, <2>5, <2>6
  <2> QED
    BY <1>6, <1>7, <2>5, <2>7
<1> QED
  BY <1>7, <1>8

-----------------------------------------------------------------------------
(* Sequences                                                               *)

LEMMA EmptyIsSeq == IsSeq(<<>>) /\ Len(<<>>) = 0
  BY DEF IsSeq

LEMMA SeqLength ==
  ASSUME NEW s, IsSeq(s)
  PROVE  Len(s) \in Nat /\ DOMAIN s = 1 .. Len(s)
  BY LenProperties DEF IsSeq

LEMMA FrameFields ==
  ASSUME NEW frames \in Seq(Frames), NEW k \in 1 .. Len(frames)
  PROVE  frames[k] \in Frames /\ frames[k].idx \in Nat
<1>1. frames[k] \in Frames
  BY ElementOfSeq
<1> QED
  BY <1>1 DEF Frames

LEMMA AppendIsSeq ==
  ASSUME NEW s, NEW e, IsSeq(s)
  PROVE  IsSeq(Append(s, e)) /\ Len(Append(s, e)) = Len(s) + 1 /\ Len(s) \in Nat
<1> DEFINE S == {s[k] : k \in DOMAIN s} \cup {e}
           t == Append(s, e)
<1>1. s \in Seq(S)
  BY SeqMonotonic, {s[k] : k \in DOMAIN s} \subseteq S DEF IsSeq
<1>2. e \in S
  OBVIOUS
<1>3. /\ t \in Seq(S) /\ Len(t) = Len(s) + 1 /\ Len(s) \in Nat
  BY <1>1, <1>2, AppendProperties
<1> DEFINE T == {t[k] : k \in DOMAIN t}
<1>4. t \in [1 .. Len(t) -> T] /\ Len(t) \in Nat
  <2>1. t \in [1 .. Len(t) -> S] /\ Len(t) \in Nat /\ DOMAIN t = 1 .. Len(t)
    <3> HIDE DEF t, S
    <3> QED
      BY <1>3, LenProperties
  <2>2. \A k \in 1 .. Len(t) : t[k] \in T
    BY <2>1
  <2> HIDE DEF t, T, S
  <2> QED
    BY <2>1, <2>2
<1>5. t \in Seq(T)
  <2> HIDE DEF t, T
  <2> QED
    BY <1>4
<1> QED
  BY <1>3, <1>5 DEF IsSeq

\* Pushing a frame, and taking it off again.
LEMMA PushFrame ==
  ASSUME NEW frames \in Seq(Frames), NEW f \in Frames
  PROVE  /\ Append(frames, f) \in Seq(Frames)
         /\ Front(Append(frames, f)) = frames
         /\ \A n : Above(frames, n) /\ (f.fn = "ReAddSkipped" => f.idx > n)
                     => Above(Append(frames, f), n)
<1>1. Append(frames, f) \in Seq(Frames)
  BY AppendProperties
<1>2. Front(Append(frames, f)) = frames
  BY AppendProperties, <1>1, SubSeqProperties, SeqEqual DEF Front
<1>3. ASSUME NEW n, Above(frames, n), f.fn = "ReAddSkipped" => f.idx > n
      PROVE  Above(Append(frames, f), n)
  BY <1>3, AppendProperties DEF Above
<1> QED
  BY <1>1, <1>2, <1>3

\* The frames under the running call.
LEMMA CallerFrames ==
  ASSUME calls \in Seq(Frames), calls # <<>>
  PROVE  /\ Caller \in Seq(Frames)
         /\ Len(Caller) = Len(calls) - 1
         /\ \A k \in 1 .. Len(Caller) : Caller[k] = calls[k]
         /\ \A n : Above(calls, n) => Above(Caller, n)
<1>1. Len(calls) \in Nat /\ Len(calls) > 0
  BY EmptySeq, LenProperties
<1> DEFINE n == Len(calls) - 1
<1>2. n \in Nat /\ \A k \in 1 .. n : calls[k] \in Frames
  BY <1>1, ElementOfSeq
<1>3. /\ SubSeq(calls, 1, n) \in Seq(Frames)
      /\ Len(SubSeq(calls, 1, n)) = IF 1 <= n THEN n - 1 + 1 ELSE 0
      /\ \A k \in 1 .. n - 1 + 1 : SubSeq(calls, 1, n)[k] = calls[1 + k - 1]
  BY <1>2, SubSeqProperties
<1>4. Caller = SubSeq(calls, 1, n)
  BY DEF Caller, Front
<1>5. n = Len(calls) - 1
  OBVIOUS
<1> HIDE DEF n
<1>6. Len(Caller) = n /\ \A k \in 1 .. n : Caller[k] = calls[k]
  BY <1>2, <1>3, <1>4
<1>7. Caller \in Seq(Frames)
  BY <1>3, <1>4
<1> QED
  BY <1>1, <1>2, <1>5, <1>6, <1>7 DEF Above

-----------------------------------------------------------------------------
(* The parts of the methods.  frames is the call stack a part leaves under *)
(* the calls it makes.                                                     *)

Under(frames) ==
  /\ frames \in Seq(Frames)
  /\ IsSeq(skipped) /\ IsSeq(scratch)
  /\ Above(frames, Len(skipped))
  /\ Above(Front(frames), Len(scratch))

\* A call that returns to the frames it was made under.
LEMMA ReturnsInOrder ==
  ASSUME NEW frames, Under(frames), calls' = frames, UNCHANGED <<skipped, scratch>>
  PROVE  LoopInv'
  BY DEF Under, LoopInv, IsSeq, Above, Front

\* The nested loop gets a m_scratch no longer than m_skipped was, which the
\* loops around it have all passed.
LEMMA ReAddSkippedInOrder ==
  ASSUME NEW frames, Under(frames), NEW entries, IsSeq(entries), Len(entries) <= Len(skipped),
         ReAddSkipped(entries, frames)
  PROVE  LoopInv'
<1>1. Len(skipped) \in Nat /\ Len(entries) \in Nat
  BY SeqLength DEF Under
<1>2. CASE entries = <<>>
  <2>1. skipped' = <<>> /\ calls' = frames /\ scratch' = scratch
    BY <1>2 DEF ReAddSkipped
  <2>2. Len(skipped) \in Nat /\ \A k \in 1 .. Len(frames) : frames[k].idx \in Nat
    BY SeqLength, FrameFields DEF Under
  <2>3. Above(frames, 0)
    BY <2>2 DEF Above, Under
  <2> QED
    BY <2>1, <2>3, EmptyIsSeq DEF LoopInv, Under, Above, Front, IsSeq
<1>3. CASE entries # <<>>
  <2>1. skipped' = <<>> /\ calls' = Append(frames, Loop(1)) /\ scratch' = entries
    BY <1>3 DEF ReAddSkipped
  <2>2. Len(skipped) \in Nat /\ \A k \in 1 .. Len(frames) : frames[k].idx \in Nat
    BY SeqLength, FrameFields DEF Under
  <2>3. Above(frames, 0) /\ Above(frames, Len(entries))
    BY <2>2, <1>1, <1>3 DEF Above, Under
  <2>4. Loop(1) \in Frames /\ Loop(1).idx = 1 /\ frames \in Seq(Frames)
    BY DEF Loop, Frames, Under
  <2>5. /\ calls' \in Seq(Frames)
        /\ Front(calls') = frames
        /\ Above(calls', 0)
    BY <2>1, <2>3, <2>4, PushFrame
  <2> QED
    BY <2>1, <2>3, <2>5, EmptyIsSeq DEF LoopInv, Above, Front, IsSeq
<1> QED
  BY <1>2, <1>3

LEMMA AddInOrder ==
  ASSUME NEW frames, Under(frames), Above(frames, Len(skipped) + 1),
         NEW pc, NEW item, NEW n, Add(pc, item, n, frames)
  PROVE  LoopInv'
<1> DEFINE number == IF n = 0 THEN seqnum ELSE n
<1>1. CASE WithinThreshold(item)
  <2>1. Accept(pc, item, number, frames)
    BY <1>1 DEF Add
  <2>2. IsSeq(skipped) /\ Len(skipped) <= Len(skipped)
    BY LenProperties DEF Under, IsSeq
  <2>3. CASE ReAddSkipped(skipped, frames)
    BY <2>2, <2>3, ReAddSkippedInOrder
  <2>4. CASE calls' = frames /\ UNCHANGED <<skipped, scratch>>
    BY <2>4, ReturnsInOrder
  <2> QED
    BY <2>1, <2>3, <2>4 DEF Accept
<1>2. CASE ~WithinThreshold(item)
  <2>1. /\ skipped' = Append(skipped, Entry(pc, number))
        /\ calls' = frames /\ scratch' = scratch
    BY <1>2 DEF Add, Skip
  <2>2. IsSeq(skipped') /\ Len(skipped') = Len(skipped) + 1
    BY <2>1, AppendIsSeq DEF Under
  <2> QED
    BY <2>1, <2>2 DEF Under, LoopInv, Above, Front, IsSeq
<1> QED
  BY <1>1, <1>2

\* Zap() and Collapse() only take entries out.
LEMMA StillCandidatesShorter ==
  ASSUME IsSeq(skipped), NEW last
  PROVE  IsSeq(StillCandidates(last)) /\ Len(StillCandidates(last)) <= Len(skipped)
<1> DEFINE kept == {k \in DOMAIN skipped : skipped[k].seqnum >= last}
           Nth(i) == CHOOSE k \in kept : Cardinality({j \in kept : j <= k}) = i
           c == Cardinality(kept)
           s == [i \in 1 .. c |-> skipped[Nth(i)]]
<1>1. DOMAIN skipped = 1 .. Len(skipped) /\ Len(skipped) \in Nat
  BY LenProperties DEF IsSeq
<1>2. IsFiniteSet(1 .. Len(skipped)) /\ Cardinality(1 .. Len(skipped)) = Len(skipped)
  <2> DEFINE m == Len(skipped)
  <2>1. m \in Nat
    BY <1>1
  <2> HIDE DEF m
  <2>2. IsFiniteSet(1 .. m) /\ Cardinality(1 .. m) = IF 1 > m THEN 0 ELSE m - 1 + 1
    BY <2>1, FS_Interval
  <2>3. Cardinality(1 .. m) = m
    BY <2>1, <2>2
  <2> QED
    BY <2>2, <2>3 DEF m
<1>3. kept \in SUBSET (1 .. Len(skipped))
  BY <1>1
<1>4. IsFiniteSet(kept) /\ c <= Len(skipped)
  BY <1>2, <1>3, FS_Subset
<1>5. c \in Nat
  BY <1>4, FS_CardinalityType
<1> HIDE DEF c
<1>6. DOMAIN s = 1 .. c /\ s = [i \in 1 .. c |-> s[i]]
  OBVIOUS
<1>7. s \in [1 .. c -> {s[k] : k \in DOMAIN s}]
  BY <1>6
<1>9. StillCandidates(last) = s
  BY DEF StillCandidates, c
<1> HIDE DEF s
<1>8. s \in Seq({s[k] : k \in DOMAIN s}) /\ Len(s) = c
  <2> DEFINE S == {s[k] : k \in DOMAIN s}
  <2>1. s \in [1 .. c -> S]
    BY <1>7
  <2> HIDE DEF S
  <2>2. s \in Seq(S)
    BY <1>5, <2>1, SeqDef
  <2>3. Len(s) = c
    BY <1>5, <1>6, <2>2, LenProperties
  <2> QED
    BY <2>2, <2>3 DEF S
<1> QED
  BY <1>4, <1>8, <1>9 DEF IsSeq

\* Flush() is called under frames that have passed m_scratch, too.
LEMMA FlushInOrder ==
  ASSUME NEW frames, Under(frames), Above(frames, Len(scratch)), NEW number, Flush(number, frames)
  PROVE  LoopInv'
<1>1. PICK col : DropFirst(col, frames) \/ MoveToColumn(col, number, frames)
  BY DEF Flush
<1>2. CASE DropFirst(col, frames)
  <2> DEFINE mid == Append(frames, Restore)
  <2>1. calls' = frames \o <<Restore, Rest>> /\ UNCHANGED <<skipped, scratch>>
    BY <1>2 DEF DropFirst
  <2>2. Restore \in Frames /\ Rest \in Frames /\ Restore.fn # "ReAddSkipped" /\ Rest.fn # "ReAddSkipped"
    BY DEF Restore, Rest, Frames
  <2>3. /\ mid \in Seq(Frames)
        /\ Above(mid, Len(skipped)) /\ Above(mid, Len(scratch))
    BY <2>2, PushFrame DEF Under
  <2>4. calls' = Append(mid, Rest)
    <3>1. frames \in Seq(Frames)
      BY DEF Under
    <3> QED
      BY <2>1, <2>2, <3>1
  <2>5. /\ calls' \in Seq(Frames) /\ Front(calls') = mid
        /\ Above(calls', Len(skipped))
    BY <2>2, <2>3, <2>4, PushFrame
  <2> QED
    BY <2>1, <2>3, <2>5 DEF Under, LoopInv, Above, Front, IsSeq
<1>3. CASE MoveToColumn(col, number, frames)
  <2> DEFINE last == aligned[Len(aligned)].seqnum
  <2>1. CASE calls' = frames /\ UNCHANGED <<skipped, scratch>>
    BY <2>1, ReturnsInOrder
  <2>2. CASE ReAddSkipped(StillCandidates(last), frames)
    <3>1. IsSeq(StillCandidates(last)) /\ Len(StillCandidates(last)) <= Len(skipped)
      BY StillCandidatesShorter DEF Under
    <3> HIDE DEF last
    <3> QED
      BY <2>2, <3>1, ReAddSkippedInOrder
  <2> QED
    BY <1>3, <2>1, <2>2 DEF MoveToColumn
<1> QED
  BY <1>1, <1>2, <1>3

LEMMA NewLinesInOrder ==
  ASSUME NEW frames, Under(frames), Above(frames, Len(scratch)), NEW count, NewLines(count, frames)
  PROVE  LoopInv'
<1>1. CASE Unflushed(frames)
  BY <1>1, ReturnsInOrder DEF Unflushed, stacks
<1>2. CASE Flush(seqnum', frames)
  BY <1>2, FlushInOrder
<1> QED
  BY <1>1, <1>2 DEF NewLines

-----------------------------------------------------------------------------
(* The steps                                                               *)

LEMMA NoFrames ==
  ASSUME LoopInv, calls = <<>>
  PROVE  /\ Under(<<>>) /\ Len(skipped) \in Nat
         /\ \A n : Above(<<>>, n)
<1>1. Len(<<>>) = 0 /\ <<>> \in Seq(Frames) /\ Front(<<>>) = <<>>
  <2>1. Front(<<>>) = SubSeq(<<>>, 1, -1)
    BY EmptyIsSeq DEF Front
  <2> QED
    BY <2>1, SubSeqEmpty, EmptySeq
<1>2. Len(skipped) \in Nat
  BY LenProperties DEF LoopInv, IsSeq
<1> QED
  BY <1>1, <1>2 DEF Under, LoopInv, Above

\* What a call that is running leaves beneath it.
LEMMA CallerIsUnder ==
  ASSUME LoopInv, calls # <<>>
  PROVE  Under(Caller) /\ Above(Caller, Len(scratch))
<1>1. /\ Caller \in Seq(Frames) /\ Above(Caller, Len(skipped)) /\ Above(Caller, Len(scratch))
  BY CallerFrames DEF LoopInv, Caller
<1>2. Above(Front(Caller), Len(scratch))
  <2>1. CASE Caller = <<>>
    <3>1. Front(Caller) = SubSeq(<<>>, 1, -1)
      BY <2>1, EmptyIsSeq DEF Front
    <3>2. Front(Caller) = <<>>
      BY <3>1, SubSeqEmpty
    <3> QED
      BY <3>2, EmptyIsSeq DEF Above
  <2>2. CASE Caller # <<>>
    <3> DEFINE n == Len(Caller) - 1
    <3>1. n \in Nat /\ \A k \in 1 .. n : Caller[k] \in Frames
      BY <1>1, <2>2, ElementOfSeq, EmptySeq, LenProperties
    <3>2. /\ Len(SubSeq(Caller, 1, n)) = IF 1 <= n THEN n - 1 + 1 ELSE 0
          /\ \A k \in 1 .. n - 1 + 1 : SubSeq(Caller, 1, n)[k] = Caller[1 + k - 1]
      BY <3>1, SubSeqProperties
    <3>3. Front(Caller) = SubSeq(Caller, 1, n)
      BY DEF Front
    <3> QED
      BY <1>1, <3>1, <3>2, <3>3 DEF Above
  <2> QED
    BY <2>1, <2>2
<1> QED
  BY <1>1, <1>2 DEF Under, LoopInv

LEMMA ReAddOneInOrder ==
  ASSUME LoopInv, ReAddOne
  PROVE  LoopInv'
<1> DEFINE frames == Append(Caller, Loop(Index + 1))
<1>1. /\ calls # <<>> /\ calls[Len(calls)].fn = "ReAddSkipped"
      /\ Index = calls[Len(calls)].idx /\ Index <= Len(scratch)
  BY DEF ReAddOne, Running, Index
<1>2. Under(Caller) /\ Above(Caller, Len(scratch))
  BY <1>1, CallerIsUnder
<1>3. Len(calls) \in 1 .. Len(calls) /\ calls[Len(calls)] \in Frames
  BY <1>1, EmptySeq, LenProperties, ElementOfSeq DEF LoopInv
<1>4. Index \in Nat /\ Index > Len(skipped)
  BY <1>1, <1>3 DEF LoopInv, Above, Frames
<1>5. Len(skipped) \in Nat /\ Len(scratch) \in Nat
  BY LenProperties DEF LoopInv, IsSeq
<1>6. Loop(Index + 1) \in Frames /\ Loop(Index + 1).idx = Index + 1
  BY <1>4 DEF Loop, Frames
<1>7. Above(Caller, Len(skipped) + 1)
  <2>1. \A k \in 1 .. Len(Caller) : Caller[k].idx \in Nat
    BY <1>2, FrameFields DEF Under
  <2> QED
    BY <1>1, <1>2, <1>4, <1>5, <2>1 DEF Above
<1>8. Caller \in Seq(Frames) /\ Above(Caller, Len(skipped))
  BY <1>2 DEF Under
<1>9. /\ frames \in Seq(Frames) /\ Front(frames) = Caller
      /\ Above(frames, Len(skipped)) /\ Above(frames, Len(skipped) + 1)
  BY <1>4, <1>5, <1>6, <1>7, <1>8, PushFrame
<1>10. Under(frames)
  BY <1>2, <1>9 DEF Under
<1>11. PICK pc, item, n : Add(pc, item, n, frames)
  BY DEF ReAddOne
<1> HIDE DEF frames
<1> QED
  BY <1>9, <1>10, <1>11, AddInOrder

LEMMA StepInOrder ==
  ASSUME LoopInv, [Next]_vars
  PROVE  LoopInv'
<1>1. CASE AddItem
  <2>1. PICK pc, item : calls = <<>> /\ Add(pc, item, 0, <<>>)
    BY <1>1 DEF AddItem
  <2> QED
    BY <2>1, NoFrames, AddInOrder
<1>2. CASE EndLine
  <2>1. PICK count : calls = <<>> /\ NewLines(count, <<>>)
    BY <1>2 DEF EndLine
  <2> QED
    BY <2>1, NoFrames, NewLinesInOrder
<1>3. CASE LastLine
  BY <1>3 DEF LastLine, stacks, LoopInv, IsSeq, Above, Front
<1>4. CASE End
  <2>1. calls = <<>> /\ (Unflushed(<<>>) \/ Flush(seqnum, <<>>))
    BY <1>4 DEF End
  <2>2. CASE Unflushed(<<>>)
    BY <2>1, <2>2, NoFrames, ReturnsInOrder DEF Unflushed, stacks
  <2> QED
    BY <2>1, <2>2, NoFrames, FlushInOrder
<1>5. CASE EndReset
  <2>1. calls = <<>> /\ calls' = <<>> /\ skipped' = <<>> /\ scratch' = scratch
    BY <1>5 DEF EndReset
  <2>2. /\ \A n : Above(<<>>, n)
        /\ <<>> \in Seq(Frames) /\ IsSeq(scratch) /\ Above(Front(<<>>), Len(scratch))
    BY <2>1, NoFrames DEF Under
  <2> QED
    BY <2>1, <2>2, EmptyIsSeq DEF LoopInv, Above, Front, IsSeq
<1>6. CASE ReAddOne
  BY <1>6, ReAddOneInOrder
<1>7. CASE ReAddDone
  <2>1. calls # <<>> /\ NewLines(0, Caller)
    BY <1>7 DEF ReAddDone, Running
  <2> QED
    BY <2>1, CallerIsUnder, NewLinesInOrder
<1>8. CASE FlushRest
  <2>1. calls # <<>> /\ (Unflushed(Caller) \/ Flush(seqnum, Caller))
    BY <1>8 DEF FlushRest, Running
  <2>2. CASE Unflushed(Caller)
    BY <2>1, <2>2, CallerIsUnder, ReturnsInOrder DEF Unflushed, stacks
  <2> QED
    BY <2>1, <2>2, CallerIsUnder, FlushInOrder
<1>9. CASE RestoreSkipFirst
  <2>1. calls # <<>> /\ calls' = Caller /\ UNCHANGED <<skipped, scratch>>
    BY <1>9 DEF RestoreSkipFirst, Running, stacks
  <2> QED
    BY <2>1, CallerIsUnder, ReturnsInOrder
<1>10. CASE UNCHANGED vars
  BY <1>10 DEF vars, stacks, LoopInv, IsSeq, Above, Front
<1> QED
  BY <1>1, <1>2, <1>3, <1>4, <1>5, <1>6, <1>7, <1>8, <1>9, <1>10 DEF Next, Return

LEMMA InvGivesOrder ==
  ASSUME LoopInv
  PROVE  LoopsInOrder
<1>1. CASE calls = <<>>
  BY <1>1, EmptyIsSeq DEF LoopsInOrder
<1>2. CASE calls # <<>>
  <2>1. /\ Len(Caller) = Len(calls) - 1
        /\ \A k \in 1 .. Len(Caller) : Caller[k] = calls[k]
        /\ Above(Caller, Len(scratch))
    BY <1>2, CallerFrames, CallerIsUnder DEF LoopInv
  <2> QED
    BY <2>1 DEF Above, LoopsInOrder
<1> QED
  BY <1>1, <1>2

LEMMA InitLoop ==
  ASSUME Init
  PROVE  LoopInv
<1>1. Front(<<>>) = <<>>
  <2>1. Front(<<>>) = SubSeq(<<>>, 1, -1)
    BY EmptyIsSeq DEF Front
  <2> QED
    BY <2>1, SubSeqEmpty
<1>2. <<>> \in Seq(Frames)
  BY EmptySeq
<1>3. \A n : Above(<<>>, n)
  BY EmptyIsSeq DEF Above
<1>4. calls = <<>> /\ skipped = <<>> /\ scratch = <<>>
  BY DEF Init
<1> QED
  BY <1>1, <1>2, <1>3, <1>4, EmptyIsSeq DEF LoopInv

\* A loop of ReAddSkipped() whose entries a nested call replaced never takes
\* another one, whatever the spans, the thresholds and the columns.
THEOREM LoopsStayInOrder == Spec => []LoopsInOrder
<1>1. Init => LoopInv
  BY InitLoop
<1>2. LoopInv /\ [Next]_vars => LoopInv'
  BY StepInOrder
<1>3. LoopInv => LoopsInOrder
  BY InvGivesOrder
<1> QED
  BY <1>1, <1>2, <1>3, PTL DEF Spec

-----------------------------------------------------------------------------
(* What the other invariants rest on                                       *)

Entries == [pc : Ids, seqnum : Nat]
EntriesOf(s) == {s[k] : k \in DOMAIN s}

TopIs(frames, fn) == frames # <<>> /\ frames[Len(frames)].fn = fn

\* The entries a loop on top of the frames has not come to yet.
ToCome(frames) ==
  IF TopIs(frames, "ReAddSkipped")
  THEN {scratch[k] : k \in frames[Len(frames)].idx .. Len(scratch)} ELSE {}

NoRestore(frames) == \A k \in 1 .. Len(frames) : frames[k].fn # "Restore"

TypeInv ==
  /\ config \in Configs
  /\ items \in Seq(config.shapes)
  /\ column \in [Ids -> Nat]
  /\ aligned \in Seq(Entries) /\ skipped \in Seq(Entries) /\ scratch \in Seq(Entries)
  /\ \A g \in groups : g \in Seq(Entries)
  /\ max_col \in Nat /\ min_col \in Nat /\ seqnum \in Nat /\ nl_seqnum \in Nat
  /\ gap \in {config.gap, 1}
  /\ skip_first \in BOOLEAN

\* With a threshold nothing is dropped from the front; without one nothing is
\* skipped.  An item gets a number other than 0 when it is skipped, so that it
\* keeps it when it is added again.
ModeInv ==
  /\ config.thresh > 0 => /\ ~skip_first
                          /\ NoRestore(calls)
                          /\ place # "done" => (max_col = 0 <=> aligned = <<>>)
  /\ config.thresh = 0 => skipped = <<>> /\ scratch = <<>>
  /\ place = "done" => calls = <<>>
  /\ aligned = <<>> => skipped = <<>>
  /\ place = "empty" /\ (aligned # <<>> \/ calls # <<>>) => seqnum > 0
  /\ \A e \in EntriesOf(skipped) \cup EntriesOf(scratch) : e.seqnum > 0

BaseInv == TypeInv /\ LoopInv /\ ModeInv

-----------------------------------------------------------------------------
(* Maxima                                                                  *)

LEMMA MaxOfSet ==
  ASSUME NEW S \in SUBSET Int, S # {}, IsFiniteSet(S)
  PROVE  MaxOf(S) \in S /\ \A n \in S : n <= MaxOf(S)
<1>1. \E m \in S : \A n \in S : n <= m
  BY GreatestNumber
<1> QED
  BY <1>1 DEF MaxOf

LEMMA MaxOfTwo ==
  ASSUME NEW a \in Int, NEW b \in Int
  PROVE  MaxOf({a, b}) = IF a <= b THEN b ELSE a
<1>1. \E m \in {a, b} : \A n \in {a, b} : n <= m
  OBVIOUS
<1>2. MaxOf({a, b}) \in {a, b} /\ \A n \in {a, b} : n <= MaxOf({a, b})
  BY <1>1 DEF MaxOf
<1> QED
  BY <1>2

LEMMA FiniteImage ==
  ASSUME NEW n \in Nat, NEW f, DOMAIN f = 1 .. n
  PROVE  IsFiniteSet({f[k] : k \in 1 .. n})
<1> DEFINE T == {f[k] : k \in 1 .. n}
<1>1. IsFiniteSet(1 .. n)
  BY FS_Interval
<1>2. [k \in 1 .. n |-> f[k]] \in Surjection(1 .. n, T)
  BY DEF Surjection
<1> QED
  BY <1>1, <1>2, FS_Surjection

-----------------------------------------------------------------------------
(* Entries                                                                 *)

LEMMA EntriesOfAppend ==
  ASSUME NEW S, NEW s \in Seq(S), NEW e \in S
  PROVE  /\ Append(s, e) \in Seq(S) /\ Append(s, e) # <<>>
         /\ Len(s) \in Nat /\ Len(Append(s, e)) = Len(s) + 1
         /\ DOMAIN s = 1 .. Len(s) /\ DOMAIN Append(s, e) = 1 .. Len(s) + 1
         /\ \A k \in 1 .. Len(s) : Append(s, e)[k] = s[k]
         /\ Append(s, e)[Len(s) + 1] = e
         /\ EntriesOf(Append(s, e)) = EntriesOf(s) \cup {e}
         /\ IdsOf(Append(s, e)) = IdsOf(s) \cup {e.pc}
<1> DEFINE t == Append(s, e)
<1>1. /\ t \in Seq(S) /\ t # <<>> /\ Len(t) = Len(s) + 1
      /\ \A k \in 1 .. Len(s) : t[k] = s[k]
      /\ t[Len(s) + 1] = e
  BY AppendProperties
<1>2. Len(s) \in Nat /\ DOMAIN s = 1 .. Len(s) /\ DOMAIN t = 1 .. Len(t)
  BY <1>1, LenProperties
<1> HIDE DEF t
<1>3. EntriesOf(t) = EntriesOf(s) \cup {e}
  BY <1>1, <1>2 DEF EntriesOf
<1>4. IdsOf(t) = IdsOf(s) \cup {e.pc}
  BY <1>1, <1>2 DEF IdsOf
<1> QED
  BY <1>1, <1>2, <1>3, <1>4 DEF t

LEMMA NoEntries == EntriesOf(<<>>) = {} /\ IdsOf(<<>>) = {} /\ Len(<<>>) = 0
  BY DEF EntriesOf, IdsOf

LEMMA EntryOf ==
  ASSUME NEW S, NEW s \in Seq(S)
  PROVE  /\ EntriesOf(s) \subseteq S
         /\ IdsOf(s) = {e.pc : e \in EntriesOf(s)}
         /\ s # <<>> => Len(s) \in DOMAIN s /\ 1 \in DOMAIN s /\ Len(s) > 0
         /\ Len(s) \in Nat /\ DOMAIN s = 1 .. Len(s)
<1>1. Len(s) \in Nat /\ DOMAIN s = 1 .. Len(s) /\ \A k \in 1 .. Len(s) : s[k] \in S
  BY LenProperties, ElementOfSeq
<1>2. s # <<>> => Len(s) > 0
  BY EmptySeq
<1> QED
  BY <1>1, <1>2 DEF EntriesOf, IdsOf

LEMMA ConfigFields ==
  ASSUME TypeInv
  PROVE  /\ config.span \in Nat /\ config.thresh \in Nat /\ config.gap \in Nat /\ config.tab \in Nat
         /\ config.absolute \in BOOLEAN /\ config.right \in BOOLEAN /\ config.skip_first \in BOOLEAN
         /\ config.skip_first => config.thresh = 0
         /\ gap \in Nat
         /\ \A item \in config.shapes :
              /\ item.tight \in Nat /\ item.tight > 0 /\ item.room \in Nat /\ item.len \in Nat
              /\ item.typedef \in BOOLEAN
              /\ item.tight + config.gap < Infinity
         /\ Infinity \in Nat
<1>1. config \in Configs
  BY DEF TypeInv
<1> QED
  BY <1>1, ConfigsAssumption, BoundsAssumption DEF Shapes, TypeInv

LEMMA ItemFields ==
  ASSUME TypeInv, NEW p \in Ids
  PROVE  items[p] \in config.shapes
BY ElementOfSeq DEF TypeInv, Ids


\* Zap() and Collapse() leave some of the entries, each once.
LEMMA StillCandidatesFrom ==
  ASSUME NEW S, skipped \in Seq(S), NEW last
  PROVE  /\ StillCandidates(last) \in Seq(S)
         /\ \E f \in [DOMAIN StillCandidates(last) -> DOMAIN skipped] :
              /\ \A i, j \in DOMAIN StillCandidates(last) : f[i] = f[j] => i = j
              /\ \A i \in DOMAIN StillCandidates(last) : StillCandidates(last)[i] = skipped[f[i]]
<1> DEFINE kept == {k \in DOMAIN skipped : skipped[k].seqnum >= last}
           Nth(i) == CHOOSE k \in kept : Cardinality({j \in kept : j <= k}) = i
           c == Cardinality(kept)
           f == [i \in 1 .. c |-> Nth(i)]
           r == [i \in 1 .. c |-> skipped[Nth(i)]]
<1>1. Len(skipped) \in Nat /\ DOMAIN skipped = 1 .. Len(skipped) /\ \A k \in 1 .. Len(skipped) : skipped[k] \in S
  BY LenProperties, ElementOfSeq
<1>2. kept \in SUBSET Nat /\ kept \subseteq DOMAIN skipped /\ IsFiniteSet(kept) /\ c \in Nat
  <2>1. IsFiniteSet(1 .. Len(skipped))
    BY <1>1, FS_Interval
  <2>2. kept \in SUBSET (1 .. Len(skipped))
    BY <1>1
  <2> QED
    BY <1>1, <2>1, <2>2, FS_Subset, FS_CardinalityType
<1>3. \A i \in 1 .. c : \E k \in kept : Cardinality({j \in kept : j <= k}) = i
  <2> HIDE DEF kept
  <2> QED
    BY <1>2, NthElement
<1>4. \A i \in 1 .. c : Nth(i) \in kept /\ Cardinality({j \in kept : j <= Nth(i)}) = i
  <2> HIDE DEF kept
  <2> QED
    BY <1>3
<1>5. f \in [1 .. c -> DOMAIN skipped]
  <2> HIDE DEF kept, Nth
  <2> QED
    BY <1>2, <1>4
<1>6. \A i, j \in 1 .. c : f[i] = f[j] => i = j
  <2> HIDE DEF kept, Nth
  <2> QED
    BY <1>4
<1>7. r \in Seq(S) /\ DOMAIN r = 1 .. c
  <2>1. \A i \in 1 .. c : Nth(i) \in DOMAIN skipped
    <3> HIDE DEF kept, Nth
    <3> QED
      BY <1>2, <1>4
  <2>2. r \in [1 .. c -> S]
    <3> HIDE DEF Nth, kept
    <3> QED
      BY <1>1, <2>1
  <2>3. r \in Seq(S)
    <3> HIDE DEF r, c
    <3> QED
      BY <1>2, <2>2, SeqDef
  <2> QED
    BY <2>3
<1>8. \A i \in 1 .. c : r[i] = skipped[f[i]]
  OBVIOUS
<1>9. StillCandidates(last) = r
  BY DEF StillCandidates
<1> HIDE DEF f, r, c
<1>10. f \in [DOMAIN r -> DOMAIN skipped]
  BY <1>5, <1>7
<1>11. \A i, j \in DOMAIN r : f[i] = f[j] => i = j
  BY <1>6, <1>7
<1>12. \A i \in DOMAIN r : r[i] = skipped[f[i]]
  BY <1>7, <1>8
<1>13. \E h \in [DOMAIN r -> DOMAIN skipped] :
         /\ \A i, j \in DOMAIN r : h[i] = h[j] => i = j
         /\ \A i \in DOMAIN r : r[i] = skipped[h[i]]
  <2> WITNESS f \in [DOMAIN r -> DOMAIN skipped]
  <2> QED
    BY <1>11, <1>12
<1> QED
  BY <1>7, <1>9, <1>13

LEMMA StillCandidatesEntries ==
  ASSUME NEW S, skipped \in Seq(S), NEW last
  PROVE  StillCandidates(last) \in Seq(S) /\ EntriesOf(StillCandidates(last)) \subseteq EntriesOf(skipped)
<1> DEFINE r == StillCandidates(last)
<1>1. PICK f \in [DOMAIN r -> DOMAIN skipped] : \A i \in DOMAIN r : r[i] = skipped[f[i]]
  BY StillCandidatesFrom
<1>2. r \in Seq(S)
  BY StillCandidatesFrom
<1> HIDE DEF r
<1>3. EntriesOf(r) \subseteq EntriesOf(skipped)
  BY <1>1 DEF EntriesOf
<1> QED
  BY <1>2, <1>3 DEF r

-----------------------------------------------------------------------------
(* Columns                                                                 *)

LEMMA TabColumnAtLeast ==
  ASSUME TypeInv, NEW col \in Nat
  PROVE  TabColumn(col) \in Nat /\ TabColumn(col) >= col
<1> DEFINE q == (col - 1) \div config.tab
<1>1. CASE config.tab = 0 \/ Len(aligned) = 1 \/ col % config.tab = 1
  BY <1>1 DEF TabColumn
<1>2. CASE ~(config.tab = 0 \/ Len(aligned) = 1 \/ col % config.tab = 1)
  <2>1. config.tab \in Nat \ {0}
    BY <1>2, ConfigFields
  <2>2. q \in Int /\ col - 1 < config.tab * q + config.tab
    BY <2>1
  <2>3. config.tab * (q + 1) = config.tab * q + config.tab /\ config.tab * (q + 1) \in Int
    BY <2>1, <2>2
  <2>4. TabColumn(col) = config.tab * (q + 1) + 1
    BY <1>2 DEF TabColumn
  <2> QED
    BY <2>2, <2>3, <2>4
<1> QED
  BY <1>1, <1>2

\* The columns an item needs at the flush, to its end if that is aligned.
Need(pc) ==
  column[pc] + Adjust(pc) + (IF items[pc].room < gap' THEN gap' - items[pc].room ELSE 0)

LEMMA NeedType ==
  ASSUME TypeInv, gap' \in Nat, NEW pc \in Ids
  PROVE  Need(pc) \in Nat /\ Adjust(pc) \in Nat /\ column[pc] \in Nat
<1>1. items[pc] \in config.shapes
  BY ItemFields
<1>2. items[pc].room \in Nat /\ items[pc].len \in Nat /\ column[pc] \in Nat
  BY <1>1, ConfigFields DEF TypeInv
<1>3. Adjust(pc) \in Nat
  BY <1>2 DEF Adjust
<1> QED
  BY <1>2, <1>3 DEF Need

LEMMA TargetAtLeast ==
  ASSUME TypeInv, gap' \in Nat, aligned # <<>>
  PROVE  /\ TargetColumn \in Nat
         /\ \A pc \in IdsOf(aligned) : Need(pc) <= TargetColumn
<1> DEFINE n == Len(aligned)
           f == [k \in 1 .. n |-> Need(aligned[k].pc)]
           S == {Need(pc) : pc \in IdsOf(aligned)}
<1>1. /\ n \in Nat /\ n > 0 /\ DOMAIN aligned = 1 .. n
      /\ \A k \in 1 .. n : aligned[k] \in Entries
  BY EntryOf, ElementOfSeq DEF TypeInv
<1>2. \A k \in 1 .. n : aligned[k].pc \in Ids
  BY <1>1 DEF Entries
<1>3. IdsOf(aligned) = {aligned[k].pc : k \in 1 .. n}
  BY <1>1 DEF IdsOf
<1>4. S = {f[k] : k \in 1 .. n}
  BY <1>3
<1>5. IsFiniteSet(S)
  BY <1>1, <1>4, FiniteImage
<1>6. S \in SUBSET Nat /\ S # {}
  BY <1>1, <1>2, <1>3, NeedType
<1>7. MaxOf(S) \in Nat /\ \A m \in S : m <= MaxOf(S)
  <2> HIDE DEF S
  <2>1. S \in SUBSET Int
    BY <1>6
  <2>2. MaxOf(S) \in S /\ \A m \in S : m <= MaxOf(S)
    BY <1>5, <1>6, <2>1, MaxOfSet
  <2> QED
    BY <1>6, <2>2
<1>8. TargetColumn = TabColumn(MaxOf(S))
  BY DEF TargetColumn, Need
<1>9. TargetColumn \in Nat /\ TargetColumn >= MaxOf(S)
  <2> HIDE DEF S
  <2> QED
    BY <1>7, <1>8, TabColumnAtLeast
<1>10. \A pc \in IdsOf(aligned) : Need(pc) \in S /\ Need(pc) \in Nat
  BY <1>6
<1> HIDE DEF S
<1>11. MaxOf(S) \in Int
  BY <1>7
<1> QED
  BY <1>7, <1>9, <1>10, <1>11

-----------------------------------------------------------------------------
(* The kinds of steps: an entry is added, for the first time or again; the *)
(* group is flushed; nothing is aligned.                                   *)

Added(e, item, frames) ==
  /\ column' = [k \in DOMAIN column \cup {e.pc} |-> IF k = e.pc THEN item.tight ELSE column[k]]
  /\ IF WithinThreshold(item) THEN Accept(e.pc, item, e.seqnum, frames)
                              ELSE Skip(e.pc, e.seqnum, frames)
  /\ UNCHANGED <<config, seqnum, gap, skip_first, groups>>

NewStep(e, item) ==
  /\ item \in config.shapes
  /\ e = Entry(Len(items) + 1, seqnum)
  /\ Added(e, item, <<>>)
  /\ items' = Append(items, item)
  /\ calls = <<>>
  /\ place = "empty" /\ place' = "full"

AgainFrames == Append(Caller, Loop(Index + 1))

AgainStep(e) ==
  /\ TopIs(calls, "ReAddSkipped")
  /\ Index \in DOMAIN scratch /\ e = scratch[Index]
  /\ Added(e, items[e.pc], AgainFrames)
  /\ UNCHANGED <<items, place>>

FlushStep(frames) ==
  /\ aligned # <<>>
  /\ Flush(seqnum', frames)
  /\ UNCHANGED <<config, items>>
  /\ seqnum' \in Nat /\ seqnum' >= seqnum
  /\ Under(frames) /\ Above(frames, Len(scratch))
  /\ ToCome(calls) = {} /\ ToCome(frames) = {}
  /\ NoRestore(calls) => NoRestore(frames)
  /\ place' = "empty" => seqnum' > 0
  /\ place' # "done"
  /\ place' = "empty" \/ seqnum' = seqnum

QuietStep ==
  /\ UNCHANGED <<config, items, column, scratch, groups, max_col, min_col, nl_seqnum, gap>>
  /\ seqnum' \in Nat /\ seqnum' >= seqnum
  /\ \/ UNCHANGED <<aligned, skipped>> /\ (place' = "done" <=> place = "done")
     \/ aligned' = <<>> /\ skipped' = <<>> /\ place' = "done"
  /\ ToCome(calls)' \subseteq ToCome(calls)
  /\ skip_first' \in BOOLEAN /\ (config.thresh > 0 => ~skip_first')
  /\ NoRestore(calls) => NoRestore(calls')
  /\ place' = "done" => calls' = <<>>
  /\ place' = "empty" /\ (aligned' # <<>> \/ calls' # <<>>) => seqnum' > 0
  /\ aligned' # <<>> =>
       \/ seqnum' <= nl_seqnum + config.span
       \/ seqnum' = seqnum /\ (calls = <<>> \/ TopIs(calls, "Restore") \/ calls' = calls)

LEMMA NothingToCome ==
  ASSUME NEW frames, Under(frames), Above(frames, Len(scratch))
  PROVE  ToCome(frames) = {}
<1>1. SUFFICES ASSUME TopIs(frames, "ReAddSkipped")
               PROVE  frames[Len(frames)].idx .. Len(scratch) = {}
  BY DEF ToCome
<1>2. Len(frames) \in 1 .. Len(frames) /\ frames[Len(frames)].idx \in Nat
  BY <1>1, FrameFields, EmptySeq, LenProperties DEF TopIs, Under
<1>3. frames[Len(frames)].idx > Len(scratch) /\ Len(scratch) \in Nat
  BY <1>1, <1>2, SeqLength DEF Above, TopIs, Under
<1> QED
  BY <1>2, <1>3

LEMMA NoneToCome == ToCome(<<>>) = {}
  BY DEF ToCome, TopIs

LEMMA AddItemIsNew ==
  ASSUME BaseInv, AddItem
  PROVE  \E e, item : NewStep(e, item)
<1>1. PICK item \in config.shapes :
        items' = Append(items, item) /\ Add(Len(items) + 1, item, 0, <<>>)
  BY DEF AddItem
<1>2. Added(Entry(Len(items) + 1, seqnum), item, <<>>)
  BY <1>1 DEF AddItem, Add, Added, Entry
<1> QED
  BY <1>1, <1>2 DEF AddItem, NewStep

LEMMA ReAddOneIsAgain ==
  ASSUME BaseInv, ReAddOne
  PROVE  \E e : AgainStep(e)
<1> DEFINE e == scratch[Index]
<1>1. TopIs(calls, "ReAddSkipped") /\ Index = calls[Len(calls)].idx /\ Index <= Len(scratch)
  BY DEF ReAddOne, Running, TopIs, Index
<1>2. Len(calls) \in 1 .. Len(calls)
  BY <1>1, EmptySeq, LenProperties DEF TopIs, LoopInv, BaseInv
<1>3. Index \in Nat /\ Index > Len(skipped) /\ Len(skipped) \in Nat /\ Len(scratch) \in Nat
  BY <1>1, <1>2, FrameFields, SeqLength DEF BaseInv, LoopInv, Above, TopIs
<1>4. Index \in DOMAIN scratch
  BY <1>1, <1>3, SeqLength DEF BaseInv, LoopInv
<1>5. e \in EntriesOf(scratch)
  BY <1>4 DEF EntriesOf
<1>6. e.seqnum > 0 /\ e \in Entries
  BY <1>5, EntryOf DEF BaseInv, ModeInv, TypeInv
<1>7. e.seqnum # 0
  BY <1>6 DEF Entries
<1>8. Added(e, items[e.pc], AgainFrames)
  BY <1>7 DEF ReAddOne, Add, Added, AgainFrames
<1> QED
  BY <1>1, <1>4, <1>8 DEF AgainStep, ReAddOne

\* The frames under the call that runs, when it has nothing left to add.
LEMMA CallerContext ==
  ASSUME BaseInv, calls # <<>>
  PROVE  /\ Under(Caller) /\ Above(Caller, Len(scratch))
         /\ ToCome(Caller) = {}
         /\ NoRestore(calls) => NoRestore(Caller)
<1>1. Under(Caller) /\ Above(Caller, Len(scratch))
  BY CallerIsUnder DEF BaseInv
<1>2. ToCome(Caller) = {}
  BY <1>1, NothingToCome
<1>3. Len(Caller) = Len(calls) - 1 /\ \A k \in 1 .. Len(Caller) : Caller[k] = calls[k]
  BY CallerFrames DEF BaseInv, LoopInv
<1>4. Len(calls) \in Nat
  BY LenProperties DEF BaseInv, LoopInv
<1> QED
  BY <1>1, <1>2, <1>3, <1>4 DEF NoRestore

LEMMA NoContext ==
  ASSUME BaseInv
  PROVE  /\ Under(<<>>) \/ calls # <<>>
         /\ Above(<<>>, Len(scratch))
         /\ ToCome(<<>>) = {} /\ NoRestore(<<>>)
<1>1. calls = <<>> => Under(<<>>)
  BY NoFrames DEF BaseInv
<1>2. Len(<<>>) = 0
  BY EmptyIsSeq
<1> QED
  BY <1>1, <1>2, NoneToCome DEF Above, NoRestore

\* m_seqnum is what it was when there was nothing to flush.
LEMMA UnflushedIsQuiet ==
  ASSUME BaseInv, NEW frames, Unflushed(frames), UNCHANGED <<config, items>>,
         ToCome(calls) = {}, ToCome(frames) = {},
         NoRestore(calls) => NoRestore(frames),
         seqnum' \in Nat, seqnum' >= seqnum,
         place # "done", place' # "done",
         place' = "empty" /\ (aligned # <<>> \/ frames # <<>>) => seqnum' > 0,
         aligned # <<>> => seqnum' <= nl_seqnum + config.span
  PROVE  QuietStep
<1>1. /\ calls' = frames
      /\ UNCHANGED <<column, aligned, skipped, scratch, max_col, min_col, nl_seqnum, gap, skip_first, groups>>
  BY DEF Unflushed, stacks
<1>2. ToCome(calls)' = ToCome(frames)
  BY <1>1 DEF ToCome, TopIs
<1>3. skip_first' \in BOOLEAN /\ (config.thresh > 0 => ~skip_first')
  BY <1>1 DEF BaseInv, TypeInv, ModeInv
<1> QED
  BY <1>1, <1>2, <1>3 DEF QuietStep

LEMMA NewLinesKinds ==
  ASSUME BaseInv, NEW frames, NEW count \in Nat, NewLines(count, frames), UNCHANGED <<config, items>>,
         Under(frames), Above(frames, Len(scratch)),
         ToCome(calls) = {}, ToCome(frames) = {},
         NoRestore(calls) => NoRestore(frames),
         place' = "empty" \/ seqnum' = seqnum,
         place # "done", place' # "done",
         place' = "empty" /\ (aligned # <<>> \/ frames # <<>>) => seqnum' > 0
  PROVE  FlushStep(frames) \/ QuietStep
<1>1. seqnum \in Nat /\ nl_seqnum \in Nat /\ config.span \in Nat
  BY ConfigFields DEF BaseInv, TypeInv
<1>2. seqnum' \in Nat /\ seqnum' >= seqnum
  BY <1>1 DEF NewLines
<1>3. CASE aligned # <<>> /\ seqnum' > nl_seqnum + config.span
  <2>1. Flush(seqnum', frames)
    BY <1>3 DEF NewLines
  <2>2. FlushStep(frames)
    BY <1>2, <1>3, <2>1 DEF FlushStep
  <2> QED
    BY <2>2
<1>4. CASE ~(aligned # <<>> /\ seqnum' > nl_seqnum + config.span)
  <2>1. Unflushed(frames)
    BY <1>4 DEF NewLines
  <2>2. aligned # <<>> => seqnum' <= nl_seqnum + config.span
    BY <1>1, <1>2, <1>4
  <2>3. QuietStep
    BY <1>2, <2>1, <2>2, UnflushedIsQuiet
  <2> QED
    BY <2>3
<1> QED
  BY <1>3, <1>4

LEMMA StepKinds ==
  ASSUME BaseInv, [Next]_vars
  PROVE  \/ \E e, item : NewStep(e, item)
         \/ \E e : AgainStep(e)
         \/ \E frames : FlushStep(frames)
         \/ QuietStep
<1> DEFINE Kinds == \/ \E e, item : NewStep(e, item)
                    \/ \E e : AgainStep(e)
                    \/ \E frames : FlushStep(frames)
                    \/ QuietStep
<1>0. /\ seqnum \in Nat /\ nl_seqnum \in Nat /\ skip_first \in BOOLEAN
      /\ config.thresh > 0 => ~skip_first
  BY DEF BaseInv, TypeInv, ModeInv
<1>1. CASE AddItem
  BY <1>1, AddItemIsNew
<1>2. CASE EndLine
  <2>1. PICK count \in 1 .. Blank : NewLines(count, <<>>)
    BY <1>2 DEF EndLine
  <2>2. calls = <<>> /\ place' = "empty" /\ place # "done" /\ UNCHANGED <<config, items>>
    BY <1>2 DEF EndLine
  <2>3. aligned # <<>> => seqnum' > 0
    BY <1>0, <2>1 DEF NewLines
  <2>4. count \in Nat
    BY <2>1, BoundsAssumption
  <2>5. ToCome(calls) = {}
    BY <2>2, NoneToCome
  <2>6. FlushStep(<<>>) \/ QuietStep
    BY <2>1, <2>2, <2>3, <2>4, <2>5, NoContext, NewLinesKinds
  <2> QED
    BY <2>6
<1>3. CASE LastLine
  <2>1. /\ calls = <<>> /\ calls' = calls /\ place' = "end" /\ place # "done"
        /\ UNCHANGED <<config, items, column, aligned, skipped, scratch, max_col, min_col, seqnum, nl_seqnum, gap, groups>>
        /\ skip_first' = config.skip_first
    BY <1>3 DEF LastLine, stacks
  <2>2. ToCome(calls)' = ToCome(calls)
    BY <2>1 DEF ToCome, TopIs
  <2>3. skip_first' \in BOOLEAN /\ (config.thresh > 0 => ~skip_first')
    BY <2>1, ConfigFields DEF BaseInv
  <2>4. NoRestore(calls) => NoRestore(calls')
    BY <2>1
  <2>5. QuietStep
    BY <1>0, <2>1, <2>2, <2>3, <2>4 DEF QuietStep
  <2> QED
    BY <2>5
<1>4. CASE End
  <2>1. calls = <<>> /\ place' = "flushed" /\ place # "done" /\ UNCHANGED <<config, items, seqnum>>
    BY <1>4 DEF End
  <2>2. ToCome(calls) = {}
    BY <2>1, NoneToCome
  <2>3. CASE aligned = <<>>
    <3>1. Unflushed(<<>>)
      BY <1>4, <2>3 DEF End
    <3>2. QuietStep
      BY <1>0, <2>1, <2>2, <2>3, <3>1, NoContext, UnflushedIsQuiet
    <3> QED
      BY <3>2
  <2>4. CASE aligned # <<>>
    <3>1. Flush(seqnum', <<>>)
      BY <1>4, <2>1, <2>4 DEF End
    <3>2. FlushStep(<<>>)
      BY <1>0, <2>1, <2>2, <2>4, <3>1, NoContext DEF FlushStep
    <3> QED
      BY <3>2
  <2> QED
    BY <2>3, <2>4
<1>5. CASE EndReset
  <2>1. /\ calls = <<>> /\ calls' = calls /\ place' = "done"
        /\ aligned' = <<>> /\ skipped' = <<>>
        /\ UNCHANGED <<config, items, column, scratch, max_col, min_col, seqnum, nl_seqnum, gap, skip_first, groups>>
    BY <1>5 DEF EndReset
  <2>2. ToCome(calls)' = ToCome(calls)
    BY <2>1 DEF ToCome, TopIs
  <2>3. NoRestore(calls) => NoRestore(calls')
    BY <2>1
  <2>4. QuietStep
    BY <1>0, <2>1, <2>2, <2>3 DEF QuietStep
  <2> QED
    BY <2>4
<1>6. CASE ReAddOne
  BY <1>6, ReAddOneIsAgain
<1>7. CASE ReAddDone
  <2>1. /\ TopIs(calls, "ReAddSkipped") /\ Index = calls[Len(calls)].idx /\ Index > Len(scratch)
        /\ NewLines(0, Caller)
        /\ UNCHANGED <<config, items, place>>
    BY <1>7 DEF ReAddDone, Running, TopIs, Index
  <2>2. calls # <<>> /\ place # "done"
    BY <2>1 DEF TopIs, BaseInv, ModeInv
  <2>3. ToCome(calls) = {}
    <3>1. Len(calls) \in 1 .. Len(calls)
      BY <2>2, EmptySeq, LenProperties DEF LoopInv, BaseInv
    <3>2. Index \in Nat /\ Len(scratch) \in Nat
      BY <2>1, <3>1, FrameFields, SeqLength DEF BaseInv, LoopInv
    <3>3. Index .. Len(scratch) = {}
      BY <2>1, <3>2
    <3> QED
      BY <2>1, <3>3 DEF ToCome
  <2>4. seqnum' = seqnum
    BY <1>0, <2>1 DEF NewLines
  <2>5. place' = "empty" => seqnum' > 0
    BY <2>1, <2>2, <2>4 DEF BaseInv, ModeInv
  <2>6. FlushStep(Caller) \/ QuietStep
    <3>1. 0 \in Nat
      OBVIOUS
    <3> QED
      BY <2>1, <2>2, <2>3, <2>4, <2>5, <3>1, CallerContext, NewLinesKinds
  <2> QED
    BY <2>6
<1>8. CASE FlushRest
  <2>1. TopIs(calls, "Flush") /\ UNCHANGED <<config, items, seqnum, place>>
    BY <1>8 DEF FlushRest, Running, TopIs
  <2>2. calls # <<>> /\ place # "done" /\ ToCome(calls) = {}
    BY <2>1 DEF TopIs, BaseInv, ModeInv, ToCome
  <2>3. place' = "empty" => seqnum' > 0
    BY <2>1, <2>2 DEF BaseInv, ModeInv
  <2>4. CASE aligned = <<>>
    <3>1. Unflushed(Caller)
      BY <1>8, <2>4 DEF FlushRest
    <3>2. QuietStep
      BY <1>0, <2>1, <2>2, <2>3, <2>4, <3>1, CallerContext, UnflushedIsQuiet
    <3> QED
      BY <3>2
  <2>5. CASE aligned # <<>>
    <3>1. Flush(seqnum', Caller)
      BY <1>8, <2>1, <2>5 DEF FlushRest
    <3>2. FlushStep(Caller)
      BY <1>0, <2>1, <2>2, <2>3, <2>5, <3>1, CallerContext DEF FlushStep
    <3> QED
      BY <3>2
  <2> QED
    BY <2>4, <2>5
<1>9. CASE RestoreSkipFirst
  <2>1. /\ TopIs(calls, "Restore") /\ calls' = Caller /\ skip_first' = TRUE
        /\ UNCHANGED <<config, items, column, aligned, skipped, scratch, max_col, min_col, seqnum, nl_seqnum, gap, place, groups>>
    BY <1>9 DEF RestoreSkipFirst, Running, TopIs, stacks
  <2>2. calls # <<>> /\ place # "done"
    BY <2>1 DEF TopIs, BaseInv, ModeInv
  <2>3. ToCome(calls)' = ToCome(Caller)
    BY <2>1 DEF ToCome, TopIs
  <2>4. ToCome(Caller) = {} /\ (NoRestore(calls) => NoRestore(calls'))
    BY <2>1, <2>2, CallerContext
  <2>5. ~(config.thresh > 0)
    <3>1. Len(calls) \in 1 .. Len(calls)
      BY <2>2, EmptySeq, LenProperties DEF LoopInv, BaseInv
    <3>2. ~NoRestore(calls)
      BY <2>1, <3>1 DEF NoRestore, TopIs
    <3> QED
      BY <3>2 DEF BaseInv, ModeInv
  <2>6. place' = "empty" => seqnum' > 0
    BY <2>1, <2>2 DEF BaseInv, ModeInv
  <2>7. QuietStep
    BY <1>0, <2>1, <2>2, <2>3, <2>4, <2>5, <2>6 DEF QuietStep
  <2> QED
    BY <2>7
<1>10. CASE UNCHANGED vars
  <2>1. /\ calls' = calls
        /\ UNCHANGED <<config, items, column, aligned, skipped, scratch, max_col, min_col, seqnum, nl_seqnum, gap, skip_first, place, groups>>
    BY <1>10 DEF vars, stacks
  <2>2. ToCome(calls)' = ToCome(calls)
    BY <2>1 DEF ToCome, TopIs
  <2>3. NoRestore(calls) => NoRestore(calls')
    BY <2>1
  <2>4. /\ place' = "done" => calls' = <<>>
        /\ place' = "empty" /\ (aligned' # <<>> \/ calls' # <<>>) => seqnum' > 0
    BY <2>1 DEF BaseInv, ModeInv
  <2>5. QuietStep
    BY <1>0, <2>1, <2>2, <2>3, <2>4 DEF QuietStep
  <2> QED
    BY <2>5
<1> QED
  BY <1>1, <1>2, <1>3, <1>4, <1>5, <1>6, <1>7, <1>8, <1>9, <1>10 DEF Next, Return

\* The entries of s are of different items.
Distinct(s) == \A j, k \in DOMAIN s : s[j].pc = s[k].pc => j = k

\* What adding an item for the first time and adding it again have in common.
AddStep(e, item, frames) ==
  /\ Added(e, item, frames)
  /\ item \in config.shapes /\ items' \in Seq(config.shapes)
  /\ Ids' = Ids \cup {e.pc} /\ items'[e.pc] = item /\ \A p \in Ids : items'[p] = items[p]
  /\ e = Entry(e.pc, e.seqnum) /\ e.seqnum \in Nat
  /\ frames \in Seq(Frames)
  /\ NoRestore(calls) => NoRestore(frames)
  /\ place # "done" /\ place' # "done" /\ (place' = "empty" => seqnum > 0)
  /\ ~WithinThreshold(item) => e.seqnum > 0
  /\ ToCome(frames) \subseteq ToCome(calls)
  /\ \/ e \in ToCome(calls) /\ TopIs(frames, "ReAddSkipped")
     \/ e.pc \notin Ids /\ e.seqnum = seqnum /\ calls = <<>> /\ frames = <<>>
  /\ Distinct(scratch) => \A d \in ToCome(frames) : d.pc # e.pc

LEMMA NotWithin ==
  ASSUME NEW item, ~WithinThreshold(item), BaseInv
  PROVE  config.thresh > 0 /\ max_col # 0 /\ (place # "done" => aligned # <<>>)
<1>1. max_col # 0 /\ config.thresh # 0
  BY DEF WithinThreshold
<1>2. config.thresh > 0
  BY <1>1, ConfigFields DEF BaseInv
<1> QED
  BY <1>1, <1>2 DEF BaseInv, ModeInv

LEMMA NewStepAdds ==
  ASSUME BaseInv, NEW e, NEW item, NewStep(e, item)
  PROVE  AddStep(e, item, <<>>)
<1>1. /\ item \in config.shapes /\ e = Entry(Len(items) + 1, seqnum)
      /\ Added(e, item, <<>>)
      /\ items' = Append(items, item)
      /\ calls = <<>> /\ place = "empty" /\ place' = "full"
  BY DEF NewStep
<1>2. items \in Seq(config.shapes) /\ seqnum \in Nat
  BY DEF BaseInv, TypeInv
<1>3. e.pc = Len(items) + 1 /\ e.seqnum = seqnum /\ e = Entry(e.pc, e.seqnum)
  BY <1>1 DEF Entry
<1>4. /\ items' \in Seq(config.shapes) /\ Len(items') = Len(items) + 1 /\ Len(items) \in Nat
      /\ \A p \in 1 .. Len(items) : items'[p] = items[p]
      /\ items'[Len(items) + 1] = item
  BY <1>1, <1>2, EntriesOfAppend
<1>5. Ids' = 1 .. Len(items')
  BY DEF Ids
<1>6. Ids' = Ids \cup {e.pc} /\ e.pc \notin Ids
  BY <1>3, <1>4, <1>5 DEF Ids
<1>7. ~WithinThreshold(item) => e.seqnum > 0
  <2>1. ~WithinThreshold(item) => aligned # <<>>
    BY <1>1, NotWithin
  <2>2. aligned # <<>> => seqnum > 0
    BY <1>1 DEF BaseInv, ModeInv
  <2> QED
    BY <1>3, <2>1, <2>2
<1>8. ToCome(<<>>) = {} /\ NoRestore(<<>>) /\ <<>> \in Seq(Frames)
  BY NoContext, EmptySeq
<1>9. items'[e.pc] = item /\ \A p \in Ids : items'[p] = items[p]
  BY <1>3, <1>4 DEF Ids
<1> QED
  BY <1>1, <1>2, <1>3, <1>4, <1>6, <1>7, <1>8, <1>9 DEF AddStep

LEMMA AgainStepAdds ==
  ASSUME BaseInv, NEW e, AgainStep(e)
  PROVE  AddStep(e, items[e.pc], AgainFrames)
<1>1. /\ TopIs(calls, "ReAddSkipped") /\ Index = calls[Len(calls)].idx
      /\ Index \in DOMAIN scratch /\ e = scratch[Index]
      /\ Added(e, items[e.pc], AgainFrames)
      /\ UNCHANGED <<items, place>>
  BY DEF AgainStep, Index
<1>2. calls # <<>> /\ place # "done"
  BY <1>1 DEF TopIs, BaseInv, ModeInv
<1>3. scratch \in Seq(Entries) /\ items \in Seq(config.shapes)
  BY DEF BaseInv, TypeInv
<1>4. Len(scratch) \in Nat /\ DOMAIN scratch = 1 .. Len(scratch)
  BY <1>3, EntryOf
<1>5. Index \in Nat /\ Index <= Len(scratch)
  BY <1>1, <1>4
<1>6. ToCome(calls) = {scratch[k] : k \in Index .. Len(scratch)}
  BY <1>1 DEF ToCome
<1>7. e \in ToCome(calls) /\ e \in EntriesOf(scratch)
  BY <1>1, <1>4, <1>5, <1>6 DEF EntriesOf
<1>8. e \in Entries /\ e.seqnum > 0
  BY <1>3, <1>7, EntryOf DEF BaseInv, ModeInv
<1>9. e = Entry(e.pc, e.seqnum) /\ e.seqnum \in Nat /\ e.pc \in Ids
  BY <1>8 DEF Entries, Entry
<1>10. Loop(Index + 1) \in Frames /\ Loop(Index + 1).idx = Index + 1 /\ Loop(Index + 1).fn = "ReAddSkipped"
  BY <1>5 DEF Loop, Frames
<1>11. Caller \in Seq(Frames) /\ (NoRestore(calls) => NoRestore(Caller))
  BY <1>2, CallerContext DEF Under
<1>12. /\ AgainFrames \in Seq(Frames) /\ AgainFrames # <<>>
       /\ Len(AgainFrames) = Len(Caller) + 1 /\ Len(Caller) \in Nat
       /\ \A k \in 1 .. Len(Caller) : AgainFrames[k] = Caller[k]
       /\ AgainFrames[Len(Caller) + 1] = Loop(Index + 1)
  BY <1>10, <1>11, EntriesOfAppend DEF AgainFrames
<1>13. NoRestore(calls) => NoRestore(AgainFrames)
  <2>1. SUFFICES ASSUME NoRestore(Caller), NEW k \in 1 .. Len(Caller) + 1
                 PROVE  AgainFrames[k].fn # "Restore"
    BY <1>11, <1>12 DEF NoRestore
  <2> QED
    BY <1>10, <1>12, <2>1 DEF NoRestore
<1>14. ToCome(AgainFrames) = {scratch[k] : k \in Index + 1 .. Len(scratch)}
  BY <1>10, <1>12 DEF ToCome, TopIs
<1>15. ToCome(AgainFrames) \subseteq ToCome(calls)
  BY <1>4, <1>5, <1>6, <1>14
<1>16. Distinct(scratch) => \A d \in ToCome(AgainFrames) : d.pc # e.pc
  <2>1. SUFFICES ASSUME Distinct(scratch), NEW k \in Index + 1 .. Len(scratch), scratch[k].pc = e.pc
                 PROVE  FALSE
    BY <1>14
  <2>2. k \in DOMAIN scratch /\ k # Index
    BY <1>4, <1>5, <2>1
  <2> QED
    BY <1>1, <2>1, <2>2 DEF Distinct
<1>17. TopIs(AgainFrames, "ReAddSkipped")
  BY <1>10, <1>12 DEF TopIs
<1>18. /\ Ids' = Ids \cup {e.pc} /\ items'[e.pc] = items[e.pc] /\ \A p \in Ids : items'[p] = items[p]
       /\ items' \in Seq(config.shapes) /\ items[e.pc] \in config.shapes
  BY <1>1, <1>3, <1>9, ItemFields DEF Ids, BaseInv
<1>19. place' # "done" /\ (place' = "empty" => seqnum > 0)
  BY <1>1, <1>2 DEF BaseInv, ModeInv
<1> QED
  BY <1>1, <1>2, <1>7, <1>8, <1>9, <1>12, <1>13, <1>15, <1>16, <1>17, <1>18, <1>19 DEF AddStep

\* The kinds, with what each leaves to show of an invariant.
LEMMA Steps ==
  ASSUME BaseInv, [Next]_vars
  PROVE  \/ \E e, item, frames : AddStep(e, item, frames)
         \/ \E frames : FlushStep(frames)
         \/ QuietStep
BY StepKinds, NewStepAdds, AgainStepAdds

-----------------------------------------------------------------------------
(* What a step does to the stacks                                          *)

\* The entry is aligned with those that are.
Joined(e, item) ==
  /\ WithinThreshold(item)
  /\ aligned' = Append(aligned, e)
  /\ nl_seqnum' = MaxOf({nl_seqnum, e.seqnum})
  /\ min_col' = IF item.tight + Bump(item) < min_col THEN item.tight + Bump(item) ELSE min_col
  /\ max_col' = MaxOf({max_col, item.tight + Bump(item)})

LEMMA AddedOutcome ==
  ASSUME NEW e, NEW item, NEW frames, AddStep(e, item, frames)
  PROVE  \/ Joined(e, item) /\ calls' = frames /\ UNCHANGED <<skipped, scratch>>
         \/ /\ Joined(e, item) /\ skipped # <<>> /\ skipped' = <<>> /\ scratch' = skipped
            /\ calls' = Append(frames, Loop(1))
         \/ /\ ~WithinThreshold(item) /\ skipped' = Append(skipped, e) /\ calls' = frames
            /\ UNCHANGED <<aligned, scratch, max_col, min_col, nl_seqnum>>
<1>1. e = Entry(e.pc, e.seqnum)
  BY DEF AddStep
<1>2. CASE WithinThreshold(item)
  <2>1. Accept(e.pc, item, e.seqnum, frames)
    BY <1>2 DEF AddStep, Added
  <2>2. Joined(e, item)
    BY <1>1, <1>2, <2>1 DEF Accept, Joined
  <2>3. CASE calls' = frames /\ UNCHANGED <<skipped, scratch>>
    BY <2>2, <2>3
  <2>4. CASE skipped # <<>> /\ ReAddSkipped(skipped, frames)
    BY <2>2, <2>4 DEF ReAddSkipped
  <2> QED
    BY <2>1, <2>3, <2>4 DEF Accept
<1>3. CASE ~WithinThreshold(item)
  BY <1>1, <1>3 DEF AddStep, Added, Skip
<1> QED
  BY <1>2, <1>3

LEMMA AppendedToCome ==
  ASSUME NEW S, scratch' \in Seq(S), calls' = <<>> \/ calls' \in Seq(Frames),
         TopIs(calls', "ReAddSkipped"), calls'[Len(calls')].idx = 1
  PROVE  ToCome(calls)' = EntriesOf(scratch')
<1>1. DOMAIN scratch' = 1 .. Len(scratch')
  BY LenProperties
<1>2. TopIs(calls, "ReAddSkipped")'
  BY DEF TopIs
<1> QED
  BY <1>1, <1>2 DEF ToCome, EntriesOf

LEMMA LoopFromOne ==
  ASSUME NEW frames \in Seq(Frames), calls' = Append(frames, Loop(1)), NEW S, scratch' \in Seq(S)
  PROVE  /\ ToCome(calls)' = EntriesOf(scratch')
         /\ NoRestore(frames) => NoRestore(calls')
         /\ calls' # <<>> /\ TopIs(calls', "ReAddSkipped")
<1>1. Loop(1) \in Frames /\ Loop(1).idx = 1 /\ Loop(1).fn = "ReAddSkipped"
  BY DEF Loop, Frames
<1>2. /\ calls' \in Seq(Frames) /\ calls' # <<>> /\ Len(calls') = Len(frames) + 1 /\ Len(frames) \in Nat
      /\ \A k \in 1 .. Len(frames) : calls'[k] = frames[k]
      /\ calls'[Len(frames) + 1] = Loop(1)
  BY <1>1, EntriesOfAppend
<1>3. TopIs(calls', "ReAddSkipped") /\ calls'[Len(calls')].idx = 1
  BY <1>1, <1>2 DEF TopIs
<1>4. NoRestore(frames) => NoRestore(calls')
  <2>1. SUFFICES ASSUME NoRestore(frames), NEW k \in 1 .. Len(frames) + 1
                 PROVE  calls'[k].fn # "Restore"
    BY <1>2 DEF NoRestore
  <2> QED
    BY <1>1, <1>2, <2>1 DEF NoRestore
<1> QED
  BY <1>2, <1>3, <1>4, AppendedToCome

LEMMA SameToCome ==
  ASSUME NEW frames, calls' = frames, scratch' = scratch
  PROVE  ToCome(calls)' = ToCome(frames)
BY DEF ToCome, TopIs

\* Where the entries are after an entry was added: with the ones to come and
\* the skipped, or aligned.
LEMMA AddedEntries ==
  ASSUME BaseInv, NEW e, NEW item, NEW frames, AddStep(e, item, frames)
  PROVE  /\ Ids \subseteq Ids' /\ Entries \subseteq Entries'
         /\ e \in Entries'
         /\ NoRestore(calls) => NoRestore(calls')
         /\ \/ /\ Joined(e, item) /\ calls' = frames
               /\ UNCHANGED <<skipped, scratch>> /\ ToCome(calls)' = ToCome(frames)
            \/ /\ Joined(e, item) /\ skipped' = <<>> /\ scratch' = skipped
               /\ TopIs(calls', "ReAddSkipped")
               /\ ToCome(calls)' = EntriesOf(skipped)
            \/ /\ ~WithinThreshold(item) /\ skipped' = Append(skipped, e)
               /\ calls' = frames /\ ToCome(calls)' = ToCome(frames)
               /\ UNCHANGED <<aligned, scratch, max_col, min_col, nl_seqnum>>
<1>1. Ids \subseteq Ids' /\ e.pc \in Ids'
  BY DEF AddStep
<1>2. Entries' = [pc : Ids', seqnum : Nat]
  BY DEF Entries
<1>3. Entries \subseteq Entries' /\ e \in Entries'
  BY <1>1, <1>2 DEF AddStep, Entries, Entry
<1>4. frames \in Seq(Frames) /\ (NoRestore(calls) => NoRestore(frames))
  BY DEF AddStep
<1>5. CASE Joined(e, item) /\ calls' = frames /\ UNCHANGED <<skipped, scratch>>
  <2>1. ToCome(calls)' = ToCome(frames)
    BY <1>5, SameToCome
  <2> QED
    BY <1>1, <1>3, <1>4, <1>5, <2>1
<1>6. CASE /\ Joined(e, item) /\ skipped # <<>> /\ skipped' = <<>> /\ scratch' = skipped
           /\ calls' = Append(frames, Loop(1))
  <2>1. scratch' \in Seq(Entries)
    BY <1>6 DEF BaseInv, TypeInv
  <2>2. /\ ToCome(calls)' = EntriesOf(scratch')
        /\ NoRestore(frames) => NoRestore(calls')
        /\ TopIs(calls', "ReAddSkipped")
    BY <1>4, <1>6, <2>1, LoopFromOne
  <2> QED
    BY <1>1, <1>3, <1>4, <1>6, <2>2
<1>7. CASE /\ ~WithinThreshold(item) /\ skipped' = Append(skipped, e) /\ calls' = frames
           /\ UNCHANGED <<aligned, scratch, max_col, min_col, nl_seqnum>>
  <2>1. ToCome(calls)' = ToCome(frames)
    BY <1>7, SameToCome
  <2> QED
    BY <1>1, <1>3, <1>4, <1>7, <2>1
<1> QED
  BY <1>5, <1>6, <1>7, AddedOutcome

LEMMA AddKeepsBase ==
  ASSUME BaseInv, NEW e, NEW item, NEW frames, AddStep(e, item, frames)
  PROVE  TypeInv' /\ ModeInv'
<1> DEFINE endcol == item.tight + Bump(item)
<1>1. /\ config' = config /\ seqnum' = seqnum /\ gap' = gap /\ skip_first' = skip_first /\ groups' = groups
      /\ column' = [k \in DOMAIN column \cup {e.pc} |-> IF k = e.pc THEN item.tight ELSE column[k]]
  BY DEF AddStep, Added
<1>2. TypeInv /\ LoopInv /\ ModeInv
  BY DEF BaseInv
<1>3. /\ Entries \subseteq Entries' /\ e \in Entries' /\ e.seqnum \in Nat
      /\ NoRestore(calls) => NoRestore(calls')
  BY AddedEntries DEF AddStep
<1>4. item.tight \in Nat /\ item.tight > 0 /\ item.room \in Nat /\ config.thresh \in Nat /\ gap \in Nat
  BY <1>2, ConfigFields DEF AddStep
<1>5. endcol \in Nat /\ endcol > 0
  BY <1>4 DEF Bump
<1>6. column' \in [Ids' -> Nat]
  <2>1. column \in [Ids -> Nat] /\ Ids' = Ids \cup {e.pc}
    BY <1>2 DEF TypeInv, AddStep
  <2> QED
    BY <1>1, <1>4, <2>1
<1>7. /\ aligned \in Seq(Entries') /\ skipped \in Seq(Entries') /\ scratch \in Seq(Entries')
      /\ \A g \in groups : g \in Seq(Entries')
  BY <1>2, <1>3, SeqMonotonic DEF TypeInv
<1>8. /\ config' \in Configs /\ items' \in Seq(config'.shapes)
      /\ seqnum' \in Nat /\ gap' \in {config'.gap, 1} /\ skip_first' \in BOOLEAN
      /\ \A g \in groups' : g \in Seq(Entries')
  BY <1>1, <1>2, <1>7 DEF TypeInv, AddStep
<1>9. /\ place # "done" /\ place' # "done" /\ (place' = "empty" => seqnum > 0)
      /\ ~WithinThreshold(item) => e.seqnum > 0
  BY DEF AddStep
<1>10. /\ max_col \in Nat /\ min_col \in Nat /\ nl_seqnum \in Nat
  BY <1>2 DEF TypeInv
<1>11. ASSUME Joined(e, item)
       PROVE  /\ aligned' \in Seq(Entries') /\ aligned' # <<>>
              /\ max_col' \in Nat /\ max_col' # 0 /\ min_col' \in Nat /\ nl_seqnum' \in Nat
  <2>1. aligned' \in Seq(Entries') /\ aligned' # <<>>
    BY <1>3, <1>7, <1>11, EntriesOfAppend DEF Joined
  <2>2. nl_seqnum' \in Nat
    BY <1>3, <1>10, <1>11, MaxOfTwo DEF Joined
  <2>3. max_col' = MaxOf({max_col, endcol}) /\ min_col' = IF endcol < min_col THEN endcol ELSE min_col
    BY <1>11 DEF Joined
  <2> HIDE DEF endcol
  <2>4. max_col' = IF max_col <= endcol THEN endcol ELSE max_col
    BY <1>5, <1>10, <2>3, MaxOfTwo
  <2> QED
    BY <1>5, <1>10, <2>1, <2>2, <2>3, <2>4
<1>12. /\ config.thresh > 0 => ~skip_first /\ NoRestore(calls)
       /\ config.thresh > 0 => (max_col = 0 <=> aligned = <<>>)
       /\ config.thresh = 0 => skipped = <<>> /\ scratch = <<>>
       /\ \A d \in EntriesOf(skipped) \cup EntriesOf(scratch) : d.seqnum > 0
  BY <1>2, <1>9 DEF ModeInv
<1> HIDE DEF endcol
<1>13. CASE /\ Joined(e, item) /\ calls' = frames
            /\ UNCHANGED <<skipped, scratch>> /\ ToCome(calls)' = ToCome(frames)
  <2>1. TypeInv'
    BY <1>6, <1>7, <1>8, <1>11, <1>13 DEF TypeInv
  <2>2. ModeInv'
    BY <1>1, <1>3, <1>9, <1>11, <1>12, <1>13 DEF ModeInv, EntriesOf
  <2> QED
    BY <2>1, <2>2
<1>14. CASE /\ Joined(e, item) /\ skipped' = <<>> /\ scratch' = skipped
            /\ TopIs(calls', "ReAddSkipped")
            /\ ToCome(calls)' = EntriesOf(skipped)
  <2>1. <<>> \in Seq(Entries')
    BY EmptySeq
  <2>2. TypeInv'
    BY <1>6, <1>7, <1>8, <1>11, <1>14, <2>1 DEF TypeInv
  <2>3. /\ EntriesOf(skipped)' = {}
        /\ \A d \in EntriesOf(scratch)' : d.seqnum > 0
    BY <1>12, <1>14, NoEntries DEF EntriesOf
  <2>4. ModeInv'
    BY <1>1, <1>3, <1>9, <1>11, <1>12, <1>14, <2>3 DEF ModeInv
  <2> QED
    BY <2>2, <2>4
<1>15. CASE /\ ~WithinThreshold(item) /\ skipped' = Append(skipped, e)
            /\ calls' = frames /\ ToCome(calls)' = ToCome(frames)
            /\ UNCHANGED <<aligned, scratch, max_col, min_col, nl_seqnum>>
  <2>1. config.thresh > 0 /\ aligned # <<>>
    BY <1>9, <1>15, NotWithin
  <2>2. skipped' \in Seq(Entries') /\ EntriesOf(skipped') = EntriesOf(skipped) \cup {e}
    BY <1>3, <1>7, <1>15, EntriesOfAppend
  <2>3. TypeInv'
    BY <1>6, <1>7, <1>8, <1>10, <1>15, <2>2 DEF TypeInv
  <2>4. \A d \in EntriesOf(skipped)' \cup EntriesOf(scratch)' : d.seqnum > 0
    <3>1. EntriesOf(skipped)' = EntriesOf(skipped) \cup {e} /\ EntriesOf(scratch)' = EntriesOf(scratch)
      BY <1>15, <2>2 DEF EntriesOf
    <3> QED
      BY <1>9, <1>12, <1>15, <3>1
  <2>5. config.thresh # 0
    BY <1>4, <2>1
  <2>6. ModeInv'
    BY <1>1, <1>3, <1>9, <1>12, <1>15, <2>1, <2>4, <2>5 DEF ModeInv
  <2> QED
    BY <2>3, <2>6
<1> QED
  BY <1>13, <1>14, <1>15, AddedEntries

\* The first entry is dropped and the rest is flushed again.
Dropped ==
  /\ config.thresh = 0
  /\ aligned' = Tail(aligned)
  /\ skip_first' = FALSE
  /\ max_col' = TargetColumn
  /\ TopIs(calls', "Flush") /\ ToCome(calls)' = {}
  /\ UNCHANGED <<column, skipped, scratch, min_col, nl_seqnum, groups>>

\* The group is moved; candidates among the skipped are added again.
Moved ==
  /\ column' = [k \in DOMAIN column |->
                  IF k \in IdsOf(aligned) THEN TargetColumn - Adjust(k) ELSE column[k]]
  /\ groups' = groups \cup {aligned}
  /\ aligned' = <<>> /\ skipped' = <<>>
  /\ min_col' = Infinity /\ max_col' = 0
  /\ nl_seqnum' = IF skipped = <<>> THEN seqnum' ELSE nl_seqnum
  /\ \/ scratch' = scratch /\ ToCome(calls)' = {}
     \/ \E last : /\ scratch' = StillCandidates(last)
                  /\ ToCome(calls)' = EntriesOf(scratch')
  /\ NoRestore(calls) => NoRestore(calls')
  /\ UNCHANGED skip_first

LEMMA FlushOutcome ==
  ASSUME BaseInv, NEW frames, FlushStep(frames)
  PROVE  gap' = GapOfFlush /\ (Dropped \/ Moved)
<1>1. /\ gap' = GapOfFlush
      /\ \/ skip_first /\ DropFirst(TargetColumn, frames)
         \/ MoveToColumn(TargetColumn, seqnum', frames)
  <2>1. Flush(seqnum', frames)
    BY DEF FlushStep
  <2> QED
    BY <2>1 DEF Flush
<1>2. frames \in Seq(Frames) /\ ToCome(frames) = {} /\ (NoRestore(calls) => NoRestore(frames))
  BY DEF FlushStep, Under
<1>3. skipped \in Seq(Entries)
  BY DEF BaseInv, TypeInv
<1>4. CASE skip_first /\ DropFirst(TargetColumn, frames)
  <2> DEFINE mid == Append(frames, Restore)
  <2>1. Restore \in Frames /\ Rest \in Frames /\ Rest.fn = "Flush"
    BY DEF Restore, Rest, Frames
  <2>2. mid \in Seq(Frames)
    BY <1>2, <2>1, EntriesOfAppend
  <2>3. calls' = Append(mid, Rest)
    <3>1. calls' = frames \o <<Restore, Rest>>
      BY <1>4 DEF DropFirst
    <3> QED
      BY <1>2, <2>1, <3>1
  <2> HIDE DEF mid
  <2>4. calls' # <<>> /\ calls'[Len(calls')] = Rest
    <3>1. /\ Append(mid, Rest) # <<>> /\ Len(mid) \in Nat /\ Len(Append(mid, Rest)) = Len(mid) + 1
          /\ Append(mid, Rest)[Len(mid) + 1] = Rest
      BY <2>1, <2>2, EntriesOfAppend
    <3> QED
      BY <2>3, <3>1
  <2>5. TopIs(calls', "Flush") /\ ToCome(calls)' = {}
    BY <2>1, <2>4 DEF TopIs, ToCome
  <2>6. config.thresh = 0
    BY <1>4, ConfigFields DEF BaseInv, ModeInv
  <2>7. Dropped
    BY <1>4, <2>5, <2>6 DEF DropFirst, Dropped
  <2> QED
    BY <1>1, <2>7
<1>5. CASE MoveToColumn(TargetColumn, seqnum', frames)
  <2> DEFINE last == aligned[Len(aligned)].seqnum
  <2>1. /\ column' = [k \in DOMAIN column |->
                        IF k \in IdsOf(aligned) THEN TargetColumn - Adjust(k) ELSE column[k]]
        /\ groups' = groups \cup {aligned}
        /\ aligned' = <<>> /\ min_col' = Infinity /\ max_col' = 0 /\ UNCHANGED skip_first
    BY <1>5 DEF MoveToColumn
  <2>2. \/ /\ skipped = <<>> /\ nl_seqnum' = seqnum' /\ calls' = frames /\ UNCHANGED <<skipped, scratch>>
        \/ /\ skipped # <<>> /\ nl_seqnum' = nl_seqnum
           /\ ReAddSkipped(StillCandidates(last), frames)
    BY <1>5 DEF MoveToColumn
  <2> HIDE DEF last
  <2>3. CASE /\ skipped = <<>> /\ nl_seqnum' = seqnum' /\ calls' = frames /\ UNCHANGED <<skipped, scratch>>
    <3>1. ToCome(calls)' = {}
      BY <1>2, <2>3, SameToCome
    <3>2. Moved
      BY <1>2, <2>1, <2>3, <3>1 DEF Moved
    <3> QED
      BY <1>1, <3>2
  <2>4. CASE /\ skipped # <<>> /\ nl_seqnum' = nl_seqnum
             /\ ReAddSkipped(StillCandidates(last), frames)
    <3>1. CASE StillCandidates(last) = <<>>
      <4>1. skipped' = <<>> /\ calls' = frames /\ scratch' = scratch
        BY <2>4, <3>1 DEF ReAddSkipped
      <4>2. ToCome(calls)' = {}
        BY <1>2, <4>1, SameToCome
      <4>3. Moved
        BY <1>2, <2>1, <2>4, <4>1, <4>2 DEF Moved
      <4> QED
        BY <1>1, <4>3
    <3>2. CASE StillCandidates(last) # <<>>
      <4>1. skipped' = <<>> /\ calls' = Append(frames, Loop(1)) /\ scratch' = StillCandidates(last)
        BY <2>4, <3>2 DEF ReAddSkipped
      <4>2. scratch' \in Seq(Entries)
        BY <1>3, <4>1, StillCandidatesEntries
      <4>3. /\ ToCome(calls)' = EntriesOf(scratch')
            /\ NoRestore(frames) => NoRestore(calls')
        BY <1>2, <4>1, <4>2, LoopFromOne
      <4>4. Moved
        BY <1>2, <2>1, <2>4, <4>1, <4>3 DEF Moved
      <4> QED
        BY <1>1, <4>4
    <3> QED
      BY <3>1, <3>2
  <2> QED
    BY <2>2, <2>3, <2>4
<1> QED
  BY <1>1, <1>4, <1>5

LEMMA GapAfterFlush ==
  ASSUME BaseInv, NEW frames, FlushStep(frames)
  PROVE  gap' \in {gap, 1} /\ gap' \in Nat /\ gap' \in {config.gap, 1}
<1>1. gap' \in {gap, 1}
  BY FlushOutcome DEF GapOfFlush
<1> QED
  BY <1>1, ConfigFields DEF BaseInv, TypeInv

LEMMA IdsOfEntries ==
  ASSUME NEW s \in Seq(Entries)
  PROVE  IdsOf(s) \subseteq Ids
<1>1. EntriesOf(s) \subseteq Entries /\ IdsOf(s) = {d.pc : d \in EntriesOf(s)}
  BY EntryOf
<1>2. \A d \in EntriesOf(s) : d.pc \in Ids
  BY <1>1 DEF Entries
<1> QED
  BY <1>1, <1>2

LEMMA MovedColumns ==
  ASSUME BaseInv, NEW frames, FlushStep(frames), Moved
  PROVE  \A p \in IdsOf(aligned) :
           /\ p \in Ids /\ Adjust(p) \in Nat /\ column[p] \in Nat /\ TargetColumn \in Nat
           /\ column'[p] = TargetColumn - Adjust(p)
           /\ column'[p] \in Nat
           /\ column'[p] >= column[p] + (IF items[p].room < gap' THEN gap' - items[p].room ELSE 0)
<1>1. TypeInv /\ gap' \in Nat /\ aligned # <<>>
  BY GapAfterFlush DEF BaseInv, FlushStep
<1>2. TargetColumn \in Nat /\ \A p \in IdsOf(aligned) : Need(p) <= TargetColumn
  BY <1>1, TargetAtLeast
<1>3. IdsOf(aligned) \subseteq Ids
  BY <1>1, IdsOfEntries DEF TypeInv
<1>4. SUFFICES ASSUME NEW p \in IdsOf(aligned)
               PROVE  /\ p \in Ids /\ Adjust(p) \in Nat /\ column[p] \in Nat /\ TargetColumn \in Nat
                      /\ column'[p] = TargetColumn - Adjust(p)
                      /\ column'[p] \in Nat
                      /\ column'[p] >= column[p] + (IF items[p].room < gap' THEN gap' - items[p].room ELSE 0)
  OBVIOUS
<1>5. p \in Ids /\ p \in DOMAIN column
  BY <1>1, <1>3, <1>4 DEF TypeInv
<1>6. Need(p) \in Nat /\ Adjust(p) \in Nat /\ column[p] \in Nat /\ items[p].room \in Nat
  BY <1>1, <1>5, NeedType, ItemFields, ConfigFields
<1>7. column'[p] = TargetColumn - Adjust(p)
  BY <1>4, <1>5 DEF Moved
<1>8. Need(p) <= TargetColumn
  BY <1>2, <1>4
<1> DEFINE grown == IF items[p].room < gap' THEN gap' - items[p].room ELSE 0
<1>9. grown \in Nat /\ Need(p) = column[p] + Adjust(p) + grown
  BY <1>1, <1>6 DEF Need
<1>10. column'[p] \in Nat /\ column'[p] >= column[p] + grown
  <2> HIDE DEF grown
  <2> QED
    BY <1>2, <1>6, <1>7, <1>8, <1>9
<1> QED
  BY <1>2, <1>5, <1>6, <1>7, <1>10

LEMMA FlushKeepsBase ==
  ASSUME BaseInv, NEW frames, FlushStep(frames)
  PROVE  TypeInv' /\ ModeInv'
<1>1. /\ config' = config /\ items' = items /\ seqnum' \in Nat
      /\ place' = "empty" => seqnum' > 0
      /\ place' # "done" /\ aligned # <<>>
  BY DEF FlushStep
<1>2. TypeInv /\ LoopInv /\ ModeInv
  BY DEF BaseInv
<1>3. Ids' = Ids /\ Entries' = Entries
  BY <1>1 DEF Ids, Entries
<1>4. gap' \in {config.gap, 1} /\ gap' \in Nat
  BY GapAfterFlush
<1>5. TargetColumn \in Nat
  BY <1>1, <1>2, <1>4, TargetAtLeast
<1>6. config.thresh \in Nat /\ Infinity \in Nat
  BY <1>2, ConfigFields
<1>7. CASE Dropped
  <2>1. aligned' \in Seq(Entries)
    BY <1>1, <1>2, <1>7, HeadTailProperties DEF TypeInv, Dropped
  <2>2. TypeInv'
    BY <1>1, <1>2, <1>3, <1>4, <1>5, <1>7, <2>1 DEF TypeInv, Dropped
  <2>3. skipped' = <<>> /\ scratch' = <<>> /\ calls' # <<>> /\ config'.thresh = 0
    BY <1>1, <1>2, <1>7 DEF ModeInv, Dropped, TopIs
  <2>4. EntriesOf(skipped)' = {} /\ EntriesOf(scratch)' = {}
    BY <2>3, NoEntries DEF EntriesOf
  <2>5. ModeInv'
    BY <1>1, <1>6, <2>3, <2>4 DEF ModeInv
  <2> QED
    BY <2>2, <2>5
<1>8. CASE Moved
  <2>1. column' \in [Ids -> Nat]
    <3>1. \A p \in IdsOf(aligned) : TargetColumn - Adjust(p) \in Nat
      BY <1>8, MovedColumns
    <3>2. column \in [Ids -> Nat]
      BY <1>2 DEF TypeInv
    <3> QED
      BY <1>8, <3>1, <3>2 DEF Moved
  <2>2. scratch' \in Seq(Entries) /\ \A d \in EntriesOf(scratch') : d.seqnum > 0
    <3>1. skipped \in Seq(Entries) /\ scratch \in Seq(Entries)
      BY <1>2 DEF TypeInv
    <3>2. \A d \in EntriesOf(skipped) \cup EntriesOf(scratch) : d.seqnum > 0
      BY <1>2 DEF ModeInv
    <3>3. CASE scratch' = scratch
      BY <3>1, <3>2, <3>3
    <3>4. ASSUME NEW last, scratch' = StillCandidates(last)
          PROVE  scratch' \in Seq(Entries) /\ EntriesOf(scratch') \subseteq EntriesOf(skipped)
      BY <3>1, <3>4, StillCandidatesEntries
    <3> QED
      BY <1>8, <3>2, <3>3, <3>4 DEF Moved
  <2>3. nl_seqnum' \in Nat
    BY <1>1, <1>2, <1>8 DEF Moved, TypeInv
  <2>4. \A g \in groups' : g \in Seq(Entries)
    BY <1>2, <1>8 DEF Moved, TypeInv
  <2>5. <<>> \in Seq(Entries)
    BY EmptySeq
  <2>6. TypeInv'
    BY <1>1, <1>2, <1>3, <1>4, <1>6, <1>8, <2>1, <2>2, <2>3, <2>4, <2>5 DEF TypeInv, Moved
  <2>7. aligned' = <<>> /\ skipped' = <<>> /\ max_col' = 0 /\ skip_first' = skip_first
    BY <1>8 DEF Moved
  <2>8. config.thresh = 0 => scratch' = <<>>
    <3>1. SUFFICES ASSUME config.thresh = 0
                   PROVE  scratch' = <<>>
      OBVIOUS
    <3>2. scratch = <<>> /\ skipped = <<>> /\ skipped \in Seq(Entries)
      BY <1>2, <3>1 DEF ModeInv, TypeInv
    <3>3. ASSUME NEW last, scratch' = StillCandidates(last)
          PROVE  scratch' = <<>>
      <4>1. EntriesOf(scratch') \subseteq {}
        BY <3>2, <3>3, StillCandidatesEntries, NoEntries
      <4> QED
        BY <2>2, <4>1, EntryOf DEF EntriesOf
    <3> QED
      BY <1>8, <3>2, <3>3 DEF Moved
  <2>9. EntriesOf(skipped)' = {} /\ EntriesOf(scratch)' = EntriesOf(scratch')
    BY <2>7, NoEntries DEF EntriesOf
  <2>10. config.thresh > 0 => ~skip_first /\ NoRestore(calls')
    BY <1>2, <1>8 DEF Moved, ModeInv
  <2>11. NoRestore(calls)' = NoRestore(calls')
    BY DEF NoRestore
  <2>12. ModeInv'
    BY <1>1, <1>6, <2>2, <2>7, <2>8, <2>9, <2>10, <2>11 DEF ModeInv
  <2> QED
    BY <2>6, <2>12
<1> QED
  BY <1>7, <1>8, FlushOutcome

LEMMA QuietKeepsBase ==
  ASSUME BaseInv, QuietStep
  PROVE  TypeInv' /\ ModeInv'
<1>1. /\ UNCHANGED <<config, items, column, scratch, groups, max_col, min_col, nl_seqnum, gap>>
      /\ seqnum' \in Nat
      /\ \/ UNCHANGED <<aligned, skipped>> /\ (place' = "done" <=> place = "done")
         \/ aligned' = <<>> /\ skipped' = <<>> /\ place' = "done"
      /\ skip_first' \in BOOLEAN /\ (config.thresh > 0 => ~skip_first')
      /\ NoRestore(calls) => NoRestore(calls')
      /\ place' = "done" => calls' = <<>>
      /\ place' = "empty" /\ (aligned' # <<>> \/ calls' # <<>>) => seqnum' > 0
  BY DEF QuietStep
<1>2. TypeInv /\ ModeInv
  BY DEF BaseInv
<1>3. Ids' = Ids /\ Entries' = Entries
  BY <1>1 DEF Ids, Entries
<1>4. <<>> \in Seq(Entries)
  BY EmptySeq
<1>5. TypeInv'
  BY <1>1, <1>2, <1>3, <1>4 DEF TypeInv
<1>6. EntriesOf(scratch)' = EntriesOf(scratch) /\ NoRestore(calls)' = NoRestore(calls')
  BY <1>1 DEF EntriesOf, NoRestore
<1>7. CASE UNCHANGED <<aligned, skipped>> /\ (place' = "done" <=> place = "done")
  <2>1. EntriesOf(skipped)' = EntriesOf(skipped)
    BY <1>7 DEF EntriesOf
  <2> QED
    BY <1>1, <1>2, <1>5, <1>6, <1>7, <2>1 DEF ModeInv
<1>8. CASE aligned' = <<>> /\ skipped' = <<>> /\ place' = "done"
  <2>1. EntriesOf(skipped)' = {}
    BY <1>8, NoEntries DEF EntriesOf
  <2> QED
    BY <1>1, <1>2, <1>5, <1>6, <1>8, <2>1 DEF ModeInv
<1> QED
  BY <1>1, <1>7, <1>8

LEMMA BaseInvKept ==
  ASSUME BaseInv, [Next]_vars
  PROVE  BaseInv'
<1>1. LoopInv'
  BY StepInOrder DEF BaseInv
<1>2. TypeInv' /\ ModeInv'
  BY Steps, AddKeepsBase, FlushKeepsBase, QuietKeepsBase
<1> QED
  BY <1>1, <1>2 DEF BaseInv

LEMMA InitBase ==
  ASSUME Init
  PROVE  BaseInv
<1>1. /\ config \in Configs /\ items = <<>> /\ column = <<>>
      /\ aligned = <<>> /\ skipped = <<>> /\ scratch = <<>>
      /\ max_col = 0 /\ min_col = Infinity /\ seqnum = 0 /\ nl_seqnum = 0
      /\ gap = config.gap /\ skip_first = FALSE /\ calls = <<>> /\ place = "empty" /\ groups = {}
  BY DEF Init
<1>2. \A S : <<>> \in Seq(S)
  BY EmptySeq
<1>3. Ids = {}
  BY <1>1, EmptyIsSeq DEF Ids
<1>4. column \in [Ids -> Nat]
  BY <1>1, <1>3
<1>5. TypeInv
  BY <1>1, <1>2, <1>4, BoundsAssumption DEF TypeInv
<1>6. ModeInv
  BY <1>1, EmptyIsSeq, NoEntries DEF ModeInv, NoRestore
<1>7. LoopInv
  BY InitLoop
<1> QED
  BY <1>5, <1>6, <1>7 DEF BaseInv

\* The members of the stack have their types, and: nothing is skipped without a
\* threshold, nothing is dropped with one, and an item that is put back has
\* the number of a line.
THEOREM BaseIsInvariant == Spec => []BaseInv
<1>1. Init => BaseInv
  BY InitBase
<1>2. BaseInv /\ [Next]_vars => BaseInv'
  BY BaseInvKept
<1> QED
  BY <1>1, <1>2, PTL DEF Spec

-----------------------------------------------------------------------------
(* An item is in one place                                                 *)

WaitingIn(frames) == {d.pc : d \in ToCome(frames)}

\* The stacks have each of their items once, and none in common; m_scratch only
\* counts from where its loop is.
PlaceInv ==
  /\ Distinct(aligned) /\ Distinct(skipped) /\ Distinct(scratch)
  /\ \A g \in groups : Distinct(g)
  /\ IdsOf(aligned) \cap IdsOf(skipped) = {}
  /\ (IdsOf(aligned) \cup IdsOf(skipped)) \cap WaitingIn(calls) = {}
  /\ (IdsOf(aligned) \cup IdsOf(skipped) \cup WaitingIn(calls)) \cap Grouped = {}
  /\ \A g, h \in groups : g # h => IdsOf(g) \cap IdsOf(h) = {}

LEMMA DistinctAppend ==
  ASSUME NEW S, NEW s \in Seq(S), NEW e \in S, Distinct(s), e.pc \notin IdsOf(s)
  PROVE  Distinct(Append(s, e))
<1> DEFINE t == Append(s, e)
<1>1. /\ Len(s) \in Nat /\ DOMAIN s = 1 .. Len(s) /\ DOMAIN t = 1 .. Len(s) + 1
      /\ \A k \in 1 .. Len(s) : t[k] = s[k]
      /\ t[Len(s) + 1] = e
  BY EntriesOfAppend
<1> HIDE DEF t
<1>2. \A k \in 1 .. Len(s) : s[k].pc # e.pc
  BY <1>1 DEF IdsOf
<1>3. ASSUME NEW j \in DOMAIN t, NEW k \in DOMAIN t, t[j].pc = t[k].pc
      PROVE  j = k
  <2>1. CASE j \in 1 .. Len(s) /\ k \in 1 .. Len(s)
    BY <1>1, <1>3, <2>1 DEF Distinct
  <2>2. CASE j = Len(s) + 1 /\ k \in 1 .. Len(s)
    BY <1>1, <1>2, <1>3, <2>2
  <2>3. CASE k = Len(s) + 1 /\ j \in 1 .. Len(s)
    BY <1>1, <1>2, <1>3, <2>3
  <2>4. CASE k = Len(s) + 1 /\ j = Len(s) + 1
    BY <2>4
  <2> QED
    BY <1>1, <2>1, <2>2, <2>3, <2>4
<1> QED
  BY <1>3 DEF Distinct, t

LEMMA DistinctTail ==
  ASSUME NEW S, NEW s \in Seq(S), s # <<>>, Distinct(s)
  PROVE  Distinct(Tail(s)) /\ IdsOf(Tail(s)) \subseteq IdsOf(s)
<1> DEFINE t == Tail(s)
<1>1. /\ t \in Seq(S) /\ Len(t) = Len(s) - 1
      /\ \A k \in 1 .. Len(t) : t[k] = s[k + 1]
  BY HeadTailProperties
<1>2. DOMAIN t = 1 .. Len(t) /\ Len(t) \in Nat /\ DOMAIN s = 1 .. Len(s) /\ Len(s) \in Nat
  BY <1>1, LenProperties
<1> HIDE DEF t
<1>3. \A k \in 1 .. Len(t) : k + 1 \in DOMAIN s
  BY <1>1, <1>2
<1>4. ASSUME NEW j \in DOMAIN t, NEW k \in DOMAIN t, t[j].pc = t[k].pc
      PROVE  j = k
  <2>1. j + 1 = k + 1
    BY <1>1, <1>2, <1>3, <1>4 DEF Distinct
  <2> QED
    BY <1>2, <2>1
<1>5. IdsOf(t) \subseteq IdsOf(s)
  BY <1>1, <1>2, <1>3 DEF IdsOf
<1> QED
  BY <1>4, <1>5 DEF Distinct, t

LEMMA DistinctCandidates ==
  ASSUME NEW S, skipped \in Seq(S), Distinct(skipped), NEW last
  PROVE  Distinct(StillCandidates(last))
<1> DEFINE r == StillCandidates(last)
<1>1. PICK f \in [DOMAIN r -> DOMAIN skipped] :
        /\ \A i, j \in DOMAIN r : f[i] = f[j] => i = j
        /\ \A i \in DOMAIN r : r[i] = skipped[f[i]]
  BY StillCandidatesFrom
<1> HIDE DEF r
<1>2. ASSUME NEW i \in DOMAIN r, NEW j \in DOMAIN r, r[i].pc = r[j].pc
      PROVE  i = j
  <2>1. f[i] \in DOMAIN skipped /\ f[j] \in DOMAIN skipped
    BY <1>1
  <2>2. skipped[f[i]].pc = skipped[f[j]].pc
    BY <1>1, <1>2
  <2>3. f[i] = f[j]
    BY <2>1, <2>2 DEF Distinct
  <2> QED
    BY <1>1, <2>3
<1> QED
  BY <1>2 DEF Distinct, r

LEMMA DistinctCount ==
  ASSUME NEW S, NEW s \in Seq(S), Distinct(s)
  PROVE  Cardinality(IdsOf(s)) = Len(s)
<1> DEFINE n == Len(s)
           f == [k \in 1 .. n |-> s[k].pc]
<1>1. n \in Nat /\ DOMAIN s = 1 .. n
  BY LenProperties
<1> HIDE DEF n
<1>2. IsFiniteSet(1 .. n) /\ Cardinality(1 .. n) = IF 1 > n THEN 0 ELSE n - 1 + 1
  BY <1>1, FS_Interval
<1>3. f \in [1 .. n -> IdsOf(s)]
  BY <1>1 DEF IdsOf
<1>4. \A i, j \in 1 .. n : f[i] = f[j] => i = j
  BY <1>1 DEF Distinct
<1>5. \A p \in IdsOf(s) : \E k \in 1 .. n : f[k] = p
  BY <1>1 DEF IdsOf
<1>6. f \in Bijection(1 .. n, IdsOf(s))
  <2> HIDE DEF f
  <2> QED
    BY <1>3, <1>4, <1>5 DEF Bijection, Injection, Surjection, IsInjective
<1>7. ExistsBijection(1 .. n, IdsOf(s))
  BY <1>6 DEF ExistsBijection
<1>8. Cardinality(IdsOf(s)) = Cardinality(1 .. n)
  BY <1>2, <1>7, FS_Bijection
<1> QED
  BY <1>1, <1>2, <1>8 DEF n

LEMMA WaitingAre ==
  ASSUME BaseInv
  PROVE  /\ Waiting = WaitingIn(calls)
         /\ WaitingIn(calls) \subseteq Ids
         /\ IdsOf(aligned) \subseteq Ids /\ IdsOf(skipped) \subseteq Ids
         /\ Grouped \subseteq Ids
<1>1. /\ aligned \in Seq(Entries) /\ skipped \in Seq(Entries) /\ scratch \in Seq(Entries)
      /\ \A g \in groups : g \in Seq(Entries)
      /\ calls \in Seq(Frames)
  BY DEF BaseInv, TypeInv, LoopInv
<1>2. IdsOf(aligned) \subseteq Ids /\ IdsOf(skipped) \subseteq Ids /\ \A g \in groups : IdsOf(g) \subseteq Ids
  BY <1>1, IdsOfEntries
<1>3. Grouped \subseteq Ids
  BY <1>2 DEF Grouped
<1>4. CASE TopIs(calls, "ReAddSkipped")
  <2>1. Len(calls) \in 1 .. Len(calls)
    BY <1>1, <1>4, EmptySeq, LenProperties DEF TopIs
  <2>2. Index \in Nat /\ Index > Len(skipped) /\ Len(skipped) \in Nat
    BY <1>1, <1>4, <2>1, FrameFields, SeqLength DEF Index, BaseInv, LoopInv, Above, TopIs
  <2>3. Waiting = {scratch[k].pc : k \in Index .. Len(scratch)}
    BY <1>4 DEF Waiting, Running, TopIs
  <2>4. ToCome(calls) = {scratch[k] : k \in Index .. Len(scratch)}
    BY <1>4 DEF ToCome, Index
  <2>5. Waiting = WaitingIn(calls)
    BY <2>3, <2>4 DEF WaitingIn
  <2>6. DOMAIN scratch = 1 .. Len(scratch) /\ Len(scratch) \in Nat
    BY <1>1, LenProperties
  <2>7. \A k \in Index .. Len(scratch) : scratch[k].pc \in Ids
    <3>1. \A k \in Index .. Len(scratch) : scratch[k] \in Entries
      BY <1>1, <2>2, <2>6, ElementOfSeq
    <3> QED
      BY <3>1 DEF Entries
  <2> QED
    BY <1>2, <1>3, <2>3, <2>5, <2>7
<1>5. CASE ~TopIs(calls, "ReAddSkipped")
  <2>1. Waiting = {} /\ ToCome(calls) = {}
    BY <1>5 DEF Waiting, Running, TopIs, ToCome
  <2> QED
    BY <1>2, <1>3, <2>1 DEF WaitingIn
<1> QED
  BY <1>4, <1>5

\* The item that is added is not in one of the other places.
LEMMA AddedIsNowhere ==
  ASSUME BaseInv, PlaceInv, NEW e, NEW item, NEW frames, AddStep(e, item, frames)
  PROVE  e.pc \notin IdsOf(aligned) /\ e.pc \notin IdsOf(skipped) /\ e.pc \notin Grouped
<1>1. CASE e \in ToCome(calls)
  <2>1. e.pc \in WaitingIn(calls)
    BY <1>1 DEF WaitingIn
  <2> QED
    BY <2>1 DEF PlaceInv
<1>2. CASE e.pc \notin Ids
  BY <1>2, WaitingAre
<1> QED
  BY <1>1, <1>2 DEF AddStep

LEMMA AddKeepsPlaces ==
  ASSUME BaseInv, PlaceInv, NEW e, NEW item, NEW frames, AddStep(e, item, frames)
  PROVE  PlaceInv'
<1> DEFINE W == WaitingIn(calls)
           A == IdsOf(aligned)
           S == IdsOf(skipped)
<1>1. groups' = groups /\ Grouped' = Grouped
  BY DEF AddStep, Added, Grouped, IdsOf
<1>2. aligned \in Seq(Entries') /\ skipped \in Seq(Entries') /\ e \in Entries'
  BY AddedEntries, SeqMonotonic DEF BaseInv, TypeInv
<1>3. WaitingIn(frames) \subseteq W /\ e.pc \notin WaitingIn(frames)
  <2>1. Distinct(scratch) /\ ToCome(frames) \subseteq ToCome(calls)
    BY DEF PlaceInv, AddStep
  <2>2. \A d \in ToCome(frames) : d.pc # e.pc
    BY <2>1 DEF AddStep
  <2> QED
    BY <2>1, <2>2 DEF WaitingIn
<1>4. e.pc \notin A /\ e.pc \notin S /\ e.pc \notin Grouped
  BY AddedIsNowhere
<1>5. /\ Distinct(aligned) /\ Distinct(skipped) /\ Distinct(scratch)
      /\ A \cap S = {} /\ (A \cup S) \cap W = {} /\ (A \cup S \cup W) \cap Grouped = {}
      /\ \A g \in groups : Distinct(g)
      /\ \A g, h \in groups : g # h => IdsOf(g) \cap IdsOf(h) = {}
  BY DEF PlaceInv
<1>6. ASSUME Joined(e, item)
      PROVE  Distinct(aligned') /\ IdsOf(aligned') = A \cup {e.pc}
  <2>1. aligned' = Append(aligned, e)
    BY <1>6 DEF Joined
  <2> QED
    BY <1>2, <1>4, <1>5, <2>1, EntriesOfAppend, DistinctAppend
<1> HIDE DEF W, A, S
<1>7. /\ \A g \in groups' : Distinct(g)
      /\ \A g, h \in groups' : g # h => IdsOf(g) \cap IdsOf(h) = {}
  BY <1>1, <1>5
<1> DEFINE Goal(a, s, w, r) ==
             /\ Distinct(a) /\ Distinct(s) /\ Distinct(r)
             /\ IdsOf(a) \cap IdsOf(s) = {}
             /\ (IdsOf(a) \cup IdsOf(s)) \cap w = {}
             /\ (IdsOf(a) \cup IdsOf(s) \cup w) \cap Grouped = {}
<1>8. Goal(aligned', skipped', WaitingIn(calls)', scratch') => PlaceInv'
  BY <1>1, <1>7 DEF PlaceInv, Distinct, IdsOf
<1>9. CASE /\ Joined(e, item) /\ calls' = frames
           /\ UNCHANGED <<skipped, scratch>> /\ ToCome(calls)' = ToCome(frames)
  <2>1. WaitingIn(calls)' = WaitingIn(frames)
    BY <1>9 DEF WaitingIn
  <2>2. IdsOf(skipped') = S
    BY <1>9 DEF S
  <2>3. Goal(aligned', skipped', WaitingIn(calls)', scratch')
    BY <1>3, <1>4, <1>5, <1>6, <1>9, <2>1, <2>2
  <2> QED
    BY <1>8, <2>3
<1>10. CASE /\ Joined(e, item) /\ skipped' = <<>> /\ scratch' = skipped
            /\ TopIs(calls', "ReAddSkipped")
            /\ ToCome(calls)' = EntriesOf(skipped)
  <2>1. WaitingIn(calls)' = S
    <3>1. skipped \in Seq(Entries)
      BY DEF BaseInv, TypeInv
    <3>2. S = {d.pc : d \in EntriesOf(skipped)}
      BY <3>1, EntryOf DEF S
    <3> QED
      BY <1>10, <3>2 DEF WaitingIn
  <2>2. IdsOf(skipped') = {} /\ Distinct(skipped')
    BY <1>10, NoEntries DEF Distinct
  <2>3. Goal(aligned', skipped', WaitingIn(calls)', scratch')
    BY <1>4, <1>5, <1>6, <1>10, <2>1, <2>2
  <2> QED
    BY <1>8, <2>3
<1>11. CASE /\ ~WithinThreshold(item) /\ skipped' = Append(skipped, e)
            /\ calls' = frames /\ ToCome(calls)' = ToCome(frames)
            /\ UNCHANGED <<aligned, scratch, max_col, min_col, nl_seqnum>>
  <2>1. WaitingIn(calls)' = WaitingIn(frames)
    BY <1>11 DEF WaitingIn
  <2>2. Distinct(skipped') /\ IdsOf(skipped') = S \cup {e.pc}
    BY <1>2, <1>4, <1>5, <1>11, EntriesOfAppend, DistinctAppend DEF S
  <2>3. IdsOf(aligned') = A /\ Distinct(aligned')
    BY <1>5, <1>11 DEF A
  <2>4. Goal(aligned', skipped', WaitingIn(calls)', scratch')
    BY <1>3, <1>4, <1>5, <1>11, <2>1, <2>2, <2>3
  <2> QED
    BY <1>8, <2>4
<1> QED
  BY <1>9, <1>10, <1>11, AddedEntries

LEMMA FlushKeepsPlaces ==
  ASSUME BaseInv, PlaceInv, NEW frames, FlushStep(frames)
  PROVE  PlaceInv'
<1>1. /\ Distinct(aligned) /\ Distinct(skipped) /\ Distinct(scratch)
      /\ IdsOf(aligned) \cap IdsOf(skipped) = {}
      /\ (IdsOf(aligned) \cup IdsOf(skipped)) \cap WaitingIn(calls) = {}
      /\ (IdsOf(aligned) \cup IdsOf(skipped) \cup WaitingIn(calls)) \cap Grouped = {}
      /\ \A g \in groups : Distinct(g)
      /\ \A g, h \in groups : g # h => IdsOf(g) \cap IdsOf(h) = {}
  BY DEF PlaceInv
<1>2. aligned \in Seq(Entries) /\ skipped \in Seq(Entries) /\ aligned # <<>>
  BY DEF BaseInv, TypeInv, FlushStep
<1>3. CASE Dropped
  <2>1. Distinct(aligned') /\ IdsOf(aligned') \subseteq IdsOf(aligned)
    BY <1>1, <1>2, <1>3, DistinctTail DEF Dropped
  <2>2. UNCHANGED <<skipped, scratch, groups>> /\ ToCome(calls)' = {}
    BY <1>3 DEF Dropped
  <2>3. WaitingIn(calls)' = {} /\ Grouped' = Grouped /\ IdsOf(skipped') = IdsOf(skipped)
    BY <2>2 DEF WaitingIn, Grouped, IdsOf
  <2>4. /\ IdsOf(aligned') \cap IdsOf(skipped') = {}
        /\ (IdsOf(aligned') \cup IdsOf(skipped')) \cap Grouped' = {}
    BY <1>1, <2>1, <2>3
  <2>5. IdsOf(aligned)' = IdsOf(aligned') /\ IdsOf(skipped)' = IdsOf(skipped')
    BY DEF IdsOf
  <2>6. Distinct(aligned)' /\ Distinct(skipped)' /\ Distinct(scratch)'
    BY <1>1, <2>1, <2>2 DEF Distinct
  <2> QED
    BY <1>1, <2>2, <2>3, <2>4, <2>5, <2>6 DEF PlaceInv
<1>4. CASE Moved
  <2>1. aligned' = <<>> /\ skipped' = <<>> /\ groups' = groups \cup {aligned}
    BY <1>4 DEF Moved
  <2>2. WaitingIn(calls)' \subseteq IdsOf(skipped) /\ Distinct(scratch)'
    <3>1. CASE scratch' = scratch /\ ToCome(calls)' = {}
      BY <1>1, <3>1 DEF WaitingIn, Distinct
    <3>2. ASSUME NEW last, scratch' = StillCandidates(last), ToCome(calls)' = EntriesOf(scratch')
          PROVE  WaitingIn(calls)' \subseteq IdsOf(skipped) /\ Distinct(scratch)'
      <4>1. EntriesOf(scratch') \subseteq EntriesOf(skipped)
        BY <1>2, <3>2, StillCandidatesEntries
      <4>2. IdsOf(skipped) = {d.pc : d \in EntriesOf(skipped)}
        BY <1>2, EntryOf
      <4>3. Distinct(scratch')
        BY <1>1, <1>2, <3>2, DistinctCandidates
      <4>4. Distinct(scratch)' = Distinct(scratch')
        BY DEF Distinct
      <4> QED
        BY <3>2, <4>1, <4>2, <4>3, <4>4 DEF WaitingIn
    <3> QED
      BY <1>4, <3>1, <3>2 DEF Moved
  <2>3. Grouped' = Grouped \cup IdsOf(aligned)
    BY <2>1 DEF Grouped, IdsOf
  <2>4. IdsOf(aligned)' = {} /\ IdsOf(skipped)' = {} /\ Distinct(aligned)' /\ Distinct(skipped)'
    BY <2>1, NoEntries DEF IdsOf, Distinct
  <2>5. WaitingIn(calls)' \cap Grouped' = {}
    BY <1>1, <2>2, <2>3
  <2>6. \A g \in groups' : Distinct(g)
    BY <1>1, <2>1
  <2>7. \A g \in groups : IdsOf(g) \subseteq Grouped
    BY DEF Grouped
  <2>8. \A g, h \in groups' : g # h => IdsOf(g) \cap IdsOf(h) = {}
    <3>1. SUFFICES ASSUME NEW g \in groups', NEW h \in groups', g # h
                   PROVE  IdsOf(g) \cap IdsOf(h) = {}
      OBVIOUS
    <3>2. CASE g \in groups /\ h \in groups
      BY <1>1, <3>1, <3>2
    <3>3. CASE g \in groups /\ h = aligned
      BY <1>1, <2>7, <3>3
    <3>4. CASE h \in groups /\ g = aligned
      BY <1>1, <2>7, <3>4
    <3> QED
      BY <2>1, <3>1, <3>2, <3>3, <3>4
  <2> QED
    BY <2>2, <2>4, <2>5, <2>6, <2>8 DEF PlaceInv
<1> QED
  BY <1>3, <1>4, FlushOutcome

LEMMA QuietKeepsPlaces ==
  ASSUME PlaceInv, QuietStep
  PROVE  PlaceInv'
<1>1. UNCHANGED <<scratch, groups>> /\ ToCome(calls)' \subseteq ToCome(calls)
  BY DEF QuietStep
<1>2. WaitingIn(calls)' \subseteq WaitingIn(calls) /\ Grouped' = Grouped
  BY <1>1 DEF WaitingIn, Grouped, IdsOf
<1>3. Distinct(scratch)' = Distinct(scratch)
  BY <1>1 DEF Distinct
<1>4. CASE UNCHANGED <<aligned, skipped>>
  <2>1. /\ IdsOf(aligned)' = IdsOf(aligned) /\ IdsOf(skipped)' = IdsOf(skipped)
        /\ Distinct(aligned)' = Distinct(aligned) /\ Distinct(skipped)' = Distinct(skipped)
    BY <1>4 DEF IdsOf, Distinct
  <2>2. /\ (IdsOf(aligned)' \cup IdsOf(skipped)') \cap WaitingIn(calls)' = {}
        /\ (IdsOf(aligned)' \cup IdsOf(skipped)' \cup WaitingIn(calls)') \cap Grouped' = {}
    BY <1>2, <2>1 DEF PlaceInv
  <2> QED
    BY <1>1, <1>3, <2>1, <2>2 DEF PlaceInv
<1>5. CASE aligned' = <<>> /\ skipped' = <<>>
  <2>1. IdsOf(aligned)' = {} /\ IdsOf(skipped)' = {} /\ Distinct(aligned)' /\ Distinct(skipped)'
    BY <1>5, NoEntries DEF IdsOf, Distinct
  <2>2. WaitingIn(calls)' \cap Grouped' = {}
    BY <1>2 DEF PlaceInv
  <2> QED
    BY <1>1, <1>3, <2>1, <2>2 DEF PlaceInv
<1> QED
  BY <1>4, <1>5 DEF QuietStep

LEMMA PlaceInvGives ==
  ASSUME BaseInv, PlaceInv
  PROVE  InOnePlace
<1>1. /\ aligned \in Seq(Entries) /\ skipped \in Seq(Entries)
      /\ \A g \in groups : g \in Seq(Entries)
  BY DEF BaseInv, TypeInv
<1>2. \A s \in {aligned, skipped} \cup groups : Cardinality(IdsOf(s)) = Len(s)
  BY <1>1, DistinctCount DEF PlaceInv
<1>3. Waiting = WaitingIn(calls)
  BY WaitingAre
<1> QED
  BY <1>2, <1>3 DEF PlaceInv, InOnePlace

\* However deep Add(), ReAddSkipped() and Flush() call one another, an item is
\* in one place and there once: aligned, skipped, still to be added again, or
\* in one of the groups that were moved.
THEOREM StaysInOnePlace == Spec => []InOnePlace
<1> DEFINE Inv == BaseInv /\ PlaceInv
<1>1. Init => Inv
  <2>1. SUFFICES ASSUME Init PROVE Inv
    OBVIOUS
  <2>2. aligned = <<>> /\ skipped = <<>> /\ scratch = <<>> /\ groups = {} /\ calls = <<>>
    BY <2>1 DEF Init
  <2>3. \A s : s = <<>> => IdsOf(s) = {} /\ Distinct(s)
    BY NoEntries DEF Distinct
  <2>4. Grouped = {}
    BY <2>2 DEF Grouped
  <2>5. PlaceInv
    BY <2>2, <2>3, <2>4 DEF PlaceInv
  <2> QED
    BY <2>1, <2>5, InitBase
<1>2. Inv /\ [Next]_vars => Inv'
  <2>1. SUFFICES ASSUME Inv, [Next]_vars PROVE Inv'
    OBVIOUS
  <2>2. PlaceInv'
    BY <2>1, Steps, AddKeepsPlaces, FlushKeepsPlaces, QuietKeepsPlaces
  <2> QED
    BY <2>1, <2>2, BaseInvKept
<1>3. Inv => InOnePlace
  BY PlaceInvGives
<1> QED
  BY <1>1, <1>2, <1>3, PTL DEF Spec

-----------------------------------------------------------------------------
(* A group is in one column                                                *)

\* What is in no group stands where Add() has put it.
TightInv == \A p \in Ids : p \notin Grouped => column[p] = Tight(p)

Placing == BaseInv /\ PlaceInv /\ TightInv

\* What a step leaves of an item that is in a group already.
GroupedStay ==
  /\ config' = config
  /\ \A p \in Grouped : p \in Ids /\ column'[p] = column[p] /\ items'[p] = items[p]

LEMMA AddLeavesGrouped ==
  ASSUME BaseInv, PlaceInv, NEW e, NEW item, NEW frames, AddStep(e, item, frames)
  PROVE  GroupedStay /\ groups' = groups /\ gap' = gap
<1>1. /\ config' = config /\ groups' = groups /\ gap' = gap
      /\ column' = [k \in DOMAIN column \cup {e.pc} |-> IF k = e.pc THEN item.tight ELSE column[k]]
  BY DEF AddStep, Added
<1>2. SUFFICES ASSUME NEW p \in Grouped
               PROVE  p \in Ids /\ column'[p] = column[p] /\ items'[p] = items[p]
  BY <1>1 DEF GroupedStay
<1>3. p \in Ids /\ p # e.pc
  BY WaitingAre, AddedIsNowhere
<1>4. p \in DOMAIN column
  BY <1>3 DEF BaseInv, TypeInv
<1>5. items'[p] = items[p]
  BY <1>3 DEF AddStep
<1> QED
  BY <1>1, <1>3, <1>4, <1>5

LEMMA AddKeepsTight ==
  ASSUME Placing, NEW e, NEW item, NEW frames, AddStep(e, item, frames)
  PROVE  TightInv'
<1>1. /\ Grouped' = Grouped
      /\ column' = [k \in DOMAIN column \cup {e.pc} |-> IF k = e.pc THEN item.tight ELSE column[k]]
  BY DEF AddStep, Added, Grouped, IdsOf
<1>2. Ids' = Ids \cup {e.pc} /\ items'[e.pc] = item /\ \A p \in Ids : items'[p] = items[p]
  BY DEF AddStep
<1>3. SUFFICES ASSUME NEW p \in Ids', p \notin Grouped
               PROVE  column'[p] = items'[p].tight
  BY <1>1 DEF TightInv, Tight
<1>4. DOMAIN column = Ids
  BY DEF Placing, BaseInv, TypeInv
<1>5. CASE p = e.pc
  BY <1>1, <1>2, <1>5
<1>6. CASE p # e.pc
  <2>1. p \in Ids
    BY <1>2, <1>3, <1>6
  <2>2. column'[p] = column[p] /\ items'[p] = items[p]
    BY <1>1, <1>2, <1>4, <1>6, <2>1
  <2>3. column[p] = items[p].tight
    BY <1>3, <2>1 DEF Placing, TightInv, Tight
  <2> QED
    BY <2>2, <2>3
<1> QED
  BY <1>5, <1>6

LEMMA FlushKeepsTight ==
  ASSUME Placing, NEW frames, FlushStep(frames)
  PROVE  TightInv' /\ GroupedStay
<1>1. config' = config /\ items' = items /\ Ids' = Ids
  BY DEF FlushStep, Ids
<1>2. DOMAIN column = Ids /\ Grouped \subseteq Ids
  BY WaitingAre DEF Placing, BaseInv, TypeInv
<1>3. CASE Dropped
  <2>1. column' = column /\ Grouped' = Grouped
    BY <1>3 DEF Dropped, Grouped, IdsOf
  <2> QED
    BY <1>1, <1>2, <2>1 DEF TightInv, Tight, Placing, GroupedStay
<1>4. CASE Moved
  <2>1. /\ column' = [k \in DOMAIN column |->
                        IF k \in IdsOf(aligned) THEN TargetColumn - Adjust(k) ELSE column[k]]
        /\ groups' = groups \cup {aligned}
    BY <1>4 DEF Moved
  <2>2. Grouped' = Grouped \cup IdsOf(aligned)
    BY <2>1 DEF Grouped, IdsOf
  <2>3. \A p \in Ids : p \notin IdsOf(aligned) => column'[p] = column[p]
    BY <1>2, <2>1
  <2>4. TightInv'
    BY <1>1, <2>2, <2>3 DEF TightInv, Tight, Placing
  <2>5. IdsOf(aligned) \cap Grouped = {}
    BY DEF Placing, PlaceInv
  <2> QED
    BY <1>1, <1>2, <2>3, <2>4, <2>5 DEF GroupedStay
<1> QED
  BY <1>3, <1>4, FlushOutcome DEF Placing

LEMMA QuietKeepsTight ==
  ASSUME Placing, QuietStep
  PROVE  TightInv' /\ GroupedStay
<1>1. UNCHANGED <<config, items, column, groups>>
  BY DEF QuietStep
<1>2. Ids' = Ids /\ Grouped' = Grouped /\ Grouped \subseteq Ids
  BY <1>1, WaitingAre DEF Ids, Grouped, IdsOf, Placing
<1> QED
  BY <1>1, <1>2 DEF TightInv, Tight, Placing, GroupedStay

LEMMA InitPlacing ==
  ASSUME Init
  PROVE  Placing
<1>1. /\ aligned = <<>> /\ skipped = <<>> /\ scratch = <<>> /\ groups = {} /\ calls = <<>>
      /\ items = <<>>
  BY DEF Init
<1>2. \A s : s = <<>> => IdsOf(s) = {} /\ Distinct(s)
  BY NoEntries DEF Distinct
<1>3. Grouped = {}
  BY <1>1 DEF Grouped
<1>4. PlaceInv
  BY <1>1, <1>2, <1>3 DEF PlaceInv
<1>5. Ids = {}
  BY <1>1, EmptyIsSeq DEF Ids
<1> QED
  BY <1>4, <1>5, InitBase DEF Placing, TightInv

LEMMA PlacingKept ==
  ASSUME Placing, [Next]_vars
  PROVE  Placing'
<1>1. BaseInv /\ PlaceInv
  BY DEF Placing
<1>2. PlaceInv'
  BY <1>1, Steps, AddKeepsPlaces, FlushKeepsPlaces, QuietKeepsPlaces
<1>3. TightInv'
  BY <1>1, Steps, AddKeepsTight, FlushKeepsTight, QuietKeepsTight
<1> QED
  BY <1>1, <1>2, <1>3, BaseInvKept DEF Placing

\* What OneColumn says of a group.
InColumn(g) ==
  \A p, q \in IdsOf(g) :
    /\ column[p] + Adjust(p) = column[q] + Adjust(q)
    /\ column[p] >= Tight(p)
    /\ gap = config.gap => column[p] - Tight(p) + items[p].room >= gap

LEMMA OldGroupInColumn ==
  ASSUME GroupedStay, NEW g \in groups, InColumn(g), gap' = config'.gap => gap = config.gap
  PROVE  InColumn(g)'
<1>1. SUFFICES ASSUME NEW p \in IdsOf(g), NEW q \in IdsOf(g)
               PROVE  /\ column'[p] + Adjust(p)' = column'[q] + Adjust(q)'
                      /\ column'[p] >= Tight(p)'
                      /\ gap' = config'.gap => column'[p] - Tight(p)' + items'[p].room >= gap'
  BY DEF InColumn, IdsOf
<1>2. p \in Grouped /\ q \in Grouped
  BY <1>1 DEF Grouped
<1>3. /\ config' = config
      /\ column'[p] = column[p] /\ items'[p] = items[p]
      /\ column'[q] = column[q] /\ items'[q] = items[q]
  BY <1>2 DEF GroupedStay
<1>4. Adjust(p)' = Adjust(p) /\ Adjust(q)' = Adjust(q) /\ Tight(p)' = Tight(p)
  BY <1>3 DEF Adjust, Tight
<1>5. /\ column[p] + Adjust(p) = column[q] + Adjust(q)
      /\ column[p] >= Tight(p)
      /\ gap = config.gap => column[p] - Tight(p) + items[p].room >= gap
  BY <1>1 DEF InColumn
<1>6. gap' = config'.gap => gap' = gap
  BY <1>3
<1> QED
  BY <1>3, <1>4, <1>5, <1>6

LEMMA NewGroupInColumn ==
  ASSUME Placing, NEW frames, FlushStep(frames), Moved, NEW g, g = aligned
  PROVE  InColumn(g)'
<1>1. config' = config /\ items' = items /\ gap' \in Nat
  BY GapAfterFlush DEF FlushStep, Placing
<1>2. SUFFICES ASSUME NEW p \in IdsOf(g), NEW q \in IdsOf(g)
               PROVE  /\ column'[p] + Adjust(p) = column'[q] + Adjust(q)
                      /\ column'[p] >= Tight(p)
                      /\ column'[p] - Tight(p) + items[p].room >= gap'
  BY <1>1 DEF InColumn, Adjust, Tight, IdsOf
<1>3. p \in IdsOf(aligned) /\ q \in IdsOf(aligned)
  BY <1>2
<1>4. /\ p \in Ids /\ Adjust(p) \in Nat /\ column[p] \in Nat /\ TargetColumn \in Nat
      /\ column'[p] = TargetColumn - Adjust(p) /\ column'[p] \in Nat
      /\ column'[p] >= column[p] + (IF items[p].room < gap' THEN gap' - items[p].room ELSE 0)
      /\ Adjust(q) \in Nat /\ column'[q] = TargetColumn - Adjust(q)
  BY <1>3, MovedColumns DEF Placing
<1>5. column[p] = Tight(p)
  <2>1. p \notin Grouped
    BY <1>3 DEF Placing, PlaceInv
  <2> QED
    BY <1>4, <2>1 DEF Placing, TightInv
<1>6. items[p].room \in Nat
  BY <1>4, ItemFields, ConfigFields DEF Placing, BaseInv
<1> QED
  BY <1>1, <1>4, <1>5, <1>6

LEMMA GapOfOptions ==
  ASSUME BaseInv, gap' \in {gap, 1}, config' = config, gap' = config'.gap
  PROVE  gap = config.gap
BY DEF BaseInv, TypeInv

LEMMA GroupsKeepColumn ==
  ASSUME Placing, [Next]_vars, \A g \in groups : InColumn(g)
  PROVE  \A g \in groups' : InColumn(g)'
<1>1. SUFFICES ASSUME NEW g \in groups'
               PROVE  InColumn(g)'
  OBVIOUS
<1>2. BaseInv /\ PlaceInv
  BY DEF Placing
<1>3. ASSUME GroupedStay, g \in groups, gap' \in {gap, 1}
      PROVE  InColumn(g)'
  BY <1>2, <1>3, OldGroupInColumn, GapOfOptions DEF GroupedStay
<1>4. ASSUME NEW e, NEW item, NEW frames, AddStep(e, item, frames)
      PROVE  InColumn(g)'
  BY <1>2, <1>3, <1>4, AddLeavesGrouped
<1>5. ASSUME NEW frames, FlushStep(frames)
      PROVE  InColumn(g)'
  <2>1. GroupedStay /\ gap' \in {gap, 1}
    BY <1>2, <1>5, FlushKeepsTight, GapAfterFlush
  <2>2. CASE g \in groups
    BY <1>3, <2>1, <2>2
  <2>3. CASE g \notin groups
    <3>1. Moved /\ g = aligned
      BY <1>2, <1>5, <2>3, FlushOutcome DEF Dropped, Moved
    <3> QED
      BY <1>5, <3>1, NewGroupInColumn
  <2> QED
    BY <2>2, <2>3
<1>6. CASE QuietStep
  <2>1. GroupedStay /\ gap' = gap /\ groups' = groups
    BY <1>6, QuietKeepsTight DEF QuietStep
  <2> QED
    BY <1>3, <2>1
<1> QED
  BY <1>2, <1>4, <1>5, <1>6, Steps

\* What was aligned stays aligned until the pass ends, with the gap of the
\* options.
THEOREM StaysInColumn == Spec => []OneColumn
<1> DEFINE Inv == Placing /\ \A g \in groups : InColumn(g)
<1>1. Init => Inv
  BY InitPlacing DEF Init
<1>2. Inv /\ [Next]_vars => Inv'
  BY PlacingKept, GroupsKeepColumn
<1>3. Inv => OneColumn
  BY DEF InColumn, OneColumn
<1> QED
  BY <1>1, <1>2, <1>3, PTL DEF Spec

-----------------------------------------------------------------------------
(* The newlines between the items of a group                               *)

Live == EntriesOf(aligned) \cup EntriesOf(skipped) \cup ToCome(calls)

\* The lines on which something is aligned, or will be with the group that is
\* being collected.
PlacedNow == Placed \cup {d.seqnum : d \in EntriesOf(aligned)}

\* From line a to line b there are never more than span newlines without one.
Bridged(a, b, lines) == \A n \in a .. b - 1 : \E m \in lines : n < m /\ m <= n + config.span

\* nl_seqnum is the last line on which something was aligned; every item that
\* can still be is bridged to it, and is not farther behind it than the span.
SpanInv ==
  /\ nl_seqnum <= seqnum
  /\ \A d \in Live : /\ d.seqnum <= seqnum /\ d.seqnum <= nl_seqnum + config.span
                     /\ Bridged(d.seqnum, nl_seqnum, PlacedNow)
  /\ \A d \in EntriesOf(aligned) : d.seqnum <= nl_seqnum
  /\ (calls = <<>> \/ TopIs(calls, "Restore")) /\ aligned # <<>> => seqnum <= nl_seqnum + config.span
  /\ config.thresh = 0 => \A j, k \in DOMAIN aligned : j <= k => aligned[j].seqnum <= aligned[k].seqnum

LEMMA LiveType ==
  ASSUME BaseInv
  PROVE  /\ \A d \in Live : d \in Entries /\ d.seqnum \in Nat
         /\ seqnum \in Nat /\ nl_seqnum \in Nat /\ config.span \in Nat /\ config.thresh \in Nat
         /\ aligned \in Seq(Entries) /\ skipped \in Seq(Entries)
<1>1. /\ aligned \in Seq(Entries) /\ skipped \in Seq(Entries) /\ scratch \in Seq(Entries)
      /\ seqnum \in Nat /\ nl_seqnum \in Nat /\ calls \in Seq(Frames)
  BY DEF BaseInv, TypeInv, LoopInv
<1>2. EntriesOf(aligned) \subseteq Entries /\ EntriesOf(skipped) \subseteq Entries
  BY <1>1, EntryOf
<1>3. ToCome(calls) \subseteq Entries
  <2>1. SUFFICES ASSUME TopIs(calls, "ReAddSkipped"), NEW k \in calls[Len(calls)].idx .. Len(scratch)
                 PROVE  scratch[k] \in Entries
    BY DEF ToCome
  <2>2. Len(calls) \in 1 .. Len(calls)
    BY <1>1, <2>1, EmptySeq, LenProperties DEF TopIs
  <2>3. calls[Len(calls)].idx \in Nat /\ calls[Len(calls)].idx > Len(skipped) /\ Len(skipped) \in Nat
    BY <1>1, <2>1, <2>2, FrameFields, SeqLength DEF BaseInv, LoopInv, Above, TopIs
  <2>4. k \in 1 .. Len(scratch)
    BY <1>1, <2>3, LenProperties
  <2> QED
    BY <1>1, <2>4, ElementOfSeq
<1>4. \A d \in Entries : d.seqnum \in Nat
  BY DEF Entries
<1> QED
  BY <1>1, <1>2, <1>3, <1>4, ConfigFields DEF Live, BaseInv

\* Where an entry that is added comes from.
LEMMA AddedIsNear ==
  ASSUME BaseInv, SpanInv, NEW e, NEW item, NEW frames, AddStep(e, item, frames)
  PROVE  /\ e.seqnum \in Nat /\ e.seqnum <= seqnum
         /\ Live = {} \/ e.seqnum <= nl_seqnum + config.span
         /\ e \in Live \/ e.seqnum >= nl_seqnum
         /\ ~WithinThreshold(item) => e.seqnum <= nl_seqnum + config.span
         /\ config.thresh = 0 => e.seqnum = seqnum
         /\ frames # <<>> => TopIs(frames, "ReAddSkipped")
         /\ frames = <<>> => calls = <<>> /\ e.seqnum = seqnum
<1>1. CASE e \in ToCome(calls) /\ TopIs(frames, "ReAddSkipped")
  <2>1. e \in Live
    BY <1>1 DEF Live
  <2>2. e.seqnum <= seqnum /\ e.seqnum <= nl_seqnum + config.span
    BY <2>1 DEF SpanInv
  <2>3. config.thresh # 0
    <3>1. SUFFICES ASSUME config.thresh = 0 PROVE FALSE
      OBVIOUS
    <3>2. e \in EntriesOf(scratch)
      <4>1. scratch = <<>> /\ LoopInv /\ TopIs(calls, "ReAddSkipped")
        BY <1>1, <3>1 DEF BaseInv, ModeInv, ToCome
      <4>2. Len(calls) \in 1 .. Len(calls)
        BY <4>1, EmptySeq, LenProperties DEF TopIs, LoopInv
      <4>3. calls[Len(calls)].idx \in Nat /\ calls[Len(calls)].idx > Len(skipped) /\ Len(skipped) \in Nat
        BY <4>1, <4>2, FrameFields, SeqLength DEF LoopInv, Above, TopIs
      <4>4. calls[Len(calls)].idx .. Len(scratch) = {}
        BY <4>1, <4>3, NoEntries
      <4> QED
        BY <1>1, <4>4 DEF ToCome
    <3> QED
      BY <3>1, <3>2, NoEntries DEF BaseInv, ModeInv
  <2> QED
    BY <1>1, <2>1, <2>2, <2>3 DEF AddStep, TopIs
<1>2. CASE e.pc \notin Ids /\ e.seqnum = seqnum /\ calls = <<>> /\ frames = <<>>
  <2>1. aligned = <<>> => Live = {}
    BY <1>2, NoEntries, NoneToCome DEF Live, BaseInv, ModeInv
  <2>2. aligned # <<>> => e.seqnum <= nl_seqnum + config.span
    BY <1>2 DEF SpanInv
  <2>3. e.seqnum \in Nat /\ e.seqnum >= nl_seqnum /\ e.seqnum <= seqnum
    BY <1>2, LiveType DEF SpanInv
  <2>4. ~WithinThreshold(item) => aligned # <<>>
    BY NotWithin DEF AddStep
  <2> QED
    BY <1>2, <2>1, <2>2, <2>3, <2>4
<1> QED
  BY <1>1, <1>2 DEF AddStep

\* What is placed stays placed while an item is added.
LEMMA AddedPlaced ==
  ASSUME BaseInv, NEW e, NEW item, NEW frames, AddStep(e, item, frames)
  PROVE  /\ config' = config /\ seqnum' = seqnum /\ groups' = groups
         /\ PlacedNow \subseteq PlacedNow'
         /\ Joined(e, item) => /\ e.seqnum \in PlacedNow'
                               /\ EntriesOf(aligned)' = EntriesOf(aligned) \cup {e}
         /\ Live' \subseteq Live \cup {e}
<1>1. config' = config /\ seqnum' = seqnum /\ groups' = groups
  BY DEF AddStep, Added
<1>2. Placed' = Placed
  BY <1>1 DEF Placed
<1>3. ASSUME Joined(e, item)
      PROVE  EntriesOf(aligned') = EntriesOf(aligned) \cup {e}
  <2>1. aligned \in Seq(Entries') /\ e \in Entries'
    BY AddedEntries, SeqMonotonic DEF BaseInv, TypeInv
  <2> QED
    BY <1>3, <2>1, EntriesOfAppend DEF Joined
<1>4. EntriesOf(aligned)' = EntriesOf(aligned') /\ EntriesOf(skipped)' = EntriesOf(skipped')
  BY DEF EntriesOf
<1>5. ToCome(frames) \subseteq ToCome(calls)
  BY DEF AddStep
<1>6. CASE /\ Joined(e, item) /\ calls' = frames
           /\ UNCHANGED <<skipped, scratch>> /\ ToCome(calls)' = ToCome(frames)
  BY <1>1, <1>2, <1>3, <1>4, <1>5, <1>6 DEF Live, PlacedNow
<1>7. CASE /\ Joined(e, item) /\ skipped' = <<>> /\ scratch' = skipped
           /\ TopIs(calls', "ReAddSkipped")
           /\ ToCome(calls)' = EntriesOf(skipped)
  BY <1>1, <1>2, <1>3, <1>4, <1>7, NoEntries DEF Live, PlacedNow
<1>8. CASE /\ ~WithinThreshold(item) /\ skipped' = Append(skipped, e)
           /\ calls' = frames /\ ToCome(calls)' = ToCome(frames)
           /\ UNCHANGED <<aligned, scratch, max_col, min_col, nl_seqnum>>
  <2>1. skipped \in Seq(Entries') /\ e \in Entries'
    BY AddedEntries, SeqMonotonic DEF BaseInv, TypeInv
  <2>2. EntriesOf(skipped') = EntriesOf(skipped) \cup {e}
    BY <1>8, <2>1, EntriesOfAppend
  <2>3. EntriesOf(aligned') = EntriesOf(aligned)
    BY <1>8
  <2>4. ~Joined(e, item)
    BY <1>8 DEF Joined
  <2> QED
    BY <1>1, <1>2, <1>4, <1>5, <1>8, <2>2, <2>3, <2>4 DEF Live, PlacedNow
<1> QED
  BY <1>6, <1>7, <1>8, AddedEntries

LEMMA AddKeepsSpan ==
  ASSUME BaseInv, SpanInv, NEW e, NEW item, NEW frames, AddStep(e, item, frames)
  PROVE  SpanInv'
<1>1. /\ config' = config /\ seqnum' = seqnum /\ PlacedNow \subseteq PlacedNow'
      /\ Live' \subseteq Live \cup {e}
  BY AddedPlaced
<1>2. /\ \A d \in Live : d.seqnum \in Nat
      /\ seqnum \in Nat /\ nl_seqnum \in Nat /\ config.span \in Nat /\ config.thresh \in Nat
      /\ aligned \in Seq(Entries)
  BY LiveType
<1>3. /\ e.seqnum \in Nat /\ e.seqnum <= seqnum
      /\ Live = {} \/ e.seqnum <= nl_seqnum + config.span
      /\ e \in Live \/ e.seqnum >= nl_seqnum
      /\ ~WithinThreshold(item) => e.seqnum <= nl_seqnum + config.span
      /\ config.thresh = 0 => e.seqnum = seqnum
      /\ frames # <<>> => TopIs(frames, "ReAddSkipped")
      /\ frames = <<>> => calls = <<>> /\ e.seqnum = seqnum
  BY AddedIsNear
<1>4. /\ nl_seqnum <= seqnum
      /\ \A d \in Live : /\ d.seqnum <= seqnum /\ d.seqnum <= nl_seqnum + config.span
                         /\ Bridged(d.seqnum, nl_seqnum, PlacedNow)
      /\ \A d \in EntriesOf(aligned) : d.seqnum <= nl_seqnum
  BY DEF SpanInv
<1>5. (calls' = <<>> \/ TopIs(calls', "Restore")) => calls = <<>> /\ calls' = frames /\ e.seqnum = seqnum
  BY <1>3, AddedEntries DEF TopIs
<1>6. CASE Joined(e, item)
  <2>1. nl_seqnum' = IF nl_seqnum <= e.seqnum THEN e.seqnum ELSE nl_seqnum
    <3>1. nl_seqnum' = MaxOf({nl_seqnum, e.seqnum})
      BY <1>6 DEF Joined
    <3>2. nl_seqnum \in Int /\ e.seqnum \in Int
      BY <1>2, <1>3
    <3> QED
      BY <3>1, <3>2, MaxOfTwo
  <2>2. nl_seqnum' \in Nat /\ nl_seqnum' >= nl_seqnum /\ nl_seqnum' >= e.seqnum /\ nl_seqnum' <= seqnum
    BY <1>2, <1>3, <1>4, <2>1
  <2>3. e.seqnum \in PlacedNow' /\ EntriesOf(aligned)' = EntriesOf(aligned) \cup {e}
    BY <1>6, AddedPlaced
  <2>4. ASSUME NEW d \in Live
        PROVE  Bridged(d.seqnum, nl_seqnum', PlacedNow')
    <3>1. SUFFICES ASSUME NEW n \in d.seqnum .. nl_seqnum' - 1
                   PROVE  \E m \in PlacedNow' : n < m /\ m <= n + config.span
      BY DEF Bridged
    <3>2. d.seqnum \in Nat /\ n \in Nat
      BY <1>2, <2>2, <2>4
    <3>3. CASE n < nl_seqnum
      <4>1. n \in d.seqnum .. nl_seqnum - 1
        BY <1>2, <2>2, <3>2, <3>3
      <4>2. PICK m \in PlacedNow : n < m /\ m <= n + config.span
        BY <1>4, <2>4, <4>1 DEF Bridged
      <4> QED
        BY <1>1, <4>2
    <3>4. CASE n >= nl_seqnum
      <4>1. nl_seqnum' = e.seqnum /\ n < e.seqnum
        BY <1>2, <1>3, <2>1, <2>2, <3>1, <3>2, <3>4
      <4>2. e.seqnum <= n + config.span
        BY <1>2, <1>3, <2>4, <3>2, <3>4
      <4> QED
        BY <2>3, <4>1, <4>2
    <3> QED
      BY <1>2, <3>2, <3>3, <3>4
  <2>5. e \notin Live => Bridged(e.seqnum, nl_seqnum', PlacedNow')
    <3>1. SUFFICES ASSUME e \notin Live, NEW n \in e.seqnum .. nl_seqnum' - 1
                   PROVE  FALSE
      BY DEF Bridged
    <3>2. nl_seqnum' = e.seqnum
      BY <1>2, <1>3, <2>1, <3>1
    <3> QED
      BY <1>3, <3>1, <3>2
  <2>6. \A d \in Live' : /\ d.seqnum <= seqnum' /\ d.seqnum <= nl_seqnum' + config'.span
                         /\ Bridged(d.seqnum, nl_seqnum', PlacedNow')
    <3>1. SUFFICES ASSUME NEW d \in Live'
                   PROVE  /\ d.seqnum <= seqnum /\ d.seqnum <= nl_seqnum' + config.span
                          /\ Bridged(d.seqnum, nl_seqnum', PlacedNow')
      BY <1>1
    <3>2. CASE d \in Live
      BY <1>2, <1>4, <2>2, <2>4, <3>2
    <3>3. CASE d = e /\ e \notin Live
      BY <1>2, <1>3, <2>2, <2>5, <3>3
    <3> QED
      BY <1>1, <3>2, <3>3
  <2>7. \A d \in EntriesOf(aligned)' : d.seqnum <= nl_seqnum'
    <3>1. \A d \in EntriesOf(aligned) : d.seqnum \in Nat /\ d.seqnum <= nl_seqnum
      BY <1>2, <1>4 DEF Live
    <3> QED
      BY <1>2, <2>2, <2>3, <3>1
  <2>8. config.thresh = 0 => \A j, k \in DOMAIN aligned' : j <= k => aligned'[j].seqnum <= aligned'[k].seqnum
    <3>1. SUFFICES ASSUME config.thresh = 0, NEW j \in DOMAIN aligned', NEW k \in DOMAIN aligned', j <= k
                   PROVE  aligned'[j].seqnum <= aligned'[k].seqnum
      OBVIOUS
    <3>2. aligned \in Seq(Entries') /\ e \in Entries'
      BY AddedEntries, SeqMonotonic DEF BaseInv, TypeInv
    <3>3. /\ Len(aligned) \in Nat /\ DOMAIN aligned = 1 .. Len(aligned)
          /\ DOMAIN aligned' = 1 .. Len(aligned) + 1
          /\ \A i \in 1 .. Len(aligned) : aligned'[i] = aligned[i]
          /\ aligned'[Len(aligned) + 1] = e
      BY <1>6, <3>2, EntriesOfAppend DEF Joined
    <3>4. CASE k \in 1 .. Len(aligned)
      <4>1. j \in 1 .. Len(aligned)
        BY <3>1, <3>3, <3>4
      <4> QED
        BY <3>1, <3>3, <3>4, <4>1 DEF SpanInv
    <3>5. CASE k = Len(aligned) + 1
      <4>1. aligned'[k].seqnum = seqnum
        BY <1>3, <3>1, <3>3, <3>5
      <4>2. CASE j \in 1 .. Len(aligned)
        <5>1. aligned[j] \in Live
          BY <3>3, <4>2 DEF Live, EntriesOf
        <5> QED
          BY <1>4, <3>3, <4>1, <4>2, <5>1
      <4>3. CASE j = k
        BY <1>2, <4>1, <4>3
      <4> QED
        BY <3>1, <3>3, <3>5, <4>2, <4>3
    <3> QED
      BY <3>3, <3>4, <3>5
  <2>9. (calls' = <<>> \/ TopIs(calls', "Restore")) => seqnum <= nl_seqnum' + config.span
    BY <1>2, <1>5, <2>2
  <2> QED
    BY <1>1, <2>2, <2>6, <2>7, <2>8, <2>9 DEF SpanInv, TopIs, Bridged
<1>7. CASE ~Joined(e, item)
  <2>1. ~WithinThreshold(item) /\ UNCHANGED <<aligned, nl_seqnum>>
    BY <1>7, AddedEntries
  <2>2. Bridged(e.seqnum, nl_seqnum, PlacedNow)
    <3>1. CASE e \in Live
      BY <1>4, <3>1
    <3>2. CASE e.seqnum >= nl_seqnum
      <4>1. e.seqnum .. nl_seqnum - 1 = {}
        BY <1>2, <1>3, <3>2
      <4> QED
        BY <4>1 DEF Bridged
    <3> QED
      BY <1>3, <3>1, <3>2
  <2>3. \A a, b : Bridged(a, b, PlacedNow) => Bridged(a, b, PlacedNow')
    BY <1>1 DEF Bridged
  <2>4. \A d \in Live' : /\ d.seqnum <= seqnum /\ d.seqnum <= nl_seqnum + config.span
                         /\ Bridged(d.seqnum, nl_seqnum, PlacedNow')
    BY <1>1, <1>3, <1>4, <2>1, <2>2, <2>3
  <2>5. EntriesOf(aligned)' = EntriesOf(aligned)
    BY <2>1 DEF EntriesOf
  <2>6. (calls' = <<>> \/ TopIs(calls', "Restore")) /\ aligned # <<>> => seqnum <= nl_seqnum + config.span
    BY <1>5 DEF SpanInv
  <2> QED
    BY <1>1, <1>4, <2>1, <2>4, <2>5, <2>6 DEF SpanInv, TopIs, Bridged
<1> QED
  BY <1>6, <1>7

LEMMA FlushKeepsSpan ==
  ASSUME BaseInv, SpanInv, NEW frames, FlushStep(frames)
  PROVE  SpanInv'
<1>1. config' = config /\ seqnum' \in Nat /\ seqnum' >= seqnum /\ aligned # <<>>
  BY DEF FlushStep
<1>2. /\ \A d \in Live : d.seqnum \in Nat
      /\ seqnum \in Nat /\ nl_seqnum \in Nat /\ config.span \in Nat /\ config.thresh \in Nat
      /\ aligned \in Seq(Entries) /\ skipped \in Seq(Entries)
  BY LiveType
<1>3. /\ nl_seqnum <= seqnum
      /\ \A d \in Live : /\ d.seqnum <= seqnum /\ d.seqnum <= nl_seqnum + config.span
                         /\ Bridged(d.seqnum, nl_seqnum, PlacedNow)
      /\ \A d \in EntriesOf(aligned) : d.seqnum <= nl_seqnum
  BY DEF SpanInv
<1>4. CASE Dropped
  <2>1. /\ config.thresh = 0 /\ aligned' = Tail(aligned) /\ TopIs(calls', "Flush") /\ ToCome(calls)' = {}
        /\ UNCHANGED <<skipped, nl_seqnum, groups>>
    BY <1>4 DEF Dropped
  <2>2. /\ DOMAIN aligned = 1 .. Len(aligned) /\ Len(aligned) \in Nat
        /\ DOMAIN aligned' = 1 .. Len(aligned) - 1
        /\ \A k \in 1 .. Len(aligned) - 1 : aligned'[k] = aligned[k + 1]
    <3>1. /\ Tail(aligned) \in Seq(Entries) /\ Len(Tail(aligned)) = Len(aligned) - 1
          /\ \A k \in 1 .. Len(Tail(aligned)) : Tail(aligned)[k] = aligned[k + 1]
      BY <1>1, <1>2, HeadTailProperties
    <3> QED
      BY <1>2, <2>1, <3>1, LenProperties
  <2>3. skipped = <<>>
    BY <2>1 DEF BaseInv, ModeInv
  <2>4. EntriesOf(aligned)' = {aligned[k + 1] : k \in 1 .. Len(aligned) - 1}
    BY <2>2 DEF EntriesOf
  <2>5. EntriesOf(skipped)' = {}
    BY <2>1, <2>3, NoEntries DEF EntriesOf
  <2>6. \A k \in 1 .. Len(aligned) - 1 : k + 1 \in DOMAIN aligned
    BY <2>2
  <2>7. Live' = EntriesOf(aligned)' /\ EntriesOf(aligned)' \subseteq EntriesOf(aligned)
    BY <2>1, <2>4, <2>5, <2>6 DEF Live, EntriesOf
  <2>8. \A j, k \in DOMAIN aligned : j <= k => aligned[j].seqnum <= aligned[k].seqnum
    BY <2>1 DEF SpanInv
  <2>9. Placed' = Placed
    BY <2>1 DEF Placed
  <2>10. ASSUME NEW d \in Live'
         PROVE  Bridged(d.seqnum, nl_seqnum, PlacedNow')
    <3>1. PICK i \in 1 .. Len(aligned) - 1 : d = aligned[i + 1]
      BY <2>4, <2>7, <2>10
    <3>2. 1 \in DOMAIN aligned /\ i + 1 \in DOMAIN aligned /\ 1 <= i + 1
      BY <2>2, <2>6, <3>1
    <3>3. aligned[1].seqnum <= d.seqnum
      BY <2>8, <3>1, <3>2
    <3>4. SUFFICES ASSUME NEW n \in d.seqnum .. nl_seqnum - 1
                   PROVE  \E m \in PlacedNow' : n < m /\ m <= n + config.span
      BY DEF Bridged
    <3>5. d \in Live /\ aligned[1] \in Live
      BY <2>7, <2>10, <3>2 DEF Live, EntriesOf
    <3>6. PICK m \in PlacedNow : n < m /\ m <= n + config.span
      BY <1>3, <3>4, <3>5 DEF Bridged
    <3>7. CASE m \in Placed
      BY <2>9, <3>6, <3>7 DEF PlacedNow
    <3>8. ASSUME NEW k \in DOMAIN aligned, m = aligned[k].seqnum
          PROVE  m \in PlacedNow'
      <4>1. k # 1
        <5>1. d.seqnum \in Nat /\ aligned[1].seqnum \in Nat
          BY <1>2, <3>5
        <5>2. aligned[1].seqnum <= n
          BY <3>3, <3>4, <5>1, <1>2
        <5> QED
          BY <3>4, <3>6, <3>8, <5>1, <5>2, <1>2
      <4>2. k - 1 \in 1 .. Len(aligned) - 1 /\ aligned[k] = aligned[(k - 1) + 1]
        BY <2>2, <3>8, <4>1
      <4>3. aligned[k] \in EntriesOf(aligned)'
        BY <2>4, <4>2
      <4> QED
        BY <3>8, <4>3 DEF PlacedNow
    <3>9. m \in Placed \/ \E k \in DOMAIN aligned : m = aligned[k].seqnum
      BY <3>6 DEF PlacedNow, EntriesOf
    <3> QED
      BY <3>6, <3>7, <3>8, <3>9
  <2>11. \A d \in Live' : d \in Live /\ d.seqnum \in Nat
    BY <1>2, <2>7 DEF Live
  <2>12. \A d \in Live' : /\ d.seqnum <= seqnum' /\ d.seqnum <= nl_seqnum + config.span
                          /\ Bridged(d.seqnum, nl_seqnum, PlacedNow')
    BY <1>1, <1>2, <1>3, <2>10, <2>11
  <2>13. \A j, k \in DOMAIN aligned' : j <= k => aligned'[j].seqnum <= aligned'[k].seqnum
    <3>1. SUFFICES ASSUME NEW j \in DOMAIN aligned', NEW k \in DOMAIN aligned', j <= k
                   PROVE  aligned'[j].seqnum <= aligned'[k].seqnum
      OBVIOUS
    <3>2. j + 1 <= k + 1 /\ j + 1 \in DOMAIN aligned /\ k + 1 \in DOMAIN aligned
      BY <2>2, <3>1
    <3> QED
      BY <2>2, <2>8, <3>1, <3>2
  <2>14. ~(calls' = <<>> \/ TopIs(calls', "Restore"))
    BY <2>1 DEF TopIs
  <2>15. nl_seqnum <= seqnum'
    BY <1>1, <1>2, <1>3
  <2> QED
    BY <1>1, <1>3, <2>1, <2>7, <2>12, <2>13, <2>14, <2>15 DEF SpanInv, TopIs, Bridged
<1>5. CASE Moved
  <2>1. /\ groups' = groups \cup {aligned} /\ aligned' = <<>> /\ skipped' = <<>>
        /\ nl_seqnum' = IF skipped = <<>> THEN seqnum' ELSE nl_seqnum
    BY <1>5 DEF Moved
  <2>2. EntriesOf(aligned)' = {} /\ EntriesOf(skipped)' = {}
    BY <2>1, NoEntries DEF EntriesOf
  <2>3. ToCome(calls)' \subseteq EntriesOf(skipped)
    <3>1. ASSUME NEW last, scratch' = StillCandidates(last), ToCome(calls)' = EntriesOf(scratch')
          PROVE  ToCome(calls)' \subseteq EntriesOf(skipped)
      BY <1>2, <3>1, StillCandidatesEntries
    <3> QED
      BY <1>5, <3>1 DEF Moved
  <2>4. Live' \subseteq EntriesOf(skipped) /\ EntriesOf(skipped) \subseteq Live
    BY <2>2, <2>3 DEF Live
  <2>5. Live' # {} => nl_seqnum' = nl_seqnum
    BY <2>1, <2>4, NoEntries
  <2>6. PlacedNow' = PlacedNow
    <3>1. Placed' = Placed \cup {aligned[k].seqnum : k \in DOMAIN aligned}
      BY <2>1 DEF Placed
    <3>2. {aligned[k].seqnum : k \in DOMAIN aligned} = {d.seqnum : d \in EntriesOf(aligned)}
      BY DEF EntriesOf
    <3> QED
      BY <2>2, <3>1, <3>2 DEF PlacedNow
  <2>7. nl_seqnum' <= seqnum'
    BY <1>1, <1>2, <1>3, <2>1
  <2>8. \A d \in Live' : /\ d.seqnum <= seqnum' /\ d.seqnum <= nl_seqnum' + config.span
                         /\ Bridged(d.seqnum, nl_seqnum', PlacedNow')
    BY <1>1, <1>2, <1>3, <2>4, <2>5, <2>6
  <2>9. DOMAIN aligned' = {}
    BY <2>1
  <2> QED
    BY <1>1, <2>1, <2>2, <2>7, <2>8, <2>9 DEF SpanInv, TopIs, Bridged
<1> QED
  BY <1>4, <1>5, FlushOutcome

LEMMA QuietKeepsSpan ==
  ASSUME BaseInv, SpanInv, QuietStep
  PROVE  SpanInv'
<1>1. /\ UNCHANGED <<config, groups, nl_seqnum>>
      /\ seqnum' \in Nat /\ seqnum' >= seqnum
      /\ ToCome(calls)' \subseteq ToCome(calls)
      /\ aligned' # <<>> =>
           \/ seqnum' <= nl_seqnum + config.span
           \/ seqnum' = seqnum /\ (calls = <<>> \/ TopIs(calls, "Restore") \/ calls' = calls)
  BY DEF QuietStep
<1>2. /\ \A d \in Live : d.seqnum \in Nat
      /\ seqnum \in Nat /\ nl_seqnum \in Nat /\ config.span \in Nat
  BY LiveType
<1>3. /\ nl_seqnum <= seqnum
      /\ \A d \in Live : /\ d.seqnum <= seqnum /\ d.seqnum <= nl_seqnum + config.span
                         /\ Bridged(d.seqnum, nl_seqnum, PlacedNow)
      /\ \A d \in EntriesOf(aligned) : d.seqnum <= nl_seqnum
  BY DEF SpanInv
<1>4. Placed' = Placed
  BY <1>1 DEF Placed
<1>5. CASE UNCHANGED <<aligned, skipped>>
  <2>1. EntriesOf(aligned)' = EntriesOf(aligned) /\ EntriesOf(skipped)' = EntriesOf(skipped)
    BY <1>5 DEF EntriesOf
  <2>2. Live' \subseteq Live /\ PlacedNow' = PlacedNow
    BY <1>1, <1>4, <2>1 DEF Live, PlacedNow
  <2>3. \A d \in Live' : /\ d.seqnum <= seqnum' /\ d.seqnum <= nl_seqnum + config.span
                         /\ Bridged(d.seqnum, nl_seqnum, PlacedNow')
    BY <1>1, <1>2, <1>3, <2>2
  <2>4. nl_seqnum <= seqnum'
    BY <1>1, <1>2, <1>3
  <2>5. (calls' = <<>> \/ TopIs(calls', "Restore")) /\ aligned # <<>> => seqnum' <= nl_seqnum + config.span
    BY <1>1, <1>5 DEF SpanInv
  <2> QED
    BY <1>1, <1>3, <1>5, <2>1, <2>3, <2>4, <2>5 DEF SpanInv, TopIs, Bridged
<1>6. CASE aligned' = <<>> /\ skipped' = <<>> /\ place' = "done"
  <2>1. EntriesOf(aligned)' = {} /\ EntriesOf(skipped)' = {} /\ DOMAIN aligned' = {}
    BY <1>6, NoEntries DEF EntriesOf
  <2>2. ToCome(calls)' = {}
    <3>1. calls' = <<>>
      BY <1>6 DEF QuietStep
    <3> QED
      BY <3>1 DEF ToCome, TopIs
  <2>3. Live' = {}
    BY <2>1, <2>2 DEF Live
  <2>4. nl_seqnum <= seqnum'
    BY <1>1, <1>2, <1>3
  <2> QED
    BY <1>1, <1>6, <2>1, <2>3, <2>4 DEF SpanInv
<1> QED
  BY <1>5, <1>6 DEF QuietStep

\* What SpanKept says of a group.
GroupBridged(g, lines) ==
  \A j, k \in DOMAIN g : Bridged(g[j].seqnum, g[k].seqnum, lines)

LEMMA GroupsKeepBridged ==
  ASSUME BaseInv, SpanInv, [Next]_vars, \A g \in groups : GroupBridged(g, Placed)
  PROVE  \A g \in groups' : GroupBridged(g, Placed)'
<1>1. config' = config
  BY Steps DEF AddStep, Added, FlushStep, QuietStep
<1>2. /\ groups' = groups
      \/ Moved
  BY Steps, AddedPlaced, FlushOutcome DEF Dropped, QuietStep
<1>3. groups \subseteq groups'
  BY <1>2 DEF Moved
<1>4. Placed \subseteq Placed'
  BY <1>3 DEF Placed
<1>5. SUFFICES ASSUME NEW g \in groups'
               PROVE  GroupBridged(g, Placed)'
  OBVIOUS
<1>6. CASE g \in groups
  BY <1>1, <1>4, <1>6 DEF GroupBridged, Bridged
<1>7. CASE g \notin groups
  <2>1. g = aligned /\ Placed' = Placed \cup {aligned[k].seqnum : k \in DOMAIN aligned}
    BY <1>2, <1>5, <1>7 DEF Moved, Placed
  <2>2. PlacedNow \subseteq Placed'
    BY <2>1 DEF PlacedNow, EntriesOf
  <2>3. SUFFICES ASSUME NEW j \in DOMAIN aligned, NEW k \in DOMAIN aligned,
                        NEW n \in aligned[j].seqnum .. aligned[k].seqnum - 1
                 PROVE  \E m \in Placed' : n < m /\ m <= n + config.span
    BY <1>1, <2>1 DEF GroupBridged, Bridged
  <2>4. aligned[j] \in EntriesOf(aligned) /\ aligned[k] \in EntriesOf(aligned)
    BY <2>3 DEF EntriesOf
  <2>5. aligned[j] \in Live /\ aligned[k] \in Live
    BY <2>4 DEF Live
  <2>6. aligned[j].seqnum \in Nat /\ aligned[k].seqnum \in Nat /\ nl_seqnum \in Nat
    BY <2>5, LiveType
  <2>7. aligned[k].seqnum <= nl_seqnum /\ Bridged(aligned[j].seqnum, nl_seqnum, PlacedNow)
    BY <2>4, <2>5 DEF SpanInv
  <2>8. n \in aligned[j].seqnum .. nl_seqnum - 1
    BY <2>3, <2>6, <2>7
  <2> QED
    BY <2>2, <2>7, <2>8 DEF Bridged
<1> QED
  BY <1>6, <1>7

\* Between the items of a group there are never more newlines than the span
\* without an item that is aligned.
THEOREM SpanStaysKept == Spec => []SpanKept
<1> DEFINE Inv == BaseInv /\ SpanInv /\ \A g \in groups : GroupBridged(g, Placed)
<1>1. Init => Inv
  <2>1. SUFFICES ASSUME Init PROVE Inv
    OBVIOUS
  <2>2. /\ aligned = <<>> /\ skipped = <<>> /\ calls = <<>> /\ groups = {}
        /\ seqnum = 0 /\ nl_seqnum = 0
    BY <2>1 DEF Init
  <2>3. Live = {} /\ EntriesOf(aligned) = {} /\ DOMAIN aligned = {}
    BY <2>2, NoEntries, NoneToCome DEF Live
  <2>4. SpanInv
    BY <2>2, <2>3 DEF SpanInv
  <2> QED
    BY <2>1, <2>2, <2>4, InitBase
<1>2. Inv /\ [Next]_vars => Inv'
  <2>1. SUFFICES ASSUME Inv, [Next]_vars PROVE Inv'
    OBVIOUS
  <2>2. SpanInv'
    BY <2>1, Steps, AddKeepsSpan, FlushKeepsSpan, QuietKeepsSpan
  <2> QED
    BY <2>1, <2>2, BaseInvKept, GroupsKeepBridged
<1>3. Inv => SpanKept
  BY DEF GroupBridged, Bridged, SpanKept
<1> QED
  BY <1>1, <1>2, <1>3, PTL DEF Spec

-----------------------------------------------------------------------------
(* The threshold                                                           *)

\* No p of S is left of the others by more than d: of the next one, or of all.
NearAll(S, T, d, absolute) ==
  \A p \in S :
    /\ (\E q \in S : T[q] > T[p]) => \E q \in S : T[q] > T[p] /\ T[q] - T[p] <= d
    /\ absolute => \A q \in S : T[q] > T[p] => T[q] - T[p] <= d

LEMMA NearAllOf ==
  ASSUME NEW S, NEW T, NEW U, NEW d \in Int, NEW c \in Int, NEW absolute,
         \A p \in S : T[p] \in Int /\ U[p] = T[p],
         NearAll(S, T, d, absolute), d <= c
  PROVE  NearAll(S, U, c, absolute)
<1>1. SUFFICES ASSUME NEW p \in S
               PROVE  /\ (\E q \in S : U[q] > U[p]) => \E q \in S : U[q] > U[p] /\ U[q] - U[p] <= c
                      /\ absolute => \A q \in S : U[q] > U[p] => U[q] - U[p] <= c
  BY DEF NearAll
<1>2. \A q \in S : T[q] - T[p] <= d => U[q] - U[p] <= c
  OBVIOUS
<1>3. \A q \in S : T[q] > T[p] <=> U[q] > U[p]
  OBVIOUS
<1>4. /\ (\E q \in S : T[q] > T[p]) => \E q \in S : T[q] > T[p] /\ T[q] - T[p] <= d
      /\ absolute => \A q \in S : T[q] > T[p] => T[q] - T[p] <= d
  BY <1>1 DEF NearAll
<1> QED
  BY <1>2, <1>3, <1>4

\* What Add() compares is enough, although it only knows the first and the last
\* column in which an item of the group would end.
LEMMA JoinsNear ==
  ASSUME NEW A, NEW x, NEW T, NEW E, NEW g \in Nat, NEW th \in Nat, NEW lo \in Nat, NEW hi \in Nat,
         NEW absolute \in BOOLEAN,
         T[x] \in Nat,
         \A p \in A : /\ T[p] \in Nat /\ E[p] \in Nat
                      /\ T[p] <= E[p] /\ E[p] <= T[p] + g /\ lo <= E[p] /\ E[p] <= hi,
         \E p \in A : E[p] = hi, \E p \in A : E[p] = lo,
         T[x] + g <= th + (IF absolute THEN lo ELSE hi),
         T[x] + g + th >= hi \/ T[x] >= lo,
         NearAll(A, T, th + g, absolute)
  PROVE  NearAll(A \cup {x}, T, th + g, absolute)
<1> DEFINE d == th + g
           t == T[x]
<1>1. lo <= hi
  OBVIOUS
<1>2. t <= th + hi - g
  BY <1>1
<1>3. ASSUME NEW p \in A
      PROVE  /\ (\E q \in A : T[q] > T[p]) => \E q \in A : T[q] > T[p] /\ T[q] - T[p] <= d
             /\ absolute => \A q \in A : T[q] > T[p] => T[q] - T[p] <= d
  BY <1>3 DEF NearAll
\* An item that is there has the new one in reach, when it was the last one.
<1>4. ASSUME NEW p \in A, t > T[p], \A q \in A : ~(T[q] > T[p])
      PROVE  t - T[p] <= d
  <2>1. PICK y \in A : E[y] = hi
    OBVIOUS
  <2>2. T[y] <= T[p] /\ hi <= T[y] + g
    BY <1>4, <2>1
  <2>3. T[p] \in Nat /\ T[y] \in Nat
    BY <1>4, <2>1
  <2> QED
    BY <1>2, <2>2, <2>3
<1>5. ASSUME absolute, NEW p \in A
      PROVE  t - T[p] <= d
  <2>1. lo <= T[p] + g /\ T[p] \in Nat
    BY <1>5
  <2> QED
    BY <1>5, <2>1
\* The new item has the next one in reach.
<1>6. ASSUME NEW q \in A, T[q] > t
      PROVE  /\ \E r \in A : T[r] > t /\ T[r] - t <= d
             /\ absolute => T[q] - t <= d
  <2>1. CASE t + g + th >= hi
    <3>1. T[q] <= hi /\ T[q] \in Nat
      BY <1>6
    <3>2. T[q] - t <= d
      BY <2>1, <3>1
    <3> QED
      BY <1>6, <3>2
  <2>2. CASE t >= lo
    <3> DEFINE B == {T[p] : p \in {r \in A : T[r] <= t}}
    <3>1. PICK y \in A : E[y] = lo
      OBVIOUS
    <3>2. T[y] <= t
      BY <2>2, <3>1
    <3>3. B \in SUBSET (0 .. t) /\ B # {}
      BY <3>2
    <3>4. PICK b \in B : \A c \in B : c <= b
      <4>1. IsFiniteSet(0 .. t)
        BY FS_Interval
      <4>2. B \in SUBSET Int
        BY <3>3
      <4> HIDE DEF B
      <4>3. IsFiniteSet(B)
        BY <3>3, <4>1, FS_Subset
      <4> QED
        BY <3>3, <4>2, <4>3, GreatestNumber
    <3>5. PICK p \in A : T[p] = b /\ b <= t
      OBVIOUS
    <3>6. T[q] > T[p] /\ T[p] \in Nat
      BY <1>6, <3>5
    <3>7. PICK r \in A : T[r] > T[p] /\ T[r] - T[p] <= d
      BY <1>3, <1>6, <3>5, <3>6
    <3>8. T[r] > t
      <4>1. SUFFICES ASSUME T[r] <= t PROVE FALSE
        BY <3>7
      <4>2. T[r] \in B /\ T[r] \in Nat
        BY <3>7, <4>1
      <4> HIDE DEF B
      <4>3. T[r] <= T[p]
        BY <3>4, <3>5, <4>2
      <4> QED
        BY <3>6, <3>7, <4>2, <4>3
    <3>9. T[r] - t <= d
      BY <3>5, <3>7
    <3>10. absolute => T[q] - t <= d
      <4>1. absolute => T[q] - T[p] <= d
        BY <1>3, <1>6, <3>5, <3>6
      <4> QED
        BY <1>6, <3>5, <4>1
    <3> QED
      BY <3>7, <3>8, <3>9, <3>10
  <2> QED
    BY <2>1, <2>2
<1> HIDE DEF d, t
<1>7. ASSUME NEW p \in A \cup {x}
      PROVE  /\ (\E q \in A \cup {x} : T[q] > T[p]) => \E q \in A \cup {x} : T[q] > T[p] /\ T[q] - T[p] <= d
             /\ absolute => \A q \in A \cup {x} : T[q] > T[p] => T[q] - T[p] <= d
  <2>1. CASE p \in A
    <3>1. (\E q \in A \cup {x} : T[q] > T[p]) => \E q \in A \cup {x} : T[q] > T[p] /\ T[q] - T[p] <= d
      <4>1. CASE \E q \in A : T[q] > T[p]
        BY <1>3, <2>1, <4>1
      <4>2. CASE ~(\E q \in A : T[q] > T[p])
        BY <1>4, <2>1, <4>2 DEF t
      <4> QED
        BY <4>1, <4>2
    <3>2. absolute => \A q \in A \cup {x} : T[q] > T[p] => T[q] - T[p] <= d
      BY <1>3, <1>5, <2>1 DEF t
    <3> QED
      BY <3>1, <3>2
  <2>2. CASE p = x
    <3>1. ~(T[x] > T[x])
      OBVIOUS
    <3> QED
      BY <1>6, <2>2, <3>1 DEF t
  <2> QED
    BY <2>1, <2>2
<1> QED
  BY <1>7 DEF NearAll, d

tightness == [p \in Ids |-> Tight(p)]
EndCol(p) == Tight(p) + Bump(items[p])

\* max_col and min_col are the last and the first column in which an item of the
\* group would end, and each item has been within the threshold of the others.
ThresholdInv ==
  config.thresh > 0 =>
    /\ aligned = <<>> => place = "done" \/ min_col = Infinity
    /\ \A p \in IdsOf(aligned) : EndCol(p) <= max_col /\ min_col <= EndCol(p)
    /\ aligned # <<>> => /\ \E p \in IdsOf(aligned) : EndCol(p) = max_col
                         /\ \E p \in IdsOf(aligned) : EndCol(p) = min_col
    /\ NearAll(IdsOf(aligned), tightness, config.thresh + gap, config.absolute)

LEMMA EndColType ==
  ASSUME BaseInv, NEW p \in Ids
  PROVE  /\ tightness[p] = Tight(p)
         /\ Tight(p) \in Nat /\ Tight(p) > 0 /\ EndCol(p) \in Nat
         /\ Tight(p) <= EndCol(p) /\ EndCol(p) <= Tight(p) + gap
<1>1. items[p].tight \in Nat /\ items[p].tight > 0 /\ items[p].room \in Nat /\ gap \in Nat
  BY ItemFields, ConfigFields DEF BaseInv
<1> QED
  BY <1>1 DEF tightness, Tight, EndCol, Bump

LEMMA AlignedIds ==
  ASSUME BaseInv
  PROVE  /\ IdsOf(aligned) \subseteq Ids
         /\ aligned = <<>> <=> IdsOf(aligned) = {}
<1>1. aligned \in Seq(Entries)
  BY DEF BaseInv, TypeInv
<1>2. aligned # <<>> => IdsOf(aligned) # {}
  BY <1>1, EntryOf DEF IdsOf
<1> QED
  BY <1>2, WaitingAre, NoEntries

LEMMA AddKeepsThreshold ==
  ASSUME BaseInv, BaseInv', ThresholdInv, config.thresh > 0,
         NEW e, NEW item, NEW frames, AddStep(e, item, frames)
  PROVE  ThresholdInv'
<1> DEFINE A == IdsOf(aligned)
           x == e.pc
           endcol == item.tight + Bump(item)
           T == tightness'
<1>1. config' = config /\ gap' = gap /\ place # "done"
  BY DEF AddStep, Added
<1>2. /\ Ids' = Ids \cup {x} /\ items'[x] = item /\ \A p \in Ids : items'[p] = items[p]
      /\ item \in config.shapes
  BY DEF AddStep
<1>3. A \subseteq Ids /\ (aligned = <<>> <=> A = {})
  BY AlignedIds
<1>4. /\ config.thresh \in Nat /\ gap \in Nat /\ Infinity \in Nat /\ config.absolute \in BOOLEAN
      /\ item.tight \in Nat /\ item.tight > 0 /\ item.room \in Nat
      /\ item.tight + config.gap < Infinity
      /\ config.gap \in Nat
  BY <1>2, ConfigFields DEF BaseInv
<1>5. max_col \in Nat /\ min_col \in Nat /\ gap \in {config.gap, 1}
  BY DEF BaseInv, TypeInv
<1>6. \A p \in A : /\ T[p] = tightness[p] /\ T[p] = Tight(p)
                   /\ EndCol(p)' = EndCol(p) /\ EndCol(p) \in Nat
                   /\ T[p] \in Nat /\ T[p] <= EndCol(p) /\ EndCol(p) <= T[p] + gap
  <2>1. SUFFICES ASSUME NEW p \in A
                 PROVE  /\ T[p] = tightness[p] /\ T[p] = Tight(p)
                        /\ EndCol(p)' = EndCol(p) /\ EndCol(p) \in Nat
                        /\ T[p] \in Nat /\ T[p] <= EndCol(p) /\ EndCol(p) <= T[p] + gap
    OBVIOUS
  <2>2. p \in Ids /\ p \in Ids' /\ items'[p] = items[p]
    BY <1>2, <1>3, <2>1
  <2>3. T[p] = items'[p].tight
    BY <2>2 DEF tightness, Tight
  <2>4. EndCol(p)' = EndCol(p)
    BY <1>1, <2>2 DEF EndCol, Tight, Bump
  <2> QED
    BY <2>2, <2>3, <2>4, EndColType DEF Tight
<1>7. T[x] = item.tight /\ EndCol(x)' = endcol /\ Tight(x)' = item.tight
  BY <1>1, <1>2 DEF tightness, Tight, EndCol, Bump
<1>8. endcol \in Nat /\ item.tight <= endcol /\ endcol <= item.tight + gap
  BY <1>4 DEF Bump
<1>9. endcol <= Infinity
  BY <1>4, <1>5, <1>8
<1>10. /\ \A p \in A : EndCol(p) <= max_col /\ min_col <= EndCol(p)
       /\ A # {} => (\E p \in A : EndCol(p) = max_col) /\ (\E p \in A : EndCol(p) = min_col)
       /\ NearAll(A, tightness, config.thresh + gap, config.absolute)
       /\ A = {} => max_col = 0 /\ min_col = Infinity
       /\ A # {} => max_col # 0
  BY <1>1, <1>3 DEF ThresholdInv, BaseInv, ModeInv
<1>11. NearAll(A, T, config.thresh + gap, config.absolute)
  <2> DEFINE d == config.thresh + gap
  <2>1. d \in Int /\ d <= d
    BY <1>4
  <2>2. \A p \in A : tightness[p] \in Int /\ T[p] = tightness[p]
    BY <1>6
  <2>3. NearAll(A, tightness, d, config.absolute)
    BY <1>10
  <2> HIDE DEF d, A, T
  <2>4. NearAll(A, T, d, config.absolute)
    BY <2>1, <2>2, <2>3, NearAllOf
  <2> QED
    BY <2>4 DEF d
<1> HIDE DEF A, x, T
<1>12. CASE Joined(e, item)
  <2>1. IdsOf(aligned') = A \cup {x} /\ aligned' # <<>>
    <3>1. aligned \in Seq(Entries') /\ e \in Entries'
      BY AddedEntries, SeqMonotonic DEF BaseInv, TypeInv
    <3> QED
      BY <1>12, <3>1, EntriesOfAppend DEF Joined, A, x
  <2>2. /\ max_col' = MaxOf({max_col, endcol})
        /\ min_col' = IF endcol < min_col THEN endcol ELSE min_col
        /\ WithinThreshold(item)
    BY <1>12 DEF Joined
  <2> HIDE DEF endcol
  <2>3. max_col' = IF max_col <= endcol THEN endcol ELSE max_col
    BY <1>5, <1>8, <2>2, MaxOfTwo
  <2>4. \A p \in A \cup {x} : EndCol(p)' <= max_col' /\ min_col' <= EndCol(p)'
    BY <1>5, <1>6, <1>7, <1>8, <1>10, <2>2, <2>3
  <2>5. \E p \in A \cup {x} : EndCol(p)' = max_col'
    <3>1. CASE A = {}
      <4>1. max_col' = endcol
        BY <1>8, <1>10, <2>3, <3>1
      <4> QED
        BY <1>7, <4>1
    <3>2. CASE A # {}
      <4>1. PICK y \in A : EndCol(y) = max_col
        BY <1>10, <3>2
      <4>2. EndCol(y)' = max_col
        BY <1>6, <4>1
      <4>3. max_col' = max_col \/ max_col' = EndCol(x)'
        BY <1>7, <2>3
      <4> QED
        BY <4>1, <4>2, <4>3
    <3> QED
      BY <3>1, <3>2
  <2>6. \E p \in A \cup {x} : EndCol(p)' = min_col'
    <3>1. CASE A = {}
      <4>1. min_col' = endcol
        BY <1>4, <1>8, <1>9, <1>10, <2>2, <3>1
      <4> QED
        BY <1>7, <4>1
    <3>2. CASE A # {}
      <4>1. PICK y \in A : EndCol(y) = min_col
        BY <1>10, <3>2
      <4>2. EndCol(y)' = min_col
        BY <1>6, <4>1
      <4>3. min_col' = min_col \/ min_col' = EndCol(x)'
        BY <1>7, <2>2
      <4> QED
        BY <4>1, <4>2, <4>3
    <3> QED
      BY <3>1, <3>2
  <2>7. NearAll(A \cup {x}, T, config.thresh + gap, config.absolute)
    <3>1. CASE A = {}
      <4>1. ~(T[x] > T[x])
        BY <1>4, <1>7
      <4> QED
        BY <3>1, <4>1 DEF NearAll
    <3>2. CASE A # {}
      <4>1. /\ item.tight + gap <= config.thresh + (IF config.absolute THEN min_col ELSE max_col)
            /\ item.tight + gap + config.thresh >= max_col \/ item.tight >= min_col
        BY <1>4, <1>10, <2>2, <3>2 DEF WithinThreshold
      <4> DEFINE E == [p \in A |-> EndCol(p)]
      <4>2. \A p \in A : /\ T[p] \in Nat /\ E[p] \in Nat
                         /\ T[p] <= E[p] /\ E[p] <= T[p] + gap /\ min_col <= E[p] /\ E[p] <= max_col
        BY <1>6, <1>10
      <4>3. (\E p \in A : E[p] = max_col) /\ (\E p \in A : E[p] = min_col)
        BY <1>10, <3>2
      <4>4. T[x] \in Nat /\ T[x] = item.tight
        BY <1>4, <1>7
      <4>5. /\ T[x] \in Nat
            /\ T[x] + gap <= config.thresh + (IF config.absolute THEN min_col ELSE max_col)
            /\ T[x] + gap + config.thresh >= max_col \/ T[x] >= min_col
        BY <4>1, <4>4
      <4>6. /\ config.thresh \in Nat /\ gap \in Nat /\ config.absolute \in BOOLEAN
            /\ min_col \in Nat /\ max_col \in Nat
        BY <1>4, <1>5
      <4> HIDE DEF E
      <4> QED
        BY <1>11, <4>2, <4>3, <4>5, <4>6, JoinsNear, SMTT(60)
    <3> QED
      BY <3>1, <3>2
  <2>8. IdsOf(aligned)' = A \cup {x}
    BY <2>1 DEF IdsOf
  <2> QED
    BY <1>1, <2>1, <2>4, <2>5, <2>6, <2>7, <2>8 DEF ThresholdInv, T
<1>13. CASE ~Joined(e, item)
  <2>1. UNCHANGED <<aligned, max_col, min_col>>
    BY <1>13, AddedEntries
  <2>2. IdsOf(aligned)' = A
    BY <2>1 DEF IdsOf, A
  <2>3. \A p \in A : EndCol(p)' = EndCol(p)
    BY <1>6
  <2>4. \A p \in A : EndCol(p)' <= max_col' /\ min_col' <= EndCol(p)'
    BY <1>10, <2>1, <2>3
  <2>5. aligned' # <<>> => (\E p \in A : EndCol(p)' = max_col') /\ (\E p \in A : EndCol(p)' = min_col')
    BY <1>3, <1>10, <2>1, <2>3 DEF A
  <2>6. aligned' = <<>> => min_col' = Infinity
    BY <1>3, <1>10, <2>1
  <2> QED
    BY <1>1, <1>11, <2>2, <2>4, <2>5, <2>6 DEF ThresholdInv, T
<1> QED
  BY <1>12, <1>13

LEMMA FlushKeepsThreshold ==
  ASSUME BaseInv, config.thresh > 0, NEW frames, FlushStep(frames)
  PROVE  ThresholdInv' /\ Moved
<1>1. Moved
  <2>1. config.thresh # 0
    BY ConfigFields DEF BaseInv
  <2> QED
    BY <2>1, FlushOutcome DEF Dropped
<1>2. aligned' = <<>> /\ min_col' = Infinity
  BY <1>1 DEF Moved
<1>3. IdsOf(aligned)' = {}
  BY <1>2, NoEntries DEF IdsOf
<1> QED
  BY <1>1, <1>2, <1>3 DEF ThresholdInv, NearAll

LEMMA QuietKeepsThreshold ==
  ASSUME BaseInv, ThresholdInv, config.thresh > 0, QuietStep
  PROVE  ThresholdInv'
<1>1. UNCHANGED <<config, items, max_col, min_col, gap>>
  BY DEF QuietStep
<1>2. CASE UNCHANGED <<aligned, skipped>> /\ (place' = "done" <=> place = "done")
  <2>1. IdsOf(aligned)' = IdsOf(aligned) /\ tightness' = tightness
    BY <1>1, <1>2 DEF IdsOf, tightness, Ids, Tight
  <2>2. \A p : EndCol(p)' = EndCol(p)
    BY <1>1 DEF EndCol, Tight, Bump
  <2> QED
    BY <1>1, <1>2, <2>1, <2>2 DEF ThresholdInv
<1>3. CASE aligned' = <<>> /\ skipped' = <<>> /\ place' = "done"
  <2>1. IdsOf(aligned)' = {}
    BY <1>3, NoEntries DEF IdsOf
  <2> QED
    BY <1>3, <2>1 DEF ThresholdInv, NearAll
<1> QED
  BY <1>2, <1>3 DEF QuietStep

\* What ThresholdKept says of a group.  A lone typedef may change the gap, so it is
\* the greater one that counts.
Reach == config.thresh + MaxOf({config.gap, gap})
GroupNear(g) == NearAll(IdsOf(g), tightness, Reach, config.absolute)

LEMMA ReachGrows ==
  ASSUME BaseInv, config' = config, gap' \in {gap, 1}
  PROVE  /\ Reach \in Int /\ Reach' \in Int /\ Reach <= Reach'
         /\ config.thresh + gap \in Int /\ config.thresh + gap <= Reach'
<1>1. config.thresh \in Nat /\ config.gap \in Nat /\ gap \in Nat /\ gap \in {config.gap, 1}
  BY ConfigFields DEF BaseInv, TypeInv
<1>2. MaxOf({config.gap, gap}) = IF config.gap <= gap THEN gap ELSE config.gap
  BY <1>1, MaxOfTwo
<1>3. gap' \in Nat
  BY <1>1
<1>4. MaxOf({config.gap, gap'}) = IF config.gap <= gap' THEN gap' ELSE config.gap
  BY <1>1, <1>3, MaxOfTwo
<1>5. Reach' = config.thresh + MaxOf({config.gap, gap'})
  BY DEF Reach, MaxOf
<1> QED
  BY <1>1, <1>2, <1>3, <1>4, <1>5 DEF Reach

LEMMA OldGroupNear ==
  ASSUME BaseInv, GroupedStay, gap' \in {gap, 1}, NEW g \in groups, GroupNear(g), Ids \subseteq Ids'
  PROVE  GroupNear(g)'
<1> DEFINE S == IdsOf(g)
           T == tightness
           U == tightness'
<1>1. config' = config /\ \A p \in S : p \in Ids /\ items'[p] = items[p]
  BY DEF GroupedStay, Grouped
<1>2. Reach \in Int /\ Reach' \in Int /\ Reach <= Reach'
  BY <1>1, ReachGrows
<1>3. \A p \in S : T[p] \in Int /\ U[p] = T[p]
  <2>1. SUFFICES ASSUME NEW p \in S
                 PROVE  T[p] \in Int /\ U[p] = T[p]
    OBVIOUS
  <2>2. p \in Ids /\ p \in Ids' /\ items'[p] = items[p]
    BY <1>1, <2>1
  <2>3. T[p] = items[p].tight /\ U[p] = items'[p].tight
    BY <2>2 DEF tightness, Tight
  <2>4. items[p].tight \in Int
    BY <2>2, ItemFields, ConfigFields DEF BaseInv
  <2> QED
    BY <2>2, <2>3, <2>4
<1>4. NearAll(S, T, Reach, config.absolute)
  BY DEF GroupNear
<1>5. IdsOf(g)' = S
  BY DEF IdsOf
<1> HIDE DEF S, T, U
<1>6. NearAll(S, U, Reach', config.absolute)
  BY <1>2, <1>3, <1>4, NearAllOf
<1> QED
  BY <1>1, <1>5, <1>6 DEF GroupNear, U

LEMMA NewGroupNear ==
  ASSUME BaseInv, ThresholdInv, config.thresh > 0, NEW frames, FlushStep(frames), NEW g, g = aligned
  PROVE  GroupNear(g)'
<1> DEFINE S == IdsOf(g)
           T == tightness
           d == config.thresh + gap
<1>1. config' = config /\ items' = items /\ gap' \in {gap, 1}
  BY GapAfterFlush DEF FlushStep
<1>2. d \in Int /\ Reach' \in Int /\ d <= Reach'
  BY <1>1, ReachGrows
<1>3. \A p \in S : T[p] \in Int
  BY AlignedIds, EndColType
<1>4. NearAll(S, T, d, config.absolute)
  BY DEF ThresholdInv
<1>5. IdsOf(g)' = S /\ tightness' = T
  BY <1>1 DEF IdsOf, tightness, Ids, Tight
<1> HIDE DEF S, T, d
<1>6. NearAll(S, T, Reach', config.absolute)
  BY <1>2, <1>3, <1>4, NearAllOf
<1> QED
  BY <1>1, <1>5, <1>6 DEF GroupNear

LEMMA GroupsKeepNear ==
  ASSUME Placing, ThresholdInv, config.thresh > 0, [Next]_vars, \A g \in groups : GroupNear(g)
  PROVE  \A g \in groups' : GroupNear(g)'
<1>1. SUFFICES ASSUME NEW g \in groups'
               PROVE  GroupNear(g)'
  OBVIOUS
<1>2. BaseInv /\ PlaceInv
  BY DEF Placing
<1>3. ASSUME GroupedStay, g \in groups, gap' \in {gap, 1}, Ids \subseteq Ids'
      PROVE  GroupNear(g)'
  BY <1>2, <1>3, OldGroupNear
<1>4. ASSUME NEW e, NEW item, NEW frames, AddStep(e, item, frames)
      PROVE  GroupNear(g)'
  BY <1>2, <1>3, <1>4, AddLeavesGrouped, AddedEntries
<1>5. ASSUME NEW frames, FlushStep(frames)
      PROVE  GroupNear(g)'
  <2>1. GroupedStay /\ gap' \in {gap, 1} /\ Ids' = Ids
    BY <1>2, <1>5, FlushKeepsTight, GapAfterFlush DEF FlushStep, Ids
  <2>2. CASE g \in groups
    BY <1>3, <2>1, <2>2
  <2>3. CASE g \notin groups
    <3>1. g = aligned
      BY <1>2, <1>5, <2>3, FlushKeepsThreshold DEF Moved
    <3> QED
      BY <1>2, <1>5, <3>1, NewGroupNear
  <2> QED
    BY <2>2, <2>3
<1>6. CASE QuietStep
  <2>1. GroupedStay /\ gap' = gap /\ groups' = groups /\ Ids' = Ids
    BY <1>6, QuietKeepsTight DEF QuietStep, Ids
  <2> QED
    BY <1>3, <2>1
<1> QED
  BY <1>2, <1>4, <1>5, <1>6, Steps

\* No item joins a group from beyond the threshold, although Add() compares it with
\* two columns only.
THEOREM ThresholdStaysKept == Spec => []ThresholdKept
<1> DEFINE Inv == Placing /\ ThresholdInv /\ (config.thresh > 0 => \A g \in groups : GroupNear(g))
<1>1. Init => Inv
  <2>1. SUFFICES ASSUME Init PROVE Inv
    OBVIOUS
  <2>2. aligned = <<>> /\ min_col = Infinity /\ groups = {}
    BY <2>1 DEF Init
  <2>3. IdsOf(aligned) = {}
    BY <2>2, NoEntries
  <2>4. ThresholdInv
    BY <2>2, <2>3 DEF ThresholdInv, NearAll
  <2> QED
    BY <2>1, <2>2, <2>4, InitPlacing
<1>2. Inv /\ [Next]_vars => Inv'
  <2>1. SUFFICES ASSUME Inv, [Next]_vars PROVE Inv'
    OBVIOUS
  <2>2. Placing'
    BY <2>1, PlacingKept
  <2>3. config' = config
    BY <2>1, Steps DEF AddStep, Added, FlushStep, QuietStep, Placing
  <2>4. CASE config.thresh > 0
    <3>1. ThresholdInv'
      BY <2>1, <2>2, <2>4, Steps, AddKeepsThreshold, FlushKeepsThreshold, QuietKeepsThreshold DEF Placing
    <3>2. \A g \in groups' : GroupNear(g)'
      BY <2>1, <2>4, GroupsKeepNear
    <3> QED
      BY <2>2, <3>1, <3>2
  <2>5. CASE ~(config.thresh > 0)
    <3>1. ThresholdInv'
      BY <2>3, <2>5 DEF ThresholdInv
    <3> QED
      BY <2>2, <2>3, <2>5, <3>1
  <2> QED
    BY <2>4, <2>5
<1>3. Inv => ThresholdKept
  <2>1. SUFFICES ASSUME Inv, config.thresh > 0, NEW g \in groups, NEW p \in IdsOf(g)
                 PROVE  LET right == {q \in IdsOf(g) : Tight(q) > Tight(p)}
                            near  == {q \in right : Tight(q) - Tight(p) <= Reach}
                        IN  /\ right # {} => near # {}
                            /\ config.absolute => near = right
    BY DEF ThresholdKept, Reach
  <2>2. IdsOf(g) \subseteq Ids
    BY <2>1, WaitingAre DEF Placing, Grouped
  <2>3. \A q \in IdsOf(g) : tightness[q] = Tight(q)
    BY <2>2 DEF tightness
  <2>4. /\ (\E q \in IdsOf(g) : Tight(q) > Tight(p)) =>
             \E q \in IdsOf(g) : Tight(q) > Tight(p) /\ Tight(q) - Tight(p) <= Reach
        /\ config.absolute => \A q \in IdsOf(g) : Tight(q) > Tight(p) => Tight(q) - Tight(p) <= Reach
    BY <2>1, <2>3 DEF GroupNear, NearAll
  <2> QED
    BY <2>4
<1> QED
  BY <1>1, <1>2, <1>3, PTL DEF Spec
=============================================================================
