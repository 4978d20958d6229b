------------------------- MODULE BraceCleanupProofs -------------------------
(***************************************************************************)
(* What brace_cleanup() does with any input that InputsAssumption admits,  *)
(* of any length, legal or not: the loop advances, and an entry that waits *)
(* for else, catch or finally gets it.                                     *)
(*                                                                         *)
(* The invariant (Inv) is about the state between two turns that have not  *)
(* ended the process.  What comes (Coming) is the rest of the source, or   *)
(* one closing virtual brace and then the rest of the source: that is what *)
(* Advances follows from, since the only entry such a brace can meet is    *)
(* that of its opening one.  An entry that waits has what it waits for in  *)
(* front of it (Expected), which is ElseExpected; to keep this, no frame   *)
(* may be saved while it waits, and each frame must go back to where it    *)
(* came from (Framed: an #else is on the frame of its #if and on the one   *)
(* that ended with).  For a virtual brace to find its place there must be  *)
(* code before it (Started).                                               *)
(*                                                                         *)
(* Within a turn every function gets a lemma that says what it keeps: the  *)
(* stack stays good and the rest of the source as it is (Kept), unless a   *)
(* closing virtual brace is put in front of it (Closed, Ended, Parsed).    *)
(* The lemmas follow the calls: the end of a statement, opening a virtual  *)
(* brace, check_complex_statements(), parse_cleanup(), the frames at a     *)
(* directive, a turn of the loop.                                          *)
(***************************************************************************)
EXTENDS BraceCleanup, FiniteSetTheorems, SequenceTheorems, WellFoundedInduction, TLAPS

-----------------------------------------------------------------------------
(* States                                                                  *)

\* All the names there are: of types, stages and directives.
Names == Types \cup Directives \cup
  {"NULL", "EOF", "ELSEIF", "WHILE_OF_DO", "SPAREN_OPEN", "SPAREN_CLOSE", "VBRACE_OPEN", "VBRACE_CLOSE",
   "PAREN1", "OP_PAREN1", "BRACE2", "BRACE_DO", "WOD_PAREN", "WOD_SEMI", "PROBLEM", "CLOSE"}
Entries == [open : Names, stage : Names, parent : Names]
Frames  == [stack : Seq(Entries), paren_level : Int, brace_level : Int, sparen_count : Int,
            fresh : BOOLEAN, ifdef : Names]
Chunks  == [type : Names, directive : Names, in_preproc : BOOLEAN, parent : Names,
            level : Int, brace_level : Int, pp_level : Int, start : BOOLEAN, in_sparen : BOOLEAN]
States  == [chunks : Seq(Chunks), pc : Nat, frm : Frames, frames : Seq(Frames),
            pp_level : Nat, out_level : Int, in_preproc : Names, consumed : BOOLEAN,
            result : BOOLEAN, exited : BOOLEAN, strict : BOOLEAN]

\* A virtual brace has no stages.
GoodEntry(e) == e.open = "VBRACE_OPEN" => e.stage = "NONE"

GoodStack(q) ==
  /\ q \in Seq(Entries) /\ q # <<>> /\ q[1] = Bottom
  /\ \A i \in 1 .. Len(q) : GoodEntry(q[i])

\* What comes after index p, and after the current chunk.
Rest(q, p) == [k \in 1 .. Len(q) - p |-> q[p + k]]
Later(s)    == Rest(s.chunks, s.pc)

\* A state in which a chunk of code is parsed.
Good(s) ==
  /\ s \in States /\ GoodStack(s.frm.stack)
  /\ s.pc \in 1 .. Len(s.chunks) /\ ~IsLayout(Here(s))

\* No directive in between.
SameFrames(s, t) ==
  /\ t.frames = s.frames /\ t.pp_level = s.pp_level /\ t.in_preproc = s.in_preproc
  /\ t.frm.ifdef = s.frm.ifdef

Quiet(s, t) == t.consumed = s.consumed /\ t.result = s.result /\ t.exited = s.exited

\* The turn goes on with t.
Kept(s, t) ==
  /\ Good(t) /\ SameFrames(s, t)
  /\ Here(t).in_preproc = Here(s).in_preproc
  /\ Later(t) = Later(s)

\* A closing virtual brace was put after pc.
After(e, q) == [k \in 1 .. Len(q) + 1 |-> IF k = 1 THEN e ELSE q[k - 1]]
CloserPut(s, t) ==
  \E e \in Chunks : /\ e.type = "VBRACE_CLOSE" /\ e.in_preproc = Here(s).in_preproc
                    /\ Later(t) = After(e, Later(s))

\* What q goes on with, apart from layout, is of one of these types.
Comes(q, types) ==
  \E k \in 1 .. Len(q) : /\ ~IsLayout(q[k]) /\ q[k].type \in types
                         /\ \A j \in 1 .. k - 1 : IsLayout(q[j])

LEMMA AllNames ==
  /\ Types \subseteq Names /\ Directives \subseteq Names
  /\ {"NONE", "EOF", "ELSEIF", "WHILE_OF_DO", "SPAREN_OPEN", "SPAREN_CLOSE", "VBRACE_OPEN",
      "VBRACE_CLOSE", "PAREN1", "OP_PAREN1", "BRACE2", "BRACE_DO", "WOD_PAREN", "WOD_SEMI",
      "PROBLEM", "CLOSE", "ELSE", "CATCH", "FINALLY", "WHILE", "FOR", "PAREN_OPEN", "BRACE_OPEN", "SQUARE_OPEN"} \subseteq Names
  BY DEF Names, Types, Directives

LEMMA KeptAgain ==
  ASSUME NEW s, NEW t, NEW u, Kept(s, t), Kept(t, u)
  PROVE  Kept(s, u)
  BY DEF Kept, SameFrames

LEMMA SetLast ==
  ASSUME NEW S, NEW q \in Seq(S), q # <<>>, NEW e \in S
  PROVE  /\ Append(Front(q), e) \in Seq(S)
         /\ Len(Append(Front(q), e)) = Len(q)
         /\ Append(Front(q), e)[Len(q)] = e
         /\ \A i \in 1 .. Len(q) - 1 : Append(Front(q), e)[i] = q[i]
<1> DEFINE n == Len(q) - 1
           p == Front(q)
<1>1. n \in Nat /\ Len(q) = n + 1
  OBVIOUS
<1>2. p \in Seq(S) /\ Len(p) = n /\ \A i \in 1 .. n : p[i] = q[i]
  BY <1>1 DEF Front
<1> HIDE DEF n, p
<1>3. /\ Append(p, e) \in Seq(S) /\ Len(Append(p, e)) = n + 1
      /\ Append(p, e)[n + 1] = e /\ \A i \in 1 .. n : Append(p, e)[i] = p[i]
  BY <1>1, <1>2
<1> QED
  BY <1>1, <1>2, <1>3 DEF p

LEMMA TopEntry ==
  ASSUME NEW q, GoodStack(q)
  PROVE  /\ Len(q) \in Nat /\ Len(q) >= 1 /\ Last(q) = q[Len(q)]
         /\ Last(q) \in Entries /\ GoodEntry(Last(q))
         /\ Last(q).stage # "NONE" \/ Last(q).open = "VBRACE_OPEN" => Len(q) >= 2
  BY DEF GoodStack, Last, Bottom

LEMMA GoodTop ==
  ASSUME NEW q, GoodStack(q), Len(q) >= 2, NEW e \in Entries, GoodEntry(e)
  PROVE  /\ GoodStack(Append(Front(q), e)) /\ Last(Append(Front(q), e)) = e
         /\ Len(Append(Front(q), e)) = Len(q)
<1> DEFINE r == Append(Front(q), e)
<1>1. /\ r \in Seq(Entries) /\ Len(r) = Len(q) /\ r[Len(q)] = e
      /\ \A i \in 1 .. Len(q) - 1 : r[i] = q[i]
  BY SetLast DEF GoodStack
<1> HIDE DEF r
<1>2. GoodStack(r) /\ Last(r) = e
  BY <1>1 DEF GoodStack, Last
<1> QED
  BY <1>1, <1>2 DEF r

LEMMA GoodPush ==
  ASSUME NEW q, GoodStack(q), NEW e \in Entries, GoodEntry(e)
  PROVE  GoodStack(Append(q, e)) /\ Last(Append(q, e)) = e /\ Len(Append(q, e)) = Len(q) + 1
  BY DEF GoodStack, Last

LEMMA GoodCut ==
  ASSUME NEW q, GoodStack(q), NEW k \in 1 .. Len(q)
  PROVE  /\ GoodStack(SubSeq(q, 1, k)) /\ Last(SubSeq(q, 1, k)) = q[k]
         /\ Len(SubSeq(q, 1, k)) = k
  BY DEF GoodStack, Last

LEMMA SetHereKept ==
  ASSUME NEW s, Good(s), NEW c \in Chunks, ~IsLayout(c), c.in_preproc = Here(s).in_preproc
  PROVE  /\ Kept(s, SetHere(s, c)) /\ Quiet(s, SetHere(s, c))
         /\ Here(SetHere(s, c)) = c
         /\ SetHere(s, c).frm = s.frm /\ SetHere(s, c).pc = s.pc
  BY DEF Good, Kept, Quiet, SetHere, Here, Later, Rest, SameFrames, States

LEMMA FrmKept ==
  ASSUME NEW s, Good(s), NEW f \in Frames, GoodStack(f.stack), f.ifdef = s.frm.ifdef
  PROVE  Kept(s, [s EXCEPT !.frm = f]) /\ Quiet(s, [s EXCEPT !.frm = f])
  BY DEF Good, Kept, Quiet, Here, Later, Rest, SameFrames, States

\* Only the counters of the frame change.
Counted(s, t) ==
  /\ Kept(s, t) /\ Quiet(s, t)
  /\ t.chunks = s.chunks /\ t.pc = s.pc /\ t.frm.stack = s.frm.stack

LEMMA CountersKept ==
  ASSUME NEW s, Good(s), NEW f \in BOOLEAN, NEW n \in Int
  PROVE  Counted(s, Fresh(s, f)) /\ Counted(s, Deeper(s, n)) /\ Counted(s, DeeperBrace(s, n))
<1>1. ASSUME NEW g \in Frames, g.stack = s.frm.stack, g.ifdef = s.frm.ifdef
      PROVE  Counted(s, [s EXCEPT !.frm = g])
  BY <1>1, FrmKept DEF Counted, Good
<1>2. s.frm \in Frames
  BY DEF Good, States
<1>3. Counted(s, Fresh(s, f))
  <2> DEFINE g == [s.frm EXCEPT !.fresh = f]
  <2>1. g \in Frames /\ g.stack = s.frm.stack /\ g.ifdef = s.frm.ifdef
    BY <1>2 DEF Frames
  <2>2. Fresh(s, f) = [s EXCEPT !.frm = g]
    BY DEF Fresh
  <2> QED
    BY <1>1, <2>1, <2>2
<1>4. Counted(s, Deeper(s, n))
  <2> DEFINE g == [s.frm EXCEPT !.paren_level = s.frm.paren_level + n]
  <2>1. g \in Frames /\ g.stack = s.frm.stack /\ g.ifdef = s.frm.ifdef
    BY <1>2 DEF Frames
  <2>2. Deeper(s, n) = [s EXCEPT !.frm = g]
    BY DEF Deeper
  <2> QED
    BY <1>1, <2>1, <2>2
<1>5. Counted(s, DeeperBrace(s, n))
  <2> DEFINE g == [s.frm EXCEPT !.brace_level = s.frm.brace_level + n]
  <2>1. g \in Frames /\ g.stack = s.frm.stack /\ g.ifdef = s.frm.ifdef
    BY <1>2 DEF Frames
  <2>2. DeeperBrace(s, n) = [s EXCEPT !.frm = g]
    BY DEF DeeperBrace
  <2> QED
    BY <1>1, <2>1, <2>2
<1> QED
  BY <1>3, <1>4, <1>5

\* Only the stack of the frame changes.
Restacked(s, t) ==
  /\ Kept(s, t) /\ Quiet(s, t)
  /\ t.chunks = s.chunks /\ t.pc = s.pc

LEMMA StackKept ==
  ASSUME NEW s, Good(s), NEW q, GoodStack(q)
  PROVE  /\ Restacked(s, [s EXCEPT !.frm.stack = q])
         /\ [s EXCEPT !.frm.stack = q].frm.stack = q
<1>1. q \in Seq(Entries)
  BY DEF GoodStack
<1> QED
  BY <1>1 DEF Good, Kept, Quiet, Here, Later, Rest, SameFrames, States, Frames, Restacked

LEMMA SetTopKept ==
  ASSUME NEW s, Good(s), Len(s.frm.stack) >= 2, NEW e \in Entries, GoodEntry(e)
  PROVE  /\ Restacked(s, SetTop(s, e)) /\ Top(SetTop(s, e)) = e
         /\ Len(SetTop(s, e).frm.stack) = Len(s.frm.stack)
<1> DEFINE q == Append(Front(s.frm.stack), e)
<1>1. GoodStack(q) /\ Last(q) = e /\ Len(q) = Len(s.frm.stack)
  BY GoodTop DEF Good
<1> HIDE DEF q
<1>2. SetTop(s, e) = [s EXCEPT !.frm.stack = q]
  BY DEF SetTop, q
<1>3. Restacked(s, [s EXCEPT !.frm.stack = q]) /\ [s EXCEPT !.frm.stack = q].frm.stack = q
  BY <1>1, StackKept
<1> QED
  BY <1>1, <1>2, <1>3 DEF Top

LEMMA StageKept ==
  ASSUME NEW s, Good(s), Top(s).stage # "NONE", NEW g \in Names
  PROVE  /\ Restacked(s, SetStage(s, g)) /\ Top(SetStage(s, g)).stage = g
         /\ Top(SetStage(s, g)).open = Top(s).open
         /\ Len(SetStage(s, g).frm.stack) = Len(s.frm.stack)
<1>1. Top(s) \in Entries /\ GoodEntry(Top(s)) /\ Len(s.frm.stack) >= 2
  BY TopEntry DEF Good, Top
<1> DEFINE e == [Top(s) EXCEPT !.stage = g]
<1>2. e \in Entries /\ e.stage = g /\ e.open = Top(s).open /\ GoodEntry(e)
  BY <1>1 DEF Entries, GoodEntry
<1> HIDE DEF e
<1>3. SetStage(s, g) = SetTop(s, e)
  BY DEF SetStage, e
<1> QED
  BY <1>1, <1>2, <1>3, SetTopKept

LEMMA SwapKept ==
  ASSUME NEW s, Good(s), Top(s).stage # "NONE", NEW open \in Names, open # "VBRACE_OPEN", NEW g \in Names
  PROVE  /\ Restacked(s, Swap(s, open, g)) /\ Top(Swap(s, open, g)).stage = g
         /\ Len(Swap(s, open, g).frm.stack) = Len(s.frm.stack)
<1>1. Top(s) \in Entries /\ GoodEntry(Top(s)) /\ Len(s.frm.stack) >= 2
  BY TopEntry DEF Good, Top
<1> DEFINE e == [Top(s) EXCEPT !.open = open, !.stage = g]
<1>2. e \in Entries /\ e.stage = g /\ GoodEntry(e)
  BY <1>1 DEF Entries, GoodEntry
<1> HIDE DEF e
<1>3. Swap(s, open, g) = SetTop(s, e)
  BY DEF Swap, e
<1> QED
  BY <1>1, <1>2, <1>3, SetTopKept

LEMMA PushKept ==
  ASSUME NEW s, Good(s), NEW open \in Names, NEW g \in Names, NEW parent \in Names,
         open = "VBRACE_OPEN" => g = "NONE"
  PROVE  /\ Restacked(s, PushEntry(s, open, g, parent))
         /\ Top(PushEntry(s, open, g, parent)) = [open |-> open, stage |-> g, parent |-> parent]
<1> DEFINE e == [open |-> open, stage |-> g, parent |-> parent]
           q == Append(s.frm.stack, e)
<1>1. e \in Entries /\ GoodEntry(e)
  BY DEF Entries, GoodEntry
<1> HIDE DEF e
<1>2. GoodStack(q) /\ Last(q) = e
  BY <1>1, GoodPush DEF Good
<1> HIDE DEF q
<1>3. PushEntry(s, open, g, parent) = [s EXCEPT !.frm.stack = q]
  BY DEF PushEntry, q, e
<1> QED
  BY <1>2, <1>3, StackKept DEF Top, e

LEMMA PopKept ==
  ASSUME NEW s, Good(s), Len(s.frm.stack) >= 2
  PROVE  /\ Restacked(s, PopEntry(s))
         /\ Len(PopEntry(s).frm.stack) = Len(s.frm.stack) - 1
<1> DEFINE n == Len(s.frm.stack)
           q == SubSeq(s.frm.stack, 1, n - 1)
<1>1. GoodStack(s.frm.stack) /\ n \in Nat
  BY TopEntry DEF Good
<1>2. n - 1 \in 1 .. Len(s.frm.stack)
  BY <1>1
<1>3. GoodStack(q) /\ Len(q) = n - 1
  BY <1>1, <1>2, GoodCut
<1> HIDE DEF q
<1>4. PopEntry(s) = [s EXCEPT !.frm.stack = q]
  BY <1>1 DEF PopEntry, Front, q
<1> QED
  BY <1>3, <1>4, StackKept

LEMMA LeastNumber ==
  ASSUME NEW S \in SUBSET Nat, S # {}
  PROVE  \E n \in S : \A m \in S : n <= m
<1> DEFINE less == OpToRel(<, Nat)
<1>1. IsWellFoundedOn(less, Nat)
  BY NatLessThanWellFounded
<1>2. \A x, y \in Nat : x < y => <<x, y>> \in less
  BY DEF OpToRel
<1> HIDE DEF less
<1>3. PICK n \in S : \A m \in S : ~(<<m, n>> \in less)
  BY <1>1, WFMin
<1>4. \A m \in S : ~(m < n)
  BY <1>2, <1>3
<1> QED
  BY <1>4

LEMMA MinIn ==
  ASSUME NEW n \in Nat, NEW S \in SUBSET (1 .. n), S # {}
  PROVE  Min(S) \in S /\ \A x \in S : Min(S) <= x
<1>1. PICK m \in S : \A x \in S : m <= x
  BY LeastNumber
<1> QED
  BY <1>1 DEF Min

LEMMA MaxIn ==
  ASSUME NEW n \in Nat, NEW S \in SUBSET (1 .. n), S # {}
  PROVE  Max(S) \in S /\ \A x \in S : x <= Max(S)
<1> DEFINE T == {k \in Nat : n - k \in S}
<1>1. T # {}
  <2>1. PICK x \in S : TRUE
    OBVIOUS
  <2>2. n - x \in Nat /\ n - (n - x) = x
    BY <2>1
  <2> QED
    BY <2>1, <2>2
<1>2. PICK k \in T : \A j \in T : k <= j
  BY <1>1, LeastNumber
<1>3. ASSUME NEW x \in S
      PROVE  x <= n - k
  <2>1. x \in 1 .. n /\ n - x \in Nat /\ n - (n - x) = x
    OBVIOUS
  <2> QED
    BY <1>2, <2>1
<1>4. n - k \in S
  BY <1>2
<1> HIDE DEF T
<1>5. \E m \in S : \A x \in S : m >= x
  BY <1>3, <1>4
<1> QED
  BY <1>5 DEF Max

-----------------------------------------------------------------------------
(* What comes after the current chunk                                      *)

LEMMA LaterType ==
  ASSUME NEW s, s \in States, s.pc \in 0 .. Len(s.chunks)
  PROVE  Later(s) \in Seq(Chunks) /\ Len(Later(s)) = Len(s.chunks) - s.pc
<1> DEFINE n == Len(s.chunks) - s.pc
<1>1. s.chunks \in Seq(Chunks) /\ s.pc \in Nat
  BY DEF States
<1>2. n \in Nat /\ \A k \in 1 .. n : s.pc + k \in 1 .. Len(s.chunks)
  BY <1>1
<1>3. \A k \in 1 .. n : s.chunks[s.pc + k] \in Chunks
  BY <1>1, <1>2
<1>4. Later(s) = [k \in 1 .. n |-> s.chunks[s.pc + k]]
  BY DEF Later, Rest
<1> HIDE DEF n
<1>5. [k \in 1 .. n |-> s.chunks[s.pc + k]] \in Seq(Chunks)
  BY <1>2, <1>3
<1>6. Len([k \in 1 .. n |-> s.chunks[s.pc + k]]) = n
  BY <1>2
<1> QED
  BY <1>4, <1>5, <1>6 DEF n

LEMMA NextComes ==
  ASSUME NEW s, Good(s), NEW types, NextNcNnl(s).type \in types, "NULL" \notin types
  PROVE  Comes(Later(s), types)
<1> DEFINE after == {i \in s.pc + 1 .. Len(s.chunks) : ~IsLayout(s.chunks[i])}
           m == Min(after)
<1>1. s.pc \in 1 .. Len(s.chunks) /\ Len(s.chunks) \in Nat /\ s \in States
  BY DEF Good, States
<1>2. after # {} /\ NextNcNnl(s) = s.chunks[m]
  BY DEF NextNcNnl, NoChunk, Chunk
<1>3. after \in SUBSET (1 .. Len(s.chunks))
  BY <1>1
<1>4. m \in after /\ \A x \in after : m <= x
  BY <1>1, <1>2, <1>3, MinIn
<1> HIDE DEF m
<1> DEFINE k == m - s.pc
<1>5. m \in s.pc + 1 .. Len(s.chunks) /\ ~IsLayout(s.chunks[m])
  BY <1>4
<1>6. \A j \in s.pc + 1 .. m - 1 : IsLayout(s.chunks[j])
  BY <1>1, <1>4, <1>5
<1>7. k \in 1 .. Len(s.chunks) - s.pc /\ s.pc + k = m
  BY <1>1, <1>5
<1>8. \A j \in 1 .. k - 1 : s.pc + j \in s.pc + 1 .. m - 1
  BY <1>1, <1>5
<1> HIDE DEF k, after
<1>9. Len(Later(s)) = Len(s.chunks) - s.pc
  BY <1>1, LaterType
<1>10. \A j \in 1 .. k - 1 : j \in 1 .. Len(s.chunks) - s.pc
  BY <1>1, <1>7
<1>11. Later(s)[k] = s.chunks[m] /\ \A j \in 1 .. k - 1 : Later(s)[j] = s.chunks[s.pc + j]
  BY <1>7, <1>10 DEF Later, Rest
<1> QED
  BY <1>2, <1>5, <1>6, <1>7, <1>8, <1>9, <1>11 DEF Comes

LEMMA Inserted ==
  ASSUME NEW S, NEW q, q \in Seq(S), NEW e, e \in S, NEW k, k \in 1 .. Len(q) + 1
  PROVE  /\ InsertAt(q, k, e) \in Seq(S)
         /\ Len(InsertAt(q, k, e)) = Len(q) + 1
         /\ \A i \in 1 .. Len(q) + 1 :
              InsertAt(q, k, e)[i] = IF i < k THEN q[i] ELSE IF i = k THEN e ELSE q[i - 1]
<1> DEFINE a == SubSeq(q, 1, k - 1)
           b == SubSeq(q, k, Len(q))
<1>1. Len(q) \in Nat /\ k \in Nat /\ k >= 1 /\ k <= Len(q) + 1
  OBVIOUS
<1>2. a \in Seq(S) /\ Len(a) = k - 1 /\ \A i \in 1 .. k - 1 : a[i] = q[i]
  BY <1>1
<1>3. /\ b \in Seq(S) /\ Len(b) = Len(q) - k + 1
      /\ \A i \in 1 .. Len(q) - k + 1 : b[i] = q[k + i - 1]
  BY <1>1
<1>4. <<e>> \in Seq(S) /\ Len(<<e>>) = 1 /\ <<e>>[1] = e
  OBVIOUS
<1> HIDE DEF a, b
<1> DEFINE c == a \o <<e>>
<1>5. c \in Seq(S) /\ Len(c) = k /\ \A i \in 1 .. k : c[i] = IF i < k THEN q[i] ELSE e
  BY <1>1, <1>2, <1>4
<1> HIDE DEF c
<1>6. /\ c \o b \in Seq(S) /\ Len(c \o b) = Len(q) + 1
      /\ \A i \in 1 .. Len(q) + 1 : (c \o b)[i] = IF i <= k THEN c[i] ELSE b[i - k]
  <2>1. Len(c) + Len(b) = Len(q) + 1
    BY <1>1, <1>3, <1>5
  <2>2. /\ c \o b \in Seq(S) /\ Len(c \o b) = Len(c) + Len(b)
        /\ \A i \in 1 .. Len(c) + Len(b) :
             (c \o b)[i] = IF i <= Len(c) THEN c[i] ELSE b[i - Len(c)]
    BY <1>3, <1>5, ConcatProperties
  <2> QED
    BY <1>5, <2>1, <2>2
<1>7. ASSUME NEW i \in 1 .. Len(q) + 1, i > k
      PROVE  b[i - k] = q[i - 1]
  <2>1. i - k \in 1 .. Len(q) - k + 1 /\ k + (i - k) - 1 = i - 1
    BY <1>1, <1>7
  <2> QED
    BY <1>3, <2>1
<1>8. \A i \in 1 .. Len(q) + 1 : i <= k => c[i] = IF i < k THEN q[i] ELSE e
  BY <1>1, <1>5
<1>9. InsertAt(q, k, e) = c \o b
  BY DEF InsertAt, a, b, c
<1> QED
  BY <1>1, <1>6, <1>7, <1>8, <1>9

LEMMA VBraceChunk ==
  ASSUME NEW s, Good(s), NEW c \in Chunks, NEW type \in {"VBRACE_OPEN", "VBRACE_CLOSE"}
  PROVE  /\ VBrace(s, c, type) \in Chunks /\ VBrace(s, c, type).type = type
         /\ VBrace(s, c, type).in_preproc = c.in_preproc
         /\ ~IsLayout(VBrace(s, c, type))
<1>1. Top(s) \in Entries /\ s.frm \in Frames
  BY TopEntry DEF Good, Top, States
<1>2. Top(s).open \in Names /\ s.frm.paren_level \in Int /\ s.frm.brace_level \in Int
  BY <1>1 DEF Entries, Frames
<1> DEFINE open == Top(s).open
           level == s.frm.paren_level
           brace == s.frm.brace_level
           d == Chunk(type, "NONE", c.in_preproc)
<1>3. /\ d \in Chunks /\ d.type = type /\ d.in_preproc = c.in_preproc
      /\ c.in_sparen \in BOOLEAN
  <2>1. type \in Names /\ "NONE" \in Names
    BY AllNames
  <2>2. c.in_preproc \in BOOLEAN /\ c.in_sparen \in BOOLEAN
    BY DEF Chunks
  <2> QED
    BY <2>1, <2>2 DEF Chunk, Chunks
<1>4. VBrace(s, c, type) = [d EXCEPT !.parent = open, !.level = level, !.brace_level = brace,
                                     !.in_sparen = c.in_sparen]
  BY DEF VBrace
<1> HIDE DEF open, level, brace, d
<1>5. /\ VBrace(s, c, type) \in Chunks /\ VBrace(s, c, type).type = type
      /\ VBrace(s, c, type).in_preproc = c.in_preproc
  BY <1>2, <1>3, <1>4 DEF Chunks, open, level, brace
<1> QED
  BY <1>5 DEF IsLayout

LEMMA HereType ==
  ASSUME NEW s, Good(s)
  PROVE  Here(s) \in Chunks /\ s.chunks \in Seq(Chunks) /\ s.pc \in Nat /\ Len(s.chunks) \in Nat
  BY DEF Good, States, Here

LEMMA InsertedRest ==
  ASSUME NEW S, NEW q, q \in Seq(S), NEW e, e \in S, NEW p, p \in 1 .. Len(q)
  PROVE  Rest(InsertAt(q, p + 1, e), p) = After(e, Rest(q, p))
<1> DEFINE c == InsertAt(q, p + 1, e)
           r == [k \in 1 .. Len(q) - p |-> q[p + k]]
           n == Len(q)
<1>1. n \in Nat /\ p \in Nat /\ p >= 1 /\ p <= n
  OBVIOUS
<1>2. /\ Len(c) = n + 1
      /\ \A i \in 1 .. n + 1 :
              c[i] = IF i < p + 1 THEN q[i] ELSE IF i = p + 1 THEN e ELSE q[i - 1]
  <2>1. p + 1 \in 1 .. Len(q) + 1
    BY <1>1
  <2> QED
    BY <2>1, Inserted
<1> HIDE DEF c
<1>3. Len(r) = n - p
  BY <1>1
<1>4. ASSUME NEW k \in 1 .. n + 1 - p
      PROVE  c[p + k] = IF k = 1 THEN e ELSE r[k - 1]
  <2>1. p + k \in 1 .. n + 1 /\ ~(p + k < p + 1)
    BY <1>1
  <2>2. c[p + k] = IF p + k = p + 1 THEN e ELSE q[p + k - 1]
    BY <1>2, <2>1
  <2>3. CASE k = 1
    BY <1>1, <2>2, <2>3
  <2>4. CASE k # 1
    <3>1. k - 1 \in 1 .. n - p /\ p + (k - 1) = p + k - 1 /\ p + k # p + 1
      BY <1>1, <2>4
    <3>2. r[k - 1] = q[p + (k - 1)]
      BY <3>1
    <3> HIDE DEF r
    <3> QED
      BY <2>2, <2>4, <3>1, <3>2
  <2> QED
    BY <2>3, <2>4
<1> HIDE DEF r, n
<1>5. n + 1 - p = n - p + 1
  BY <1>1
<1>6. [k \in 1 .. Len(c) - p |-> c[p + k]] = [k \in 1 .. Len(r) + 1 |-> IF k = 1 THEN e ELSE r[k - 1]]
  <2>1. [k \in 1 .. n + 1 - p |-> c[p + k]] = [k \in 1 .. n + 1 - p |-> IF k = 1 THEN e ELSE r[k - 1]]
    BY <1>4, Zenon
  <2>2. Len(c) - p = n + 1 - p /\ Len(r) + 1 = n + 1 - p
    BY <1>1, <1>2, <1>3, <1>5
  <2> QED
    BY <2>1, <2>2, Zenon
<1> QED
  BY <1>6 DEF After, Rest, c, r, n

LEMMA CloserInserted ==
  ASSUME NEW s, Good(s)
  PROVE  LET t == InsertCloseAfter(s, s.pc)
         IN  /\ Good(t) /\ SameFrames(s, t) /\ Quiet(s, t)
             /\ t.frm = s.frm /\ Here(t) = Here(s)
             /\ CloserPut(s, t)
<1> DEFINE e == VBrace(s, Here(s), "VBRACE_CLOSE")
           c == InsertAt(s.chunks, s.pc + 1, e)
           t == [s EXCEPT !.chunks = c]
           n == Len(s.chunks)
           p == s.pc
<1>1. Here(s) \in Chunks /\ s.chunks \in Seq(Chunks) /\ p \in 1 .. n /\ n \in Nat
  BY HereType DEF Good
<1>2. e \in Chunks /\ e.type = "VBRACE_CLOSE" /\ e.in_preproc = Here(s).in_preproc
  BY <1>1, VBraceChunk
<1>3. InsertCloseAfter(s, s.pc) = t
  BY DEF InsertCloseAfter, Here
<1> HIDE DEF e
<1>4. /\ c \in Seq(Chunks) /\ Len(c) = n + 1
      /\ \A i \in 1 .. n + 1 :
              c[i] = IF i < p + 1 THEN s.chunks[i] ELSE IF i = p + 1 THEN e ELSE s.chunks[i - 1]
  <2> DEFINE q == s.chunks
             k == p + 1
  <2>1. k \in 1 .. Len(q) + 1 /\ q \in Seq(Chunks)
    BY <1>1
  <2> HIDE DEF q, k
  <2>2. /\ InsertAt(q, k, e) \in Seq(Chunks)
         /\ Len(InsertAt(q, k, e)) = Len(q) + 1
         /\ \A i \in 1 .. Len(q) + 1 :
              InsertAt(q, k, e)[i] = IF i < k THEN q[i] ELSE IF i = k THEN e ELSE q[i - 1]
    BY ONLY <1>2, <2>1, Inserted
  <2> QED
    BY <2>2 DEF q, k
<1>5. c[p] = Here(s)
  BY <1>1, <1>4 DEF Here
<1> HIDE DEF c
<1>6. t \in States /\ t.chunks = c /\ t.pc = p /\ t.frm = s.frm
  BY <1>4 DEF Good, States
<1>7. Good(t) /\ SameFrames(s, t) /\ Quiet(s, t) /\ Here(t) = Here(s)
  BY <1>1, <1>4, <1>5, <1>6 DEF Good, SameFrames, Quiet, Here, States
<1>8. Later(t) = After(e, Later(s))
  <2> HIDE DEF t
  <2>1. Later(t) = Rest(c, s.pc) /\ Later(s) = Rest(s.chunks, s.pc)
    BY <1>6 DEF Later
  <2>2. /\ s.chunks \in Seq(Chunks) /\ e \in Chunks /\ s.pc \in 1 .. Len(s.chunks)
    BY <1>1, <1>2
  <2>3. Rest(InsertAt(s.chunks, s.pc + 1, e), s.pc) = After(e, Rest(s.chunks, s.pc))
    BY <2>2, InsertedRest
  <2> QED
    BY <2>1, <2>3 DEF c
<1>9. CloserPut(s, t)
  BY <1>2, <1>8 DEF CloserPut
<1> QED
  BY <1>3, <1>6, <1>7, <1>9


-----------------------------------------------------------------------------
(* The end of a statement, at a chunk that is consumed                     *)

\* Nothing but the outcome of the turn differs.
SameBut(s, t) ==
  /\ t \in States /\ t.chunks = s.chunks /\ t.pc = s.pc /\ t.frm = s.frm
  /\ t.frames = s.frames /\ t.pp_level = s.pp_level /\ t.in_preproc = s.in_preproc

LEMMA OutcomeKept ==
  ASSUME NEW s, NEW t, Good(s), SameBut(s, t)
  PROVE  /\ Kept(s, t) /\ Here(t) = Here(s) /\ Top(t) = Top(s)
         /\ NextNcNnl(t) = NextNcNnl(s)
  BY DEF SameBut, Good, Kept, SameFrames, Here, Later, Top, NextNcNnl

LEMMA Outcomes ==
  ASSUME NEW s, s \in States, NEW r \in BOOLEAN
  PROVE  /\ SameBut(s, Return(s, r)) /\ Return(s, r).result = r
         /\ Return(s, r).exited = s.exited /\ Return(s, r).consumed = s.consumed
         /\ SameBut(s, Stop(s)) /\ Stop(s).exited /\ Stop(s).consumed = s.consumed
         /\ SameBut(s, [s EXCEPT !.consumed = r]) /\ [s EXCEPT !.consumed = r].consumed = r
         /\ [s EXCEPT !.consumed = r].exited = s.exited
  BY DEF States, SameBut, Return, Stop

\* A frame that waits for a part of its statement gets it.
Fits(stage, q) ==
  /\ stage = "ELSE"  => Comes(q, {"ELSE"})
  /\ stage = "CATCH" => Comes(q, {"CATCH", "FINALLY"})

\* What the functions that end a statement make of s.
Closed(s, t) ==
  /\ t \in States /\ t.consumed /\ Here(t) = Here(s)
  /\ \/ t.exited
     \/ /\ Good(t) /\ SameFrames(s, t)
        /\ Len(t.frm.stack) <= Len(s.frm.stack)
        /\ \/ Later(t) = Later(s) /\ Fits(Top(t).stage, Later(t))
           \/ CloserPut(s, t) /\ Top(t).open = "VBRACE_OPEN"

LEMMA StageName ==
  ASSUME NEW e, NEW type
  PROVE  /\ NextStage(e, type) \in Names
         /\ NextStage(e, type) = "ELSE" => type = "ELSE"
         /\ NextStage(e, type) = "CATCH" => type \in {"CATCH", "FINALLY"}
         /\ NextStage(e, type) = "CLOSE" => e.stage # "NONE"
         /\ e.stage = "NONE" => NextStage(e, type) = "PROBLEM"
  BY AllNames DEF NextStage

LEMMA GoOnCloses ==
  ASSUME NEW s, Good(s), s.consumed
  PROVE  Closed(s, GoOn(s))
<1> DEFINE stage == NextStage(Top(s), NextNcNnl(s).type)
           u == InsertCloseAfter(s, s.pc)
           v == SetStage(s, stage)
<1>0. s \in States
  BY DEF Good
<1>1. CASE Top(s).open = "VBRACE_OPEN"
  <2>1. /\ Good(u) /\ SameFrames(s, u) /\ Quiet(s, u) /\ u.frm = s.frm /\ Here(u) = Here(s)
        /\ CloserPut(s, u)
    BY CloserInserted
  <2> HIDE DEF u
  <2> DEFINE t == Return(u, FALSE)
  <2>2. SameBut(u, t) /\ t.consumed = u.consumed
    BY <2>1, Outcomes DEF Good
  <2>3. GoOn(s) = t
    BY <1>1 DEF GoOn, u
  <2> HIDE DEF t
  <2>4. Kept(u, t) /\ Here(t) = Here(u) /\ Top(t) = Top(u)
    BY <2>1, <2>2, OutcomeKept
  <2>5. t \in States /\ t.consumed /\ t.frm = s.frm
    BY <2>1, <2>2 DEF SameBut, Quiet
  <2>6. Len(t.frm.stack) <= Len(s.frm.stack)
    BY <2>5, TopEntry DEF Good
  <2>7. CloserPut(s, t) /\ SameFrames(s, t) /\ Good(t)
    BY <2>1, <2>4 DEF CloserPut, Kept, SameFrames
  <2>8. Top(t).open = "VBRACE_OPEN"
    BY <1>1, <2>5 DEF Top
  <2> QED
    BY <2>1, <2>3, <2>4, <2>5, <2>6, <2>7, <2>8 DEF Closed
<1>2. CASE Top(s).open # "VBRACE_OPEN" /\ Top(s).stage = "NONE"
  <2> DEFINE t == Return(s, FALSE)
  <2>1. SameBut(s, t) /\ t.consumed = s.consumed
    BY <1>0, Outcomes
  <2>2. GoOn(s) = t
    BY <1>2 DEF GoOn
  <2> HIDE DEF t
  <2>3. Kept(s, t) /\ Here(t) = Here(s) /\ Top(t) = Top(s)
    BY <2>1, OutcomeKept
  <2>4. Len(t.frm.stack) <= Len(s.frm.stack)
    BY <2>1, TopEntry DEF Good, SameBut
  <2>5. Fits(Top(t).stage, Later(t))
    BY <1>2, <2>3 DEF Fits
  <2> QED
    BY <2>1, <2>2, <2>3, <2>4, <2>5 DEF Closed, Kept, SameBut
<1>3. CASE Top(s).open # "VBRACE_OPEN" /\ Top(s).stage # "NONE" /\ stage = "PROBLEM"
  <2> DEFINE u1 == Stop(s)
             t == Return(u1, TRUE)
  <2>1. SameBut(s, u1) /\ u1.exited /\ u1.consumed = s.consumed
    BY <1>0, Outcomes
  <2>2. u1 \in States /\ TRUE \in BOOLEAN
    BY <2>1 DEF SameBut
  <2> HIDE DEF u1
  <2>4. SameBut(u1, t) /\ t.exited = u1.exited /\ t.consumed = u1.consumed
    BY <2>2, Outcomes
  <2>3. GoOn(s) = t
    BY <1>3 DEF GoOn, u1
  <2> HIDE DEF t
  <2> QED
    BY <2>1, <2>3, <2>4 DEF Closed, SameBut, Here
<1>4. CASE Top(s).open # "VBRACE_OPEN" /\ Top(s).stage # "NONE" /\ stage # "PROBLEM"
  <2>1. stage \in Names
    BY StageName
  <2>2. /\ Restacked(s, v) /\ Top(v).stage = stage
        /\ Len(v.frm.stack) = Len(s.frm.stack)
    BY <1>4, <2>1, StageKept
  <2>3. Here(v) = Here(s) /\ Kept(s, v) /\ v.consumed
    BY <2>2 DEF Restacked, Here, Quiet
  <2>4. Fits(stage, Later(s))
    <3>1. stage = "ELSE" => NextNcNnl(s).type \in {"ELSE"}
      BY StageName
    <3>2. stage = "CATCH" => NextNcNnl(s).type \in {"CATCH", "FINALLY"}
      BY StageName
    <3>3. "NULL" \notin {"ELSE"} /\ "NULL" \notin {"CATCH", "FINALLY"}
      OBVIOUS
    <3> HIDE DEF stage
    <3>4. stage = "ELSE" => Comes(Later(s), {"ELSE"})
      BY <3>1, <3>3, NextComes
    <3>5. stage = "CATCH" => Comes(Later(s), {"CATCH", "FINALLY"})
      BY <3>2, <3>3, NextComes
    <3> QED
      BY <3>4, <3>5 DEF Fits
  <2>5. GoOn(s) = Return(v, FALSE)
    BY <1>4 DEF GoOn
  <2> HIDE DEF v, stage
  <2> DEFINE t == Return(v, FALSE)
  <2>6. SameBut(v, t) /\ t.consumed = v.consumed
    BY <2>3, Outcomes DEF Kept, Good
  <2> HIDE DEF t
  <2>7. Kept(v, t) /\ Here(t) = Here(v) /\ Top(t) = Top(v)
    BY <2>3, <2>6, OutcomeKept DEF Kept
  <2>8. Kept(s, t)
    BY <2>3, <2>7, KeptAgain
  <2>9. Len(t.frm.stack) <= Len(s.frm.stack)
    BY <2>2, <2>6, TopEntry DEF Good, SameBut
  <2>10. Fits(Top(t).stage, Later(t))
    BY <2>2, <2>4, <2>7, <2>8 DEF Kept
  <2>11. GoOn(s) = t
    BY <2>5 DEF t
  <2> QED
    BY <2>3, <2>6, <2>7, <2>8, <2>9, <2>10, <2>11 DEF Closed, Kept, SameBut
<1> QED
  BY <1>1, <1>2, <1>3, <1>4

LEMMA ClosedAfter ==
  ASSUME NEW s, NEW t, NEW u, Good(s), Kept(s, t), Here(t) = Here(s),
         Len(t.frm.stack) <= Len(s.frm.stack), Closed(t, u)
  PROVE  Closed(s, u)
<1>1. Here(u) = Here(s) /\ u \in States /\ u.consumed
  BY DEF Closed
<1>2. CASE u.exited
  BY <1>1, <1>2 DEF Closed
<1>3. CASE ~u.exited
  <2>1. Good(u) /\ SameFrames(t, u) /\ Len(u.frm.stack) <= Len(t.frm.stack)
    BY <1>3 DEF Closed
  <2>2. Len(u.frm.stack) \in Nat /\ Len(t.frm.stack) \in Nat /\ Len(s.frm.stack) \in Nat
    BY <2>1, TopEntry DEF Good, Kept
  <2>3. SameFrames(s, u) /\ Len(u.frm.stack) <= Len(s.frm.stack)
    BY <2>1, <2>2 DEF Kept, SameFrames
  <2>4. \/ Later(u) = Later(s) /\ Fits(Top(u).stage, Later(u))
        \/ CloserPut(s, u) /\ Top(u).open = "VBRACE_OPEN"
    BY <1>3 DEF Closed, CloserPut, Kept
  <2> QED
    BY <1>1, <2>1, <2>3, <2>4 DEF Closed
<1> QED
  BY <1>2, <1>3

LEMMA StatementCloses ==
  ASSUME NEW s, Good(s), s.consumed
  PROVE  Closed(s, CloseStatement(s))
<1> DEFINE n == Len(s.frm.stack)
           remaining == {i \in DOMAIN s.frm.stack : Remains(s, s.frm.stack[i])}
           r == Remaining(s)
           q == SubSeq(s.frm.stack, 1, r)
           left == [s EXCEPT !.frm.stack = q]
           u == Fresh(left, TRUE)
<1>1. GoodStack(s.frm.stack) /\ n \in Nat /\ n >= 1 /\ s.frm.stack[1] = Bottom
  BY TopEntry DEF Good, GoodStack
<1>2. DOMAIN s.frm.stack = 1 .. n
  BY <1>1 DEF GoodStack
<1>3. Remains(s, Bottom)
  <2>1. Bottom.stage = "NONE"
    BY DEF Bottom
  <2>2. NextStage(Bottom, NextNcNnl(s).type) = "PROBLEM"
    BY <2>1, StageName
  <2> QED
    BY <2>2 DEF Remains
<1>4. 1 \in remaining /\ remaining \in SUBSET (1 .. n)
  BY <1>1, <1>2, <1>3
<1>5. r \in 1 .. n
  <2> HIDE DEF remaining, n
  <2>1. Max(remaining) \in remaining
    BY <1>1, <1>4, MaxIn
  <2> QED
    BY <1>4, <2>1 DEF Remaining, remaining
<1> HIDE DEF r
<1>6. GoodStack(q) /\ Len(q) = r
  BY <1>1, <1>5, GoodCut
<1> HIDE DEF q
<1>7. Restacked(s, left) /\ left.frm.stack = q
  BY <1>6, StackKept
<1>8. CloseStatement(s) = GoOn(u)
  BY DEF CloseStatement, q, r
<1> HIDE DEF left
<1>9. Counted(left, u)
  BY <1>7, CountersKept, 0 \in Int DEF Restacked, Kept
<1> HIDE DEF u
<1>10. Kept(s, left) /\ Kept(left, u) /\ Here(u) = Here(s) /\ u.consumed /\ u.frm.stack = q
  BY <1>7, <1>9 DEF Restacked, Counted, Here, Quiet
<1>11. Kept(s, u) /\ Len(u.frm.stack) <= n
  BY <1>1, <1>5, <1>6, <1>10, KeptAgain
<1>12. Closed(u, GoOn(u))
  BY <1>10, <1>11, GoOnCloses DEF Kept
<1> QED
  BY <1>8, <1>10, <1>11, <1>12, ClosedAfter

LEMMA ComplexCloses ==
  ASSUME NEW s, Good(s), s.consumed
  PROVE  Closed(s, HandleComplexClose(s)) /\ Closed(s, EndStatement(s))
<1> DEFINE stage == NextStage(Top(s), NextNcNnl(s).type)
           u == PopEntry(s)
<1>1. ASSUME stage = "CLOSE"
      PROVE  Closed(s, CloseStatement(u))
  <2>1. Len(s.frm.stack) >= 2 /\ Len(s.frm.stack) \in Nat
    BY <1>1, StageName, TopEntry DEF Good, Top
  <2>2. Restacked(s, u) /\ Len(u.frm.stack) = Len(s.frm.stack) - 1
    BY <2>1, PopKept
  <2> HIDE DEF u
  <2>3. Kept(s, u) /\ Here(u) = Here(s) /\ u.consumed /\ Len(u.frm.stack) <= Len(s.frm.stack)
    BY <2>1, <2>2 DEF Restacked, Here, Quiet
  <2>4. Closed(u, CloseStatement(u))
    BY <2>3, StatementCloses DEF Kept
  <2> QED
    BY <2>3, <2>4, ClosedAfter
<1>2. Closed(s, HandleComplexClose(s))
  BY <1>1, GoOnCloses DEF HandleComplexClose
<1>3. Top(s).stage = "NONE" => Closed(s, Return(s, FALSE))
  <2> DEFINE t == Return(s, FALSE)
  <2>1. SameBut(s, t) /\ t.consumed = s.consumed
    BY Outcomes DEF Good
  <2> HIDE DEF t
  <2>2. Kept(s, t) /\ Here(t) = Here(s) /\ Top(t) = Top(s)
    BY <2>1, OutcomeKept
  <2>3. Len(t.frm.stack) <= Len(s.frm.stack)
    BY <2>1, TopEntry DEF Good, SameBut
  <2>4. Top(s).stage = "NONE" => Fits(Top(t).stage, Later(t))
    BY <2>2 DEF Fits
  <2> QED
    BY <2>1, <2>2, <2>3, <2>4 DEF Closed, Kept, SameBut, t
<1> QED
  BY <1>2, <1>3 DEF EndStatement

-----------------------------------------------------------------------------
(* The steps of a turn                                                     *)

\* An opening virtual brace finds its place: there is code before pc, and a
\* newline if that is in a directive.
Ready(s) ==
  \E p \in 1 .. s.pc - 1 :
    /\ ~IsLayout(s.chunks[p]) /\ \A i \in p + 1 .. s.pc - 1 : IsLayout(s.chunks[i])
    /\ s.chunks[p].in_preproc /\ ~Here(s).in_preproc =>
         \E j \in p + 1 .. s.pc - 1 : s.chunks[j].type = "NEWLINE"

Going(s, t) == Kept(s, t) /\ Quiet(s, t) /\ (Ready(s) => Ready(t))

LEMMA GoingAgain ==
  ASSUME NEW s, NEW t, NEW u, Going(s, t), Going(t, u)
  PROVE  Going(s, u)
  BY KeptAgain DEF Going, Quiet

LEMMA SameGoes ==
  ASSUME NEW s, NEW t, Kept(s, t), Quiet(s, t), t.chunks = s.chunks, t.pc = s.pc
  PROVE  Going(s, t) /\ Here(t) = Here(s)
  BY DEF Going, Ready, Here

LEMMA NothingGoes ==
  ASSUME NEW s, Good(s)
  PROVE  Going(s, s)
  BY DEF Going, Kept, Quiet, SameFrames

LEMMA ChunkGoes ==
  ASSUME NEW s, Good(s), NEW c \in Chunks, ~IsLayout(c), c.in_preproc = Here(s).in_preproc
  PROVE  /\ Going(s, SetHere(s, c)) /\ Here(SetHere(s, c)) = c
         /\ SetHere(s, c).frm = s.frm
<1> DEFINE t == SetHere(s, c)
<1>1. Kept(s, t) /\ Quiet(s, t) /\ Here(t) = c /\ t.frm = s.frm /\ t.pc = s.pc
  BY SetHereKept
<1>2. s.pc \in Nat /\ s.chunks \in Seq(Chunks)
  BY HereType
<1>3. \A i \in 1 .. s.pc - 1 : t.chunks[i] = s.chunks[i]
  BY <1>2 DEF SetHere, Good, States
<1> HIDE DEF t
<1>4. Ready(s) => Ready(t)
  <2> SUFFICES ASSUME Ready(s)
               PROVE  Ready(t)
    OBVIOUS
  <2>1. PICK p \in 1 .. s.pc - 1 :
          /\ ~IsLayout(s.chunks[p]) /\ \A i \in p + 1 .. s.pc - 1 : IsLayout(s.chunks[i])
          /\ s.chunks[p].in_preproc /\ ~Here(s).in_preproc =>
               \E j \in p + 1 .. s.pc - 1 : s.chunks[j].type = "NEWLINE"
    BY DEF Ready
  <2>2. \A i \in p + 1 .. s.pc - 1 : t.chunks[i] = s.chunks[i]
    BY <1>2, <1>3
  <2>3. t.chunks[p] = s.chunks[p] /\ Here(t).in_preproc = Here(s).in_preproc
    BY <1>1, <1>3
  <2>4. t.chunks[p].in_preproc /\ ~Here(t).in_preproc =>
          \E j \in p + 1 .. s.pc - 1 : t.chunks[j].type = "NEWLINE"
    BY <2>1, <2>2, <2>3
  <2>5. ~IsLayout(t.chunks[p]) /\ \A i \in p + 1 .. s.pc - 1 : IsLayout(t.chunks[i])
    BY <2>1, <2>2, <2>3
  <2> QED
    BY <1>1, <2>4, <2>5 DEF Ready
<1> QED
  BY <1>1, <1>4 DEF Going, t

\* The chunk is still of its type, and the stack of the frame is untouched.
Same(s, t) == Going(s, t) /\ Here(t).type = Here(s).type /\ t.frm.stack = s.frm.stack

LEMMA SameAgain ==
  ASSUME NEW s, NEW t, NEW u, Same(s, t), Same(t, u)
  PROVE  Same(s, u)
  BY GoingAgain DEF Same

LEMMA CountersSame ==
  ASSUME NEW s, Good(s), NEW f \in BOOLEAN, NEW n \in Int
  PROVE  Same(s, Fresh(s, f)) /\ Same(s, Deeper(s, n)) /\ Same(s, DeeperBrace(s, n))
  BY CountersKept, SameGoes DEF Counted, Same

LEMMA SpareChunk ==
  ASSUME NEW s, Good(s), NEW c \in Chunks, c.type = Here(s).type, c.in_preproc = Here(s).in_preproc
  PROVE  Same(s, SetHere(s, c)) /\ Here(SetHere(s, c)) = c /\ SetHere(s, c).frm = s.frm
<1>1. ~IsLayout(c)
  BY DEF Good, IsLayout
<1> QED
  BY <1>1, ChunkGoes DEF Same

LEMMA LevelSame ==
  ASSUME NEW s, Good(s)
  PROVE  Same(s, LevelHere(s)) /\ LevelHere(s).frm = s.frm
<1> DEFINE c == [Here(s) EXCEPT !.level = s.frm.paren_level, !.brace_level = s.frm.brace_level]
<1>1. c \in Chunks /\ c.type = Here(s).type /\ c.in_preproc = Here(s).in_preproc
  <2>1. Here(s) \in Chunks /\ s.frm.paren_level \in Int /\ s.frm.brace_level \in Int
    BY HereType DEF Good, States, Frames
  <2> QED
    BY <2>1 DEF Chunks
<1> HIDE DEF c
<1>2. LevelHere(s) = SetHere(s, c)
  BY DEF LevelHere, c
<1> QED
  BY <1>1, <1>2, SpareChunk

LEMMA StartSame ==
  ASSUME NEW s, Good(s)
  PROVE  Same(s, StartHere(s))
<1> DEFINE c == [Here(s) EXCEPT !.start = TRUE]
           u == SetHere(s, c)
<1>1. c \in Chunks /\ c.type = Here(s).type /\ c.in_preproc = Here(s).in_preproc
  BY HereType DEF Chunks
<1> HIDE DEF c
<1>2. Same(s, u)
  BY <1>1, SpareChunk
<1>3. StartHere(s) = Fresh(u, FALSE)
  BY DEF StartHere, c
<1> HIDE DEF u
<1>4. Same(u, Fresh(u, FALSE))
  BY <1>2, CountersSame, 0 \in Int DEF Same, Going, Kept
<1> QED
  BY <1>2, <1>3, <1>4, SameAgain

LEMMA MarkSame ==
  ASSUME NEW s, Good(s)
  PROVE  Same(s, MarkStart(s))
<1> DEFINE start == s.frm.fresh /\ Here(s).type \notin Closers \cup {"SEMICOLON"}
           in == s.frm.sparen_count > 0
           stack == s.frm.stack
           for == in /\ Here(s).type = "SEMICOLON" /\ Len(stack) > 2 /\ Second(stack).open = "FOR"
           c == [Here(s) EXCEPT !.start = start, !.in_sparen = in, !.parent = IF for THEN "FOR" ELSE @]
           u == SetHere(s, c)
<1>1. c \in Chunks /\ c.type = Here(s).type /\ c.in_preproc = Here(s).in_preproc
  <2>1. start \in BOOLEAN /\ in \in BOOLEAN
    <3>1. s.frm.fresh \in BOOLEAN /\ s.frm.sparen_count \in Int
      BY DEF Good, States, Frames
    <3> QED
      BY <3>1
  <2>2. Here(s) \in Chunks /\ "FOR" \in Names
    BY HereType, AllNames
  <2> DEFINE parent == IF for THEN "FOR" ELSE Here(s).parent
  <2>3. parent \in Names
    BY <2>2 DEF Chunks
  <2>4. c = [Here(s) EXCEPT !.start = start, !.in_sparen = in, !.parent = parent]
    OBVIOUS
  <2> HIDE DEF start, in, for, parent, c
  <2> QED
    BY <2>1, <2>2, <2>3, <2>4 DEF Chunks
<1>2. MarkStart(s) = Fresh(u, FALSE)
  BY DEF MarkStart
<1> HIDE DEF c
<1>3. Same(s, u)
  BY <1>1, SpareChunk
<1> HIDE DEF u
<1>4. Same(u, Fresh(u, FALSE))
  BY <1>3, CountersSame, 0 \in Int DEF Same, Going, Kept
<1> QED
  BY <1>2, <1>3, <1>4, SameAgain

-----------------------------------------------------------------------------
(* A virtual brace is opened                                               *)

LEMMA PlaceBefore ==
  ASSUME NEW s, Good(s), Ready(s), ~Here(s).in_preproc
  PROVE  OpenPlace(s) \in 1 .. s.pc - 1
<1> DEFINE before == {i \in 1 .. s.pc - 1 : ~IsLayout(s.chunks[i])}
           n == s.pc
<1>1. n \in Nat /\ n >= 1 /\ s.chunks \in Seq(Chunks)
  BY HereType DEF Good
<1>2. PICK p \in 1 .. n - 1 :
        /\ ~IsLayout(s.chunks[p]) /\ \A i \in p + 1 .. n - 1 : IsLayout(s.chunks[i])
        /\ s.chunks[p].in_preproc /\ ~Here(s).in_preproc =>
             \E j \in p + 1 .. n - 1 : s.chunks[j].type = "NEWLINE"
  BY DEF Ready
<1>3. p \in before /\ before \in SUBSET (1 .. n)
  BY <1>1, <1>2
<1>4. Max(before) \in before /\ \A x \in before : x <= Max(before)
  <2> HIDE DEF before, n
  <2> QED
    BY <1>1, <1>3, MaxIn
<1>5. Max(before) = p
  <2>1. Max(before) \in 1 .. n - 1 /\ ~IsLayout(s.chunks[Max(before)]) /\ p <= Max(before)
    BY <1>3, <1>4
  <2> DEFINE m == Max(before)
  <2> HIDE DEF m, before
  <2>2. ~(m \in p + 1 .. n - 1)
    BY <1>2, <2>1 DEF m
  <2>3. m \in 1 .. n - 1 /\ p <= m
    BY <2>1 DEF m
  <2>4. m = p
    BY <1>1, <2>2, <2>3
  <2> QED
    BY <2>4 DEF m
<1>6. PrevIndex(s) = p
  BY <1>3, <1>5 DEF PrevIndex
<1> DEFINE Comment(i) == s.chunks[i].type = "COMMENT"
           i0 == CHOOSE i \in p + 2 .. n : ~Comment(i) /\ \A j \in p + 2 .. i - 1 : Comment(j)
           q == IF s.chunks[p].in_preproc THEN IF Comment(p + 1) THEN i0 ELSE p + 1 ELSE p
<1>7. OpenPlace(s) = IF Comment(n - 1) THEN q + 1 ELSE q
  BY <1>6 DEF OpenPlace, IsComment
<1>8. ~Comment(p)
  BY <1>2 DEF IsLayout
<1>9. CASE ~s.chunks[p].in_preproc
  <2>1. q = p
    BY <1>9
  <2>2. Comment(n - 1) => p # n - 1
    BY <1>8
  <2> HIDE DEF q, Comment, n
  <2> QED
    BY <1>1, <1>2, <1>7, <2>1, <2>2 DEF n
<1>10. CASE s.chunks[p].in_preproc
  <2>1. PICK j \in p + 1 .. n - 1 : s.chunks[j].type = "NEWLINE"
    BY <1>2, <1>10
  <2>2. ~Comment(j) /\ j \in Nat /\ p < j /\ j < n
    BY <1>1, <2>1
  <2>3. q \in p + 1 .. n - 1 /\ ~Comment(q)
    <3>1. CASE ~Comment(p + 1)
      BY <1>1, <1>2, <1>10, <2>2, <3>1
    <3>2. CASE Comment(p + 1)
      <4>1. j # p + 1
        BY <2>2, <3>2
      <4> DEFINE S == {i \in p + 2 .. n - 1 : ~Comment(i)}
      <4>2. j \in S /\ S \in SUBSET Nat
        BY <1>1, <1>2, <2>2, <4>1
      <4> HIDE DEF n
      <4>3. PICK i \in S : \A k \in S : i <= k
        <5> HIDE DEF S
        <5> QED
          BY <4>2, LeastNumber
      <4>4. i \in p + 2 .. n - 1 /\ ~Comment(i)
        BY <4>3
      <4>5. \A k \in p + 2 .. i - 1 : Comment(k)
        BY <1>1, <1>2, <4>3, <4>4
      <4>6. i \in p + 2 .. n
        BY <1>1, <4>4
      <4>7. i0 \in p + 2 .. n /\ ~Comment(i0) /\ \A k \in p + 2 .. i0 - 1 : Comment(k)
        BY <4>4, <4>5, <4>6
      <4> HIDE DEF i0
      <4>8. ~(j \in p + 2 .. i0 - 1) /\ j \in p + 2 .. n - 1
        BY <2>2, <4>2, <4>7
      <4>9. i0 \in p + 2 .. n - 1
        <5> HIDE DEF Comment
        <5> QED
          BY <1>1, <4>7, <4>8
      <4>10. q = i0
        BY <1>10, <3>2
      <4> HIDE DEF q, Comment
      <4> QED
        BY <1>1, <4>7, <4>9, <4>10
    <3> QED
      BY <3>1, <3>2
  <2>4. Comment(n - 1) => q # n - 1
    BY <2>3
  <2> HIDE DEF q, Comment, n
  <2> QED
    BY <1>1, <1>2, <1>7, <2>3, <2>4 DEF n
<1> QED
  BY <1>9, <1>10

LEMMA OpenInserted ==
  ASSUME NEW s, Good(s), Ready(s), ~Here(s).in_preproc
  PROVE  LET t == InsertOpenBefore(s)
         IN  Kept(s, t) /\ Quiet(s, t) /\ Here(t) = Here(s) /\ t.frm = s.frm
<1> DEFINE place == OpenPlace(s)
           before == PrevIndex(s)
           p == s.pc
           n == Len(s.chunks)
           q == s.chunks
           d == [i \in 1 .. Len(s.chunks) |->
                   IF before < i /\ i < s.pc
                   THEN [s.chunks[i] EXCEPT !.level = @ + 1, !.brace_level = @ + 1]
                   ELSE s.chunks[i]]
           e == [VBrace(s, Here(s), "VBRACE_OPEN") EXCEPT !.pp_level = s.chunks[place].pp_level]
           c == InsertAt(d, place + 1, e)
           t == [s EXCEPT !.chunks = c, !.pc = s.pc + 1]
<1>1. Here(s) \in Chunks /\ q \in Seq(Chunks) /\ p \in 1 .. n /\ n \in Nat
  BY HereType DEF Good
<1>2. place \in 1 .. p - 1
  BY PlaceBefore
<1>3. e \in Chunks
  <2> DEFINE v == VBrace(s, Here(s), "VBRACE_OPEN")
  <2>1. v \in Chunks
    BY <1>1, VBraceChunk
  <2>2. place \in 1 .. n
    BY <1>1, <1>2
  <2>3. s.chunks[place].pp_level \in Int
    <3>1. s.chunks[place] \in Chunks
      BY <1>1, <2>2
    <3> QED
      BY <3>1 DEF Chunks
  <2> HIDE DEF v
  <2>4. [v EXCEPT !.pp_level = s.chunks[place].pp_level] \in Chunks
    BY <2>1, <2>3 DEF Chunks
  <2> QED
    BY <2>4 DEF v
<1>4. d \in Seq(Chunks) /\ Len(d) = n /\ \A i \in p .. n : d[i] = s.chunks[i]
  <2>1. ASSUME NEW i \in 1 .. Len(s.chunks)
        PROVE  d[i] \in Chunks
    <3> DEFINE o == s.chunks[i]
    <3>1. o \in Chunks
      BY <1>1
    <3>2. d[i] = o \/ d[i] = [o EXCEPT !.level = @ + 1, !.brace_level = @ + 1]
      OBVIOUS
    <3> HIDE DEF o, d
    <3> DEFINE x == o.level + 1
               y == o.brace_level + 1
    <3>4. x \in Int /\ y \in Int
      BY <3>1 DEF Chunks
    <3> HIDE DEF x, y
    <3>5. [o EXCEPT !.level = x, !.brace_level = y] \in Chunks
      BY <3>1, <3>4 DEF Chunks
    <3>3. [o EXCEPT !.level = @ + 1, !.brace_level = @ + 1] \in Chunks
      BY <3>5 DEF x, y
    <3> QED
      BY <3>1, <3>2, <3>3
  <2>2. d = [i \in 1 .. Len(s.chunks) |-> d[i]]
    OBVIOUS
  <2>3. ASSUME NEW i \in p .. n
        PROVE  d[i] = s.chunks[i]
    <3>1. i \in 1 .. Len(s.chunks) /\ ~(i < s.pc)
      BY <1>1
    <3> HIDE DEF before
    <3> QED
      BY <3>1
  <2> HIDE DEF d
  <2>4. d \in Seq(Chunks) /\ Len(d) = n
    <3>1. \A i \in 1 .. n : d[i] \in Chunks
      BY <2>1
    <3> HIDE DEF n
    <3>2. [i \in 1 .. n |-> d[i]] \in Seq(Chunks) /\ Len([i \in 1 .. n |-> d[i]]) = n
      BY <1>1, <3>1
    <3> QED
      BY <2>2, <3>2 DEF n
  <2> QED
    BY <2>3, <2>4
<1>5. InsertOpenBefore(s) = t
  BY DEF InsertOpenBefore
<1> HIDE DEF d, e, place
<1>6. /\ c \in Seq(Chunks) /\ Len(c) = Len(d) + 1
      /\ \A i \in 1 .. Len(d) + 1 :
              c[i] = IF i < place + 1 THEN d[i] ELSE IF i = place + 1 THEN e ELSE d[i - 1]
  <2>1. place + 1 \in 1 .. Len(d) + 1
    BY <1>1, <1>2, <1>4
  <2> QED
    BY <1>3, <1>4, <2>1, Inserted
<1> HIDE DEF c, p, n
<1>7. ASSUME NEW k \in 0 .. n - p
      PROVE  c[p + 1 + k] = s.chunks[p + k]
  <2>1. p + k \in p .. n /\ p + 1 + k \in 1 .. n + 1 /\ p + 1 + k - 1 = p + k
    BY <1>1
  <2>2. ~(p + 1 + k < place + 1) /\ p + 1 + k # place + 1
    BY <1>1, <1>2
  <2> DEFINE i == p + 1 + k
  <2>4. i \in 1 .. Len(d) + 1 /\ ~(i < place + 1) /\ i # place + 1
    BY <1>4, <2>1, <2>2
  <2> HIDE DEF i
  <2>5. c[i] = d[i - 1]
    BY <1>6, <2>4
  <2>6. i - 1 = p + k
    BY <1>1, <2>1 DEF i
  <2>3. c[p + 1 + k] = d[p + k]
    BY <2>5, <2>6, Zenon DEF i
  <2> QED
    <3>1. d[p + k] = s.chunks[p + k]
      BY <1>4, <2>1
    <3> QED
      BY <2>3, <3>1
<1>8. t.chunks = c /\ t.pc = p + 1 /\ t.frm = s.frm /\ t \in States
  <2>1. c \in Seq(Chunks) /\ s.pc + 1 \in Nat
    BY <1>1, <1>6 DEF p
  <2> QED
    BY <2>1 DEF Good, States, p
<1>9. Here(t) = Here(s)
  <2>1. 0 \in 0 .. n - p /\ p + 1 + 0 = p + 1 /\ p + 0 = p
    BY <1>1
  <2>2. c[p + 1] = s.chunks[p]
    BY <1>7, <2>1
  <2> QED
    BY <1>8, <2>2 DEF Here, p
<1>10. Later(t) = Later(s)
  <2>1. Rest(c, p + 1) = [k \in 1 .. n - p |-> c[p + 1 + k]]
    <3>1. Len(c) - (p + 1) = n - p
      BY <1>1, <1>4, <1>6
    <3> QED
      BY <3>1, Zenon DEF Rest
  <2>2. Rest(s.chunks, p) = [k \in 1 .. n - p |-> s.chunks[p + k]]
    BY DEF Rest, n
  <2>3. \A k \in 1 .. n - p : c[p + 1 + k] = s.chunks[p + k]
    <3>1. \A k \in 1 .. n - p : k \in 0 .. n - p
      BY <1>1
    <3> QED
      BY <1>7, <3>1, Zenon
  <2>4. [k \in 1 .. n - p |-> c[p + 1 + k]] = [k \in 1 .. n - p |-> s.chunks[p + k]]
    BY <2>3, Zenon
  <2> HIDE DEF t
  <2>5. Later(t) = Rest(c, p + 1) /\ Later(s) = Rest(s.chunks, p)
    BY <1>8 DEF Later, p
  <2> QED
    BY <2>1, <2>2, <2>4, <2>5
<1>11. Quiet(s, t) /\ SameFrames(s, t)
  BY DEF Good, States, Quiet, SameFrames
<1>12. t.pc \in 1 .. Len(t.chunks)
  BY <1>1, <1>4, <1>6, <1>8
<1> HIDE DEF t
<1>13. Kept(s, t)
  BY <1>8, <1>9, <1>10, <1>11, <1>12 DEF Kept, Good
<1> QED
  BY <1>5, <1>8, <1>9, <1>11, <1>13

\* Same, but for the look back.
LEMMA VBraceOpened ==
  ASSUME NEW s, Good(s), Ready(s), NeedsVBrace(s)
  PROVE  /\ Kept(s, OpenVBrace(s)) /\ Quiet(s, OpenVBrace(s))
         /\ Here(OpenVBrace(s)).type = Here(s).type
         /\ Top(OpenVBrace(s)).stage = "NONE"
<1> DEFINE a == InsertOpenBefore(s)
           b == Deeper(a, 1)
           c == DeeperBrace(b, 1)
           d == PushEntry(c, "VBRACE_OPEN", "NONE", Top(a).open)
           e == LevelHere(d)
           f == StartHere(e)
<1>0. ~Here(s).in_preproc
  BY DEF NeedsVBrace
<1>1. Kept(s, a) /\ Quiet(s, a) /\ Here(a) = Here(s) /\ a.frm = s.frm
  BY <1>0, OpenInserted
<1>2. OpenVBrace(s) = f
  BY DEF OpenVBrace, PushVBrace
<1> HIDE DEF a
<1>3. Same(a, b)
  BY <1>1, CountersSame, 1 \in Int, TRUE \in BOOLEAN DEF Kept
<1> HIDE DEF b
<1>4. Same(b, c)
  BY <1>3, CountersSame, 1 \in Int, TRUE \in BOOLEAN DEF Kept, Same, Going
<1> HIDE DEF c
<1>5. Restacked(c, d) /\ Top(d).stage = "NONE"
  <2>1. Good(c) /\ Top(a) \in Entries
    BY <1>1, <1>4, TopEntry DEF Kept, Same, Going, Good, Top
  <2>2. Top(a).open \in Names /\ "VBRACE_OPEN" \in Names /\ "NONE" \in Names
    BY <2>1, AllNames DEF Entries
  <2> DEFINE parent == Top(a).open
  <2> HIDE DEF parent
  <2>3. /\ Restacked(c, PushEntry(c, "VBRACE_OPEN", "NONE", parent))
        /\ Top(PushEntry(c, "VBRACE_OPEN", "NONE", parent))
             = [open |-> "VBRACE_OPEN", stage |-> "NONE", parent |-> parent]
    BY <2>1, <2>2, PushKept DEF parent
  <2> QED
    BY <2>3 DEF parent
<1> HIDE DEF d
<1>6. Going(c, d) /\ Here(d) = Here(c)
  BY <1>5, SameGoes DEF Restacked
<1>7. Same(d, e)
  BY <1>6, LevelSame DEF Going, Kept
<1> HIDE DEF e
<1>8. Same(e, f)
  BY <1>7, StartSame DEF Going, Kept, Same
<1> HIDE DEF f
<1>9. Going(a, f)
  BY <1>3, <1>4, <1>6, <1>7, <1>8, GoingAgain DEF Same
<1>10. Kept(s, f) /\ Quiet(s, f)
  BY <1>1, <1>9, KeptAgain DEF Going, Quiet
<1>11. Here(f).type = Here(s).type /\ Top(f) = Top(d)
  BY <1>1, <1>3, <1>4, <1>6, <1>7, <1>8 DEF Same, Top
<1> QED
  BY <1>2, <1>5, <1>10, <1>11

-----------------------------------------------------------------------------
(* check_complex_statements()                                              *)

Waiting == {"ELSE", "CATCH"}

\* A frame that waits for a part of its statement has got it.
Awaited(s) ==
  /\ Top(s).stage = "ELSE"  => Here(s).type = "ELSE"
  /\ Top(s).stage = "CATCH" => Here(s).type \in {"CATCH", "FINALLY"}

\* Going, with another result.
Moves(s, t) ==
  /\ Kept(s, t) /\ (Ready(s) => Ready(t))
  /\ t.consumed = s.consumed /\ t.exited = s.exited

LEMMA MovesAgain ==
  ASSUME NEW s, NEW t, NEW u, Moves(s, t), Moves(t, u)
  PROVE  Moves(s, u)
  BY KeptAgain DEF Moves

LEMMA GoingMoves ==
  ASSUME NEW s, NEW t, Going(s, t)
  PROVE  Moves(s, t)
  BY DEF Going, Moves, Quiet

LEMMA RestackedGoes ==
  ASSUME NEW s, NEW t, Restacked(s, t)
  PROVE  Going(s, t) /\ Here(t) = Here(s)
  BY SameGoes DEF Restacked

LEMMA ReturnMoves ==
  ASSUME NEW s, Good(s), NEW r \in BOOLEAN
  PROVE  /\ Moves(s, Return(s, r)) /\ Here(Return(s, r)) = Here(s)
         /\ Top(Return(s, r)) = Top(s) /\ Return(s, r).result = r
         /\ Return(s, r).frm = s.frm
<1> DEFINE t == Return(s, r)
<1>0. s \in States
  BY DEF Good
<1>1. SameBut(s, t) /\ t.exited = s.exited /\ t.consumed = s.consumed
  BY <1>0, Outcomes
<1>4. t.result = r
  BY <1>0 DEF States, Return
<1> HIDE DEF t
<1>2. Kept(s, t) /\ Here(t) = Here(s) /\ Top(t) = Top(s)
  BY <1>1, OutcomeKept
<1>3. Ready(s) => Ready(t)
  BY <1>1, <1>2 DEF Ready, SameBut
<1> QED
  BY <1>1, <1>2, <1>3, <1>4 DEF Moves, SameBut, t

LEMMA OptionalParenMoves ==
  ASSUME NEW s, Good(s), Awaited(s)
  PROVE  Going(s, OptionalParen(s)) /\ Here(OptionalParen(s)) = Here(s) /\ Awaited(OptionalParen(s))
<1>1. CASE Top(s).stage # "OP_PAREN1"
  BY <1>1, NothingGoes DEF OptionalParen
<1>2. CASE Top(s).stage = "OP_PAREN1"
  <2> DEFINE g == IF Here(s).type = "PAREN_OPEN" THEN "PAREN1" ELSE "BRACE2"
             t == SetStage(s, g)
  <2>1. g \in Names /\ g \notin Waiting
    BY AllNames DEF Waiting, Names, Types
  <2>2. OptionalParen(s) = t
    BY <1>2 DEF OptionalParen
  <2> HIDE DEF g
  <2>3. Restacked(s, t) /\ Top(t).stage = g
    BY <1>2, <2>1, StageKept
  <2> HIDE DEF t
  <2>4. Going(s, t) /\ Here(t) = Here(s)
    BY <2>3, RestackedGoes
  <2> QED
    BY <2>1, <2>2, <2>3, <2>4 DEF Awaited, Waiting
<1> QED
  BY <1>1, <1>2

LEMMA AfterIfMoves ==
  ASSUME NEW s, Good(s), Awaited(s)
  PROVE  LET t == AfterIf(s)
         IN  /\ Moves(s, t) /\ Here(t) = Here(s) /\ Awaited(t) /\ Top(t).stage # "ELSE"
             /\ t.result => Top(t).stage \notin Waiting
<1>1. CASE Top(s).stage # "ELSE"
  <2> DEFINE t == Return(s, FALSE)
  <2>1. Moves(s, t) /\ Here(t) = Here(s) /\ Top(t) = Top(s) /\ ~t.result
    BY ReturnMoves
  <2>2. AfterIf(s) = t
    BY <1>1 DEF AfterIf
  <2> HIDE DEF t
  <2> QED
    BY <1>1, <2>1, <2>2 DEF Awaited
<1>2. CASE Top(s).stage = "ELSE"
  <2> DEFINE u == Swap(s, "ELSE", "ELSEIF")
             t == Return(u, TRUE)
  <2>1. AfterIf(s) = t
    BY <1>2 DEF AfterIf, Awaited
  <2>0. "ELSE" \in Names /\ "ELSEIF" \in Names /\ Top(s).stage # "NONE"
    BY <1>2, AllNames
  <2>2. Restacked(s, u) /\ Top(u).stage = "ELSEIF"
    BY <2>0, SwapKept
  <2> HIDE DEF u
  <2>3. Going(s, u) /\ Here(u) = Here(s) /\ Good(u)
    BY <2>2, RestackedGoes DEF Restacked, Kept
  <2>4. Moves(u, t) /\ Here(t) = Here(u) /\ Top(t) = Top(u)
    BY <2>3, ReturnMoves
  <2> HIDE DEF t
  <2> QED
    BY <2>1, <2>2, <2>3, <2>4, GoingMoves, MovesAgain DEF Awaited, Waiting
<1> QED
  BY <1>1, <1>2

\* The chunk gets another type, and the top entry another keyword and stage.
LEMMA RetypedMoves ==
  ASSUME NEW s, Good(s), Top(s).stage # "NONE", NEW type \in Names, ~(type \in {"COMMENT", "NEWLINE"}),
         type # "VBRACE_OPEN", NEW g \in Names
  PROVE  LET t == Return(Swap(SetHere(s, [Here(s) EXCEPT !.type = type]), type, g), TRUE)
         IN  Moves(s, t) /\ Top(t).stage = g /\ t.result
<1> DEFINE c == [Here(s) EXCEPT !.type = type]
           u == SetHere(s, c)
           v == Swap(u, type, g)
           t == Return(v, TRUE)
<1>1. c \in Chunks /\ c.in_preproc = Here(s).in_preproc /\ c.type = type
  BY HereType DEF Chunks
<1>2. ~IsLayout(c)
  BY <1>1 DEF IsLayout
<1> HIDE DEF c
<1>3. Going(s, u) /\ u.frm = s.frm
  BY <1>1, <1>2, ChunkGoes
<1> HIDE DEF u
<1>4. Good(u) /\ Top(u).stage # "NONE"
  BY <1>3 DEF Going, Kept, Top
<1>5. Restacked(u, v) /\ Top(v).stage = g
  BY <1>4, SwapKept
<1> HIDE DEF v
<1>6. Going(u, v) /\ Good(v)
  BY <1>5, RestackedGoes DEF Restacked, Kept
<1>7. Moves(v, t) /\ Top(t) = Top(v) /\ t.result
  BY <1>6, ReturnMoves
<1> HIDE DEF t
<1>8. Moves(s, t)
  BY <1>3, <1>6, <1>7, GoingMoves, MovesAgain
<1> QED
  BY <1>5, <1>7, <1>8 DEF t, v, u, c

LEMMA AfterElseMoves ==
  ASSUME NEW s, Good(s), Awaited(s), Top(s).stage # "ELSE"
  PROVE  LET t == AfterElse(s)
         IN  /\ Moves(s, t)
             /\ IF t.result THEN Top(t).stage \notin Waiting ELSE Awaited(t) /\ Top(t).stage # "ELSE"
<1>1. CASE Top(s).stage # "ELSEIF"
  <2> DEFINE t == Return(s, FALSE)
  <2>1. Moves(s, t) /\ Here(t) = Here(s) /\ Top(t) = Top(s) /\ ~t.result
    BY ReturnMoves
  <2>2. AfterElse(s) = t
    BY <1>1 DEF AfterElse
  <2> HIDE DEF t
  <2> QED
    BY <1>1, <2>1, <2>2 DEF Awaited
<1>2. CASE Top(s).stage = "ELSEIF" /\ Here(s).type = "IF"
  <2> DEFINE t == Return(Swap(SetHere(s, [Here(s) EXCEPT !.type = "ELSEIF"]), "ELSEIF", "PAREN1"), TRUE)
  <2>1. Moves(s, t) /\ Top(t).stage = "PAREN1" /\ t.result
    BY <1>2, AllNames, RetypedMoves
  <2>2. AfterElse(s) = t
    BY <1>2 DEF AfterElse
  <2> HIDE DEF t
  <2> QED
    BY <2>1, <2>2 DEF Waiting
<1>3. CASE Top(s).stage = "ELSEIF" /\ Here(s).type # "IF"
  <2> DEFINE u == SetStage(s, "BRACE2")
             t == Return(u, FALSE)
  <2>1. Restacked(s, u) /\ Top(u).stage = "BRACE2"
    BY <1>3, AllNames, StageKept
  <2>2. AfterElse(s) = t
    BY <1>3 DEF AfterElse
  <2> HIDE DEF u
  <2>3. Going(s, u) /\ Good(u)
    BY <2>1, RestackedGoes DEF Restacked, Kept
  <2>4. Moves(u, t) /\ Top(t) = Top(u) /\ ~t.result
    BY <2>3, ReturnMoves
  <2> HIDE DEF t
  <2>5. Moves(s, t)
    BY <2>3, <2>4, GoingMoves, MovesAgain
  <2> QED
    BY <2>1, <2>2, <2>4, <2>5 DEF Awaited
<1> QED
  BY <1>1, <1>2, <1>3

LEMMA AfterTryMoves ==
  ASSUME NEW s, Good(s), Awaited(s), Top(s).stage # "ELSE"
  PROVE  Moves(s, AfterTry(s)) /\ Top(AfterTry(s)).stage \notin Waiting
<1>1. CASE Top(s).stage # "CATCH"
  <2> DEFINE t == Return(s, FALSE)
  <2>1. Moves(s, t) /\ Top(t) = Top(s)
    BY ReturnMoves
  <2>2. AfterTry(s) = t
    BY <1>1 DEF AfterTry
  <2> HIDE DEF t
  <2> QED
    BY <1>1, <2>1, <2>2 DEF Waiting
<1>2. CASE Top(s).stage = "CATCH"
  <2>1. ASSUME NEW open \in {"CATCH", "FINALLY"}, NEW g \in {"PAREN1", "BRACE2"}
        PROVE  /\ Moves(s, Return(Swap(s, open, g), TRUE))
               /\ Top(Return(Swap(s, open, g), TRUE)).stage \notin Waiting
    <3> DEFINE u == Swap(s, open, g)
               t == Return(u, TRUE)
    <3>1. open \in Names /\ g \in Names /\ open # "VBRACE_OPEN"
      BY AllNames DEF Names
    <3>2. Restacked(s, u) /\ Top(u).stage = g
      BY <1>2, <3>1, SwapKept
    <3> HIDE DEF u
    <3>3. Going(s, u) /\ Good(u)
      BY <3>2, RestackedGoes DEF Restacked, Kept
    <3>4. Moves(u, t) /\ Top(t) = Top(u)
      BY <3>3, ReturnMoves
    <3> HIDE DEF t
    <3>5. Moves(s, t) /\ Top(t).stage \notin Waiting
      BY <3>2, <3>3, <3>4, GoingMoves, MovesAgain DEF Waiting
    <3> QED
      BY <3>5 DEF t, u
  <2>2. \/ AfterTry(s) = Return(Swap(s, "CATCH", "PAREN1"), TRUE)
        \/ AfterTry(s) = Return(Swap(s, "FINALLY", "BRACE2"), TRUE)
    BY <1>2 DEF AfterTry, Awaited
  <2> QED
    BY <2>1, <2>2
<1> QED
  BY <1>1, <1>2

\* What check_complex_statements() makes of s.
Checked(s, t) ==
  /\ t \in States /\ t.consumed = s.consumed
  /\ ~t.exited => Kept(s, t) /\ Top(t).stage \notin Waiting

LEMMA MovedChecks ==
  ASSUME NEW s, NEW t, NEW u, Moves(s, t), Checked(t, u)
  PROVE  Checked(s, u)
  BY KeptAgain DEF Checked, Moves

LEMMA StopChecks ==
  ASSUME NEW s, s \in States
  PROVE  Checked(s, Return(Stop(s), TRUE)) /\ Return(Stop(s), TRUE).exited
<1> DEFINE u == Stop(s)
           t == Return(u, TRUE)
<1>1. u \in States /\ u.exited /\ u.consumed = s.consumed
  BY Outcomes, TRUE \in BOOLEAN DEF SameBut
<1> HIDE DEF u
<1>2. TRUE \in BOOLEAN
  OBVIOUS
<1>4. SameBut(u, t) /\ t.exited = u.exited /\ t.consumed = u.consumed
  BY <1>1, <1>2, Outcomes
<1> HIDE DEF t
<1>3. Checked(s, t) /\ t.exited
  BY <1>1, <1>4 DEF Checked, SameBut
<1> QED
  BY <1>3 DEF t, u

LEMMA AfterDoMoves ==
  ASSUME NEW s, Good(s), Top(s).stage \notin Waiting
  PROVE  LET t == AfterDo(s)
         IN  /\ Checked(s, t)
             /\ ~t.exited => Moves(s, t)
<1>1. CASE Top(s).stage # "WHILE"
  <2> DEFINE t == Return(s, FALSE)
  <2>1. Moves(s, t) /\ Top(t) = Top(s)
    BY ReturnMoves
  <2>2. AfterDo(s) = t
    BY <1>1 DEF AfterDo
  <2> HIDE DEF t
  <2> QED
    BY <2>1, <2>2 DEF Checked, Moves, Kept, Good
<1>2. CASE Top(s).stage = "WHILE" /\ Here(s).type = "WHILE"
  <2> DEFINE t == Return(Swap(SetHere(s, [Here(s) EXCEPT !.type = "WHILE_OF_DO"]),
                              "WHILE_OF_DO", "WOD_PAREN"), TRUE)
  <2>0. "WHILE_OF_DO" \in Names /\ "WOD_PAREN" \in Names /\ Top(s).stage # "NONE"
    BY <1>2, AllNames
  <2>1. Moves(s, t) /\ Top(t).stage = "WOD_PAREN"
    BY <2>0, RetypedMoves
  <2>2. AfterDo(s) = t
    BY <1>2 DEF AfterDo
  <2> HIDE DEF t
  <2> QED
    BY <2>1, <2>2 DEF Waiting, Checked, Moves, Kept, Good
<1>3. CASE Top(s).stage = "WHILE" /\ Here(s).type # "WHILE"
  <2>1. AfterDo(s) = Return(Stop(s), TRUE)
    BY <1>3 DEF AfterDo
  <2> QED
    BY <2>1, StopChecks DEF Good
<1> QED
  BY <1>1, <1>2, <1>3

LEMMA NeedParenChecks ==
  ASSUME NEW s, Good(s), Top(s).stage \notin Waiting
  PROVE  Checked(s, NeedParen(s))
<1> DEFINE t == Return(s, FALSE)
<1>1. Moves(s, t) /\ Top(t) = Top(s)
  BY ReturnMoves
<1>2. NeedParen(s) = t \/ NeedParen(s) = Return(Stop(s), TRUE)
  BY DEF NeedParen
<1> HIDE DEF t
<1>3. Checked(s, t)
  BY <1>1 DEF Checked, Moves, Kept, Good
<1>4. Checked(s, Return(Stop(s), TRUE))
  BY StopChecks DEF Good
<1> QED
  BY <1>2, <1>3, <1>4

LEMMA BracesCheck ==
  ASSUME NEW s, Good(s), Ready(s), Top(s).stage \notin Waiting
  PROVE  Checked(s, NeedParen(OpenVBrace(s)))
<1>1. CASE ~NeedsVBrace(s)
  BY <1>1, NeedParenChecks DEF OpenVBrace
<1>2. CASE NeedsVBrace(s)
  <2> DEFINE t == OpenVBrace(s)
  <2>1. Kept(s, t) /\ Quiet(s, t) /\ Top(t).stage = "NONE"
    BY <1>2, VBraceOpened
  <2> HIDE DEF t
  <2>2. Good(t) /\ Top(t).stage \notin Waiting
    BY <2>1 DEF Kept, Waiting
  <2>3. Checked(t, NeedParen(t))
    BY <2>2, NeedParenChecks
  <2>4. Checked(s, NeedParen(t))
    BY <2>1, <2>3, KeptAgain DEF Checked, Quiet
  <2> QED
    BY <2>4 DEF t
<1> QED
  BY <1>1, <1>2

LEMMA Checks ==
  ASSUME NEW s, Good(s), ~s.exited, Awaited(s), Top(s).stage # "NONE" => Ready(s)
  PROVE  Checked(s, CheckComplexStatements(s))
<1>1. CASE Top(s).stage = "NONE"
  <2> DEFINE t == Return(s, FALSE)
  <2>1. Moves(s, t) /\ Top(t) = Top(s)
    BY ReturnMoves
  <2>2. CheckComplexStatements(s) = t
    BY <1>1 DEF CheckComplexStatements
  <2> HIDE DEF t
  <2> QED
    BY <1>1, <2>1, <2>2 DEF Checked, Moves, Kept, Good, Waiting
<1>2. CASE Top(s).stage # "NONE"
  <2> DEFINE a == OptionalParen(s)
             b == AfterIf(a)
             c == IF b.result \/ b.exited THEN b ELSE AfterElse(b)
             d == IF c.result \/ c.exited THEN c ELSE AfterTry(c)
             e == IF d.result \/ d.exited THEN d ELSE AfterDo(d)
             f == IF e.result \/ e.exited THEN e ELSE NeedParen(OpenVBrace(e))
  <2>1. CheckComplexStatements(s) = f
    BY <1>2 DEF CheckComplexStatements, Then
  <2>2. Going(s, a) /\ Awaited(a)
    BY OptionalParenMoves
  <2> HIDE DEF a
  <2>3. Moves(s, a) /\ Good(a)
    BY <2>2, GoingMoves DEF Moves, Kept
  <2>4. Moves(a, b) /\ Awaited(b) /\ Top(b).stage # "ELSE" /\ (b.result => Top(b).stage \notin Waiting)
    BY <2>2, <2>3, AfterIfMoves
  <2> HIDE DEF b
  <2>5. Moves(s, b) /\ Good(b) /\ ~b.exited
    BY <2>3, <2>4, MovesAgain DEF Moves, Kept
  <2>6. /\ Moves(s, c)
        /\ IF c.result THEN Top(c).stage \notin Waiting ELSE Awaited(c) /\ Top(c).stage # "ELSE"
    <3>1. CASE b.result
      BY <2>4, <2>5, <3>1
    <3>2. CASE ~b.result
      BY <2>4, <2>5, <3>2, AfterElseMoves, MovesAgain
    <3> QED
      BY <3>1, <3>2
  <2> HIDE DEF c
  <2>7. Good(c) /\ ~c.exited
    BY <2>6 DEF Moves, Kept
  <2>8. Moves(s, d) /\ Top(d).stage \notin Waiting
    BY <2>6, <2>7, AfterTryMoves, MovesAgain
  <2> HIDE DEF d
  <2>9. Good(d) /\ ~d.exited
    BY <2>8 DEF Moves, Kept
  <2>10. Checked(s, e) /\ (~e.exited => Moves(s, e))
    <3>1. CASE d.result
      BY <2>8, <2>9, <3>1 DEF Checked, Moves, Kept, Good
    <3>2. CASE ~d.result
      BY <2>8, <2>9, <3>2, AfterDoMoves, MovesAgain, MovedChecks
    <3> QED
      BY <3>1, <3>2
  <2> HIDE DEF e
  <2>11. Checked(s, f)
    <3>1. CASE e.result \/ e.exited
      BY <2>10, <3>1
    <3>2. CASE ~(e.result \/ e.exited)
      <4>1. Moves(s, e) /\ Good(e) /\ Ready(e) /\ Top(e).stage \notin Waiting
        BY <1>2, <2>10, <3>2 DEF Moves, Kept, Checked
      <4> QED
        BY <3>2, <4>1, BracesCheck, MovedChecks
    <3> QED
      BY <3>1, <3>2
  <2> QED
    BY <2>1, <2>11
<1> QED
  BY <1>1, <1>2

-----------------------------------------------------------------------------
(* parse_cleanup()                                                         *)

Ending == Closers \cup {"SEMICOLON"}

\* What the end of statements at pc makes of s.
Ended(s, t) ==
  /\ t \in States
  /\ ~t.exited =>
       /\ Good(t) /\ SameFrames(s, t) /\ Here(t).in_preproc = Here(s).in_preproc
       /\ \/ Later(t) = Later(s) /\ Fits(Top(t).stage, Later(t))
          \/ CloserPut(s, t) /\ Top(t).open = "VBRACE_OPEN" /\ Here(t).type \in Ending

LEMMA ClosedEnds ==
  ASSUME NEW s, NEW t, Closed(s, t), Here(s).type \in Ending
  PROVE  Ended(s, t)
  BY DEF Closed, Ended

LEMMA KeptEnds ==
  ASSUME NEW s, NEW t, Kept(s, t), Top(t).stage \notin Waiting
  PROVE  Ended(s, t)
  BY DEF Kept, Good, Ended, Fits, Waiting

LEMMA EndedAfter ==
  ASSUME NEW s, NEW t, NEW u, Kept(s, t), Ended(t, u)
  PROVE  Ended(s, u)
  BY DEF Kept, Ended, CloserPut, SameFrames

LEMMA EndedBut ==
  ASSUME NEW s, NEW t, NEW u, Ended(s, t), SameBut(t, u), u.exited = t.exited
  PROVE  Ended(s, u)
<1>1. CASE t.exited
  BY <1>1 DEF Ended, SameBut
<1>2. CASE ~t.exited
  <2>1. Good(t)
    BY <1>2 DEF Ended
  <2>2. Kept(t, u) /\ Here(u) = Here(t) /\ Top(u) = Top(t)
    BY <2>1, OutcomeKept
  <2> QED
    BY <1>2, <2>2 DEF Ended, Kept, CloserPut, SameFrames, Good
<1> QED
  BY <1>1, <1>2

LEMMA StopEnds ==
  ASSUME NEW s, NEW t, t \in States
  PROVE  Ended(s, Stop(t))
<1>1. SameBut(t, Stop(t)) /\ Stop(t).exited
  BY Outcomes, TRUE \in BOOLEAN
<1> QED
  BY <1>1 DEF Ended, SameBut

LEMMA ConsumedGoes ==
  ASSUME NEW s, Good(s)
  PROVE  LET t == [s EXCEPT !.consumed = TRUE]
         IN  /\ Kept(s, t) /\ Here(t) = Here(s) /\ Top(t) = Top(s) /\ t.consumed
             /\ t.frm = s.frm
<1> DEFINE t == [s EXCEPT !.consumed = TRUE]
<1>1. SameBut(s, t) /\ t.consumed
  <2>1. s \in States /\ TRUE \in BOOLEAN
    BY DEF Good
  <2> QED
    BY <2>1, Outcomes
<1> HIDE DEF t
<1>2. Kept(s, t) /\ Here(t) = Here(s) /\ Top(t) = Top(s) /\ t.frm = s.frm
  BY <1>1, OutcomeKept DEF SameBut
<1> QED
  BY <1>1, <1>2 DEF t

LEMMA SParenCloseGoes ==
  ASSUME NEW s, Good(s), Here(s).type \in Closers
  PROVE  LET t == SParenClose(s)
         IN  /\ Going(s, t) /\ Here(t).type \in Closers /\ t.frm.stack = s.frm.stack
             /\ Here(s).type = "VBRACE_CLOSE" => t = s
<1>1. CASE ~(Here(s).type = "PAREN_CLOSE" /\ Top(s).open = "SPAREN_OPEN")
  BY <1>1, NothingGoes DEF SParenClose
<1>2. CASE Here(s).type = "PAREN_CLOSE" /\ Top(s).open = "SPAREN_OPEN"
  <2> DEFINE c == [Here(s) EXCEPT !.type = "SPAREN_CLOSE", !.in_sparen = FALSE]
             u == SetHere(s, c)
             n == s.frm.sparen_count - 1
             g == [u.frm EXCEPT !.sparen_count = n]
             t == [u EXCEPT !.frm = g]
  <2>1. c \in Chunks /\ c.in_preproc = Here(s).in_preproc /\ c.type = "SPAREN_CLOSE"
    BY HereType, AllNames DEF Chunks
  <2>2. ~IsLayout(c)
    BY <2>1 DEF IsLayout
  <2>3. SParenClose(s) = t
    BY <1>2 DEF SParenClose
  <2> HIDE DEF c
  <2>4. Going(s, u) /\ u.frm = s.frm /\ Here(u) = c
    BY <2>1, <2>2, ChunkGoes
  <2> HIDE DEF u
  <2>5. Good(u) /\ u.frm \in Frames /\ n \in Int
    BY <2>4 DEF Going, Kept, Good, States, Frames
  <2> HIDE DEF n
  <2>6. g \in Frames /\ g.stack = u.frm.stack /\ g.ifdef = u.frm.ifdef
    BY <2>5 DEF Frames
  <2>7. GoodStack(g.stack)
    BY <2>5, <2>6 DEF Good
  <2> HIDE DEF g
  <2>8. Kept(u, t) /\ Quiet(u, t)
    BY <2>5, <2>6, <2>7, FrmKept
  <2>9. t.chunks = u.chunks /\ t.pc = u.pc /\ t.frm = g
    BY <2>5 DEF Good, States
  <2> HIDE DEF t
  <2>10. Going(u, t) /\ Here(t) = Here(u)
    BY <2>8, <2>9, SameGoes
  <2>11. Going(s, t)
    BY <2>4, <2>10, GoingAgain
  <2> QED
    BY <1>2, <2>1, <2>3, <2>4, <2>6, <2>9, <2>10, <2>11 DEF Closers
<1> QED
  BY <1>1, <1>2

LEMMA CloseLevelsSame ==
  ASSUME NEW s, Good(s)
  PROVE  Same(s, CloseLevels(s))
<1> DEFINE brace == IF Here(s).type \in BraceClosers /\ s.frm.brace_level > 0 THEN -1 ELSE 0
           c == [Here(s) EXCEPT !.parent = Top(s).parent]
           u == SetHere(s, c)
           v == Deeper(u, -1)
           w == DeeperBrace(v, brace)
           x == LevelHere(w)
<1>1. Here(s) \in Chunks /\ Top(s).parent \in Names
  BY HereType, TopEntry DEF Good, Top, Entries
<1>2. c \in Chunks /\ c.in_preproc = Here(s).in_preproc /\ c.type = Here(s).type
  BY <1>1 DEF Chunks
<1>3. CloseLevels(s) = x
  BY DEF CloseLevels
<1>4. brace \in Int /\ -1 \in Int
  OBVIOUS
<1> HIDE DEF brace, c
<1>5. Same(s, u)
  BY <1>2, SpareChunk
<1> HIDE DEF u
<1>6. Same(u, v)
  BY <1>4, <1>5, CountersSame, TRUE \in BOOLEAN DEF Same, Going, Kept
<1> HIDE DEF v
<1>7. Same(v, w)
  BY <1>4, <1>6, CountersSame, TRUE \in BOOLEAN DEF Same, Going, Kept
<1> HIDE DEF w
<1>8. Same(w, x)
  BY <1>7, LevelSame DEF Same, Going, Kept
<1> HIDE DEF x
<1> QED
  BY <1>3, <1>5, <1>6, <1>7, <1>8, SameAgain

LEMMA MatchingCloses ==
  ASSUME NEW s, Good(s), ~s.exited, Here(s).type \in Closers, Top(s).stage \notin Waiting
  PROVE  LET t == CloseMatching(s)
         IN  /\ Ended(s, t) /\ Here(t).type \in Closers
             /\ Here(s).type = Matching(Top(s).open) /\ ~t.exited
                  => Len(t.frm.stack) < Len(s.frm.stack)
<1>1. CASE Here(s).type = Matching(Top(s).open)
  <2> DEFINE a == [s EXCEPT !.consumed = TRUE]
             b == CloseLevels(a)
             c == PopEntry(b)
             t == EndStatement(c)
  <2>1. CloseMatching(s) = t
    BY <1>1 DEF CloseMatching
  <2>2. Kept(s, a) /\ Here(a) = Here(s) /\ Top(a) = Top(s) /\ a.consumed /\ a.frm = s.frm
    BY ConsumedGoes
  <2> HIDE DEF a
  <2>3. Same(a, b)
    BY <2>2, CloseLevelsSame DEF Kept
  <2> HIDE DEF b
  <2>4. Good(b) /\ b.consumed /\ b.frm.stack = s.frm.stack /\ Here(b).type = Here(s).type /\ Kept(s, b)
    BY <2>2, <2>3, KeptAgain DEF Same, Going, Kept, Quiet
  <2>5. Len(b.frm.stack) >= 2 /\ Len(b.frm.stack) \in Nat
    <3>1. Last(s.frm.stack) # Bottom
      BY <1>1 DEF Matching, Closers, Bottom, Top
    <3>2. GoodStack(s.frm.stack)
      BY DEF Good
    <3>4. Last(s.frm.stack) = s.frm.stack[Len(s.frm.stack)]
      BY <3>2, TopEntry
    <3>5. s.frm.stack[1] = Bottom
      BY <3>2 DEF GoodStack
    <3>3. Len(s.frm.stack) # 1
      BY <3>1, <3>4, <3>5
    <3>6. Len(s.frm.stack) \in Nat /\ Len(s.frm.stack) >= 1
      BY <3>2, TopEntry
    <3> DEFINE n == Len(s.frm.stack)
    <3>7. Len(b.frm.stack) = n
      BY <2>4
    <3>8. n # 1 /\ n \in Nat /\ n >= 1
      BY <3>3, <3>6
    <3> HIDE DEF n
    <3> QED
      BY <3>7, <3>8
  <2>6. Restacked(b, c) /\ Len(c.frm.stack) = Len(b.frm.stack) - 1
    BY <2>4, <2>5, PopKept
  <2> HIDE DEF c
  <2>7. Good(c) /\ Here(c) = Here(b) /\ c.consumed /\ Kept(b, c)
    BY <2>4, <2>6, RestackedGoes DEF Restacked, Kept, Quiet
  <2>8. Closed(c, t)
    BY <2>7, ComplexCloses
  <2> HIDE DEF t
  <2>9. Here(t) = Here(c) /\ Here(c).type \in Ending
    BY <2>4, <2>7, <2>8 DEF Closed, Ending
  <2>10. Ended(s, t)
    BY <2>4, <2>7, <2>8, <2>9, ClosedEnds, EndedAfter
  <2>11. ~t.exited => Len(t.frm.stack) <= Len(c.frm.stack) /\ Len(t.frm.stack) \in Nat
    <3>1. ~t.exited => Len(t.frm.stack) <= Len(c.frm.stack) /\ Good(t)
      BY <2>8 DEF Closed
    <3> QED
      BY <3>1, TopEntry DEF Good
  <2>12. ~t.exited => Len(t.frm.stack) < Len(s.frm.stack)
    BY <2>4, <2>5, <2>6, <2>11
  <2> QED
    BY <2>1, <2>4, <2>7, <2>9, <2>10, <2>12
<1>2. CASE Here(s).type # Matching(Top(s).open)
  <2>1. CloseMatching(s) = s \/ CloseMatching(s) = Stop(s)
    BY <1>2 DEF CloseMatching
  <2>2. Ended(s, s)
    BY NothingGoes, KeptEnds DEF Going
  <2>3. Ended(s, Stop(s)) /\ Here(Stop(s)) = Here(s)
    BY StopEnds DEF Good, Stop, States, Here
  <2> QED
    BY <1>2, <2>1, <2>2, <2>3
<1> QED
  BY <1>1, <1>2

LEMMA ReturnEnds ==
  ASSUME NEW s, NEW t, Ended(s, t)
  PROVE  LET u == Return(t, FALSE)
         IN  Ended(s, u) /\ u.exited = t.exited /\ u.frm = t.frm
<1> DEFINE u == Return(t, FALSE)
<1>1. t \in States /\ FALSE \in BOOLEAN
  BY DEF Ended
<1>2. SameBut(t, u) /\ u.exited = t.exited
  BY <1>1, Outcomes
<1> HIDE DEF u
<1>3. Ended(s, u) /\ u.frm = t.frm
  BY <1>2, EndedBut DEF SameBut
<1> QED
  BY <1>2, <1>3 DEF u

\* A closing brace or parenthesis.
LEMMA CloserEnds ==
  ASSUME NEW s, Good(s), ~s.exited, ~s.consumed, Here(s).type \in Closers, Top(s).stage \notin Waiting
  PROVE  LET t == EndWhileOfDo(CloseParen(EndVBrace(s)))
         IN  /\ Ended(s, t)
             /\ ~t.exited => Here(t).type \in Closers
             /\ Here(s).type = "VBRACE_CLOSE" /\ Top(s).open = "VBRACE_OPEN" /\ ~t.exited
                  => Len(t.frm.stack) < Len(s.frm.stack)
<1> DEFINE a == SParenClose(s)
           b == CloseMatching(a)
<1>1. EndVBrace(s) = s
  BY DEF EndVBrace, Closers
<1>2. CloseParen(s) = b
  BY DEF CloseParen
<1>3. /\ Going(s, a) /\ Here(a).type \in Closers /\ a.frm.stack = s.frm.stack
      /\ Here(s).type = "VBRACE_CLOSE" => a = s
  BY SParenCloseGoes
<1> HIDE DEF a
<1>4. Good(a) /\ ~a.exited /\ Top(a) = Top(s) /\ Kept(s, a)
  BY <1>3 DEF Going, Kept, Quiet, Top
<1>5. /\ Ended(a, b) /\ Here(b).type \in Closers
      /\ Here(a).type = Matching(Top(a).open) /\ ~b.exited => Len(b.frm.stack) < Len(a.frm.stack)
  BY <1>3, <1>4, MatchingCloses
<1> HIDE DEF b
<1>6. Ended(s, b)
  BY <1>4, <1>5, EndedAfter
<1>7. EndWhileOfDo(b) = b \/ EndWhileOfDo(b) = Stop(b)
  BY <1>5 DEF EndWhileOfDo, Closers
<1>8. Ended(s, Stop(b)) /\ Stop(b).exited
  BY <1>6, StopEnds, Outcomes, TRUE \in BOOLEAN DEF Ended
<1>9. Here(s).type = "VBRACE_CLOSE" /\ Top(s).open = "VBRACE_OPEN" => Here(a).type = Matching(Top(a).open)
  BY <1>3, <1>4 DEF Matching
<1> QED
  BY <1>1, <1>2, <1>3, <1>5, <1>6, <1>7, <1>8, <1>9

LEMMA SemicolonParent ==
  ASSUME NEW s, Good(s), Here(s).type = "SEMICOLON"
  PROVE  LET a == [s EXCEPT !.consumed = TRUE]
             t == SetHere(a, [Here(s) EXCEPT !.parent = "WHILE_OF_DO"])
         IN  Kept(s, t) /\ t.consumed /\ Here(t).type = "SEMICOLON"
<1> DEFINE a == [s EXCEPT !.consumed = TRUE]
           c == [Here(s) EXCEPT !.parent = "WHILE_OF_DO"]
           t == SetHere(a, c)
<1>1. Kept(s, a) /\ Here(a) = Here(s) /\ a.consumed
  BY ConsumedGoes
<1>2. c \in Chunks /\ c.type = Here(s).type /\ c.in_preproc = Here(s).in_preproc
  BY HereType, AllNames DEF Chunks
<1> HIDE DEF a, c
<1>3. Same(a, t) /\ Here(t) = c
  BY <1>1, <1>2, SpareChunk DEF Kept
<1> HIDE DEF t
<1>4. Kept(s, t) /\ t.consumed /\ Here(t).type = "SEMICOLON"
  BY <1>1, <1>2, <1>3, KeptAgain DEF Same, Going, Quiet
<1> QED
  BY <1>4 DEF t, a, c

LEMMA OtherEnds ==
  ASSUME NEW s, Good(s), ~s.exited, ~s.consumed, Here(s).type \notin Closers, Top(s).stage \notin Waiting
  PROVE  Ended(s, EndWhileOfDo(CloseParen(EndVBrace(s))))
<1>1. CASE Top(s).open = "VBRACE_OPEN" /\ Here(s).type = "SEMICOLON"
  <2> DEFINE a == [s EXCEPT !.consumed = TRUE]
             b == CloseStatement(a)
  <2>1. EndVBrace(s) = b
    BY <1>1 DEF EndVBrace
  <2>2. Kept(s, a) /\ Here(a) = Here(s) /\ a.consumed
    BY ConsumedGoes
  <2> HIDE DEF a
  <2>3. Closed(a, b)
    BY <2>2, StatementCloses DEF Kept
  <2> HIDE DEF b
  <2>4. b.consumed /\ Here(b) = Here(s)
    BY <2>2, <2>3 DEF Closed
  <2>5. CloseParen(b) = b /\ EndWhileOfDo(b) = b
    BY <2>4 DEF CloseParen, EndWhileOfDo
  <2>6. Ended(s, b)
    BY <1>1, <2>2, <2>3, ClosedEnds, EndedAfter DEF Ending
  <2> QED
    BY <2>1, <2>5, <2>6
<1>2. CASE ~(Top(s).open = "VBRACE_OPEN" /\ Here(s).type = "SEMICOLON")
  <2>1. EndVBrace(s) = s /\ CloseParen(s) = s
    BY <1>2 DEF EndVBrace, CloseParen
  <2>2. CASE Top(s).stage # "WOD_SEMI"
    <3>1. EndWhileOfDo(s) = s
      BY <2>2 DEF EndWhileOfDo
    <3> QED
      BY <2>1, <3>1, NothingGoes, KeptEnds DEF Going
  <2>3. CASE Top(s).stage = "WOD_SEMI" /\ Here(s).type # "SEMICOLON"
    <3>1. EndWhileOfDo(s) = Stop(s)
      BY <2>3 DEF EndWhileOfDo
    <3> QED
      BY <2>1, <3>1, StopEnds DEF Good
  <2>4. CASE Top(s).stage = "WOD_SEMI" /\ Here(s).type = "SEMICOLON"
    <3> DEFINE a == SetHere([s EXCEPT !.consumed = TRUE], [Here(s) EXCEPT !.parent = "WHILE_OF_DO"])
    <3>1. EndWhileOfDo(s) = HandleComplexClose(a)
      BY <2>4 DEF EndWhileOfDo
    <3>2. Kept(s, a) /\ a.consumed /\ Here(a).type = "SEMICOLON"
      BY <2>4, SemicolonParent
    <3> HIDE DEF a
    <3>3. Closed(a, HandleComplexClose(a))
      BY <3>2, ComplexCloses DEF Kept
    <3>4. Ended(s, HandleComplexClose(a))
      BY <3>2, <3>3, ClosedEnds, EndedAfter DEF Ending
    <3> QED
      BY <2>1, <3>1, <3>4
  <2> QED
    BY <2>2, <2>3, <2>4
<1> QED
  BY <1>1, <1>2

\* What the last part of parse_cleanup() makes of s: only the frame and the chunk
\* change, and no frame is left that waits.
Begun(s, t) ==
  /\ Kept(s, t) /\ Quiet(s, t)
  /\ Top(t) = Top(s) \/ Top(t).stage \notin Waiting
  /\ Here(s).type \in Ending => t.frm.stack = s.frm.stack /\ Here(t).type = Here(s).type

LEMMA BegunAgain ==
  ASSUME NEW s, NEW t, NEW u, Begun(s, t), Begun(t, u)
  PROVE  Begun(s, u)
  BY KeptAgain DEF Begun, Quiet

LEMMA NothingBegins ==
  ASSUME NEW s, Good(s)
  PROVE  Begun(s, s)
  BY NothingGoes DEF Begun, Going

LEMMA OpenPushed ==
  ASSUME NEW s, Good(s), NEW type \in {"SPAREN_OPEN", "PAREN_OPEN", "BRACE_OPEN", "SQUARE_OPEN"}, NEW parent \in Names
  PROVE  LET t == PushOpen(s, type, parent)
         IN  Kept(s, t) /\ Quiet(s, t) /\ Top(t).stage = "NONE"
<1> DEFINE c == [Here(s) EXCEPT !.type = type, !.parent = parent]
           u == SetHere(s, c)
           v == Deeper(u, 1)
           w == PushEntry(v, type, "NONE", parent)
<1>1. type \in Names /\ "NONE" \in Names
  BY AllNames DEF Names
<1>2. c \in Chunks /\ c.in_preproc = Here(s).in_preproc /\ c.type = type
  BY <1>1, HereType DEF Chunks
<1>3. ~IsLayout(c)
  BY <1>2 DEF IsLayout
<1>4. PushOpen(s, type, parent) = w
  BY DEF PushOpen
<1> HIDE DEF c
<1>5. Going(s, u)
  BY <1>2, <1>3, ChunkGoes
<1> HIDE DEF u
<1>6. Same(u, v)
  BY <1>5, CountersSame, 1 \in Int, TRUE \in BOOLEAN DEF Going, Kept
<1> HIDE DEF v
<1>7. Restacked(v, w) /\ Top(w) = [open |-> type, stage |-> "NONE", parent |-> parent]
  BY <1>1, <1>6, PushKept DEF Same, Going, Kept
<1> HIDE DEF w
<1>8. Going(s, w)
  BY <1>5, <1>6, <1>7, GoingAgain, RestackedGoes DEF Same
<1> QED
  BY <1>4, <1>7, <1>8 DEF Going

LEMMA OpenBegins ==
  ASSUME NEW s, Good(s)
  PROVE  Begun(s, Open(s))
<1> DEFINE sparen == PrevNcNnl(s).type \in SParenKeywords
<1>0. Top(s).open \in Names /\ "NONE" \in Names
  BY TopEntry, AllNames DEF Good, Top, Entries
<1>1. CASE Here(s).type = "PAREN_OPEN" /\ sparen
  <2> DEFINE u == PushOpen(s, "SPAREN_OPEN", Top(s).open)
             n == s.frm.sparen_count + 1
             g == [u.frm EXCEPT !.sparen_count = n]
             t == [u EXCEPT !.frm = g]
  <2>1. Open(s) = t
    BY <1>1 DEF Open
  <2>2. Kept(s, u) /\ Quiet(s, u) /\ Top(u).stage = "NONE"
    BY <1>0, OpenPushed
  <2> HIDE DEF u
  <2>3. Good(u) /\ u.frm \in Frames /\ n \in Int
    BY <2>2 DEF Kept, Good, States, Frames
  <2> HIDE DEF n
  <2>4. g \in Frames /\ g.stack = u.frm.stack /\ g.ifdef = u.frm.ifdef
    BY <2>3 DEF Frames
  <2>5. GoodStack(g.stack)
    BY <2>3, <2>4 DEF Good
  <2> HIDE DEF g
  <2>6. Kept(u, t) /\ Quiet(u, t)
    BY <2>3, <2>4, <2>5, FrmKept
  <2>7. t.frm = g
    BY <2>3 DEF Good, States
  <2> HIDE DEF t
  <2>8. Kept(s, t) /\ Quiet(s, t) /\ Top(t).stage = "NONE"
    BY <2>2, <2>4, <2>6, <2>7, KeptAgain DEF Quiet, Top
  <2> QED
    BY <1>1, <2>1, <2>8 DEF Begun, Waiting, Ending, Closers
<1>2. CASE Here(s).type = "PAREN_OPEN" /\ ~sparen
  <2>1. Open(s) = PushOpen(s, "PAREN_OPEN", "NONE")
    BY <1>2 DEF Open
  <2> QED
    BY <1>0, <1>2, <2>1, OpenPushed DEF Begun, Waiting, Ending, Closers
<1>3. CASE Here(s).type = "BRACE_OPEN"
  <2> DEFINE u == DeeperBrace(s, 1)
             parent == IF Top(s).stage # "NONE" THEN Top(s).open ELSE "NONE"
             t == PushOpen(u, "BRACE_OPEN", parent)
  <2>1. Open(s) = t
    BY <1>3 DEF Open
  <2>2. Same(s, u)
    BY CountersSame, 1 \in Int, TRUE \in BOOLEAN
  <2> HIDE DEF u
  <2>3. parent \in Names
    BY <1>0
  <2> HIDE DEF parent
  <2>4. Kept(u, t) /\ Quiet(u, t) /\ Top(t).stage = "NONE"
    BY <2>2, <2>3, OpenPushed DEF Same, Going, Kept
  <2> HIDE DEF t
  <2>5. Kept(s, t) /\ Quiet(s, t)
    BY <2>2, <2>4, KeptAgain DEF Same, Going, Quiet
  <2> QED
    BY <1>3, <2>1, <2>4, <2>5 DEF Begun, Waiting, Ending, Closers
<1>4. CASE Here(s).type = "SQUARE_OPEN"
  <2>1. Open(s) = PushOpen(s, "SQUARE_OPEN", "NONE")
    BY <1>4 DEF Open
  <2> QED
    BY <1>0, <1>4, <2>1, OpenPushed DEF Begun, Waiting, Ending, Closers
<1>5. CASE Here(s).type \notin {"PAREN_OPEN", "BRACE_OPEN", "SQUARE_OPEN"}
  <2>1. Open(s) = s
    BY <1>5 DEF Open
  <2> QED
    BY <2>1, NothingBegins
<1> QED
  BY <1>1, <1>2, <1>3, <1>4, <1>5

Pushing == {"DO", "TRY", "FINALLY", "WHILE", "WHILE_OF_DO", "IF", "ELSEIF", "SWITCH", "FOR", "CATCH", "ELSE"}

LEMMA EntryBegins ==
  ASSUME NEW s, Good(s), Here(s).type \in Pushing,
         NEW g \in {"BRACE_DO", "BRACE2", "WOD_PAREN", "PAREN1", "OP_PAREN1", "ELSEIF"}
  PROVE  LET t == PushEntry(s, Here(s).type, g, "NONE")
         IN  Kept(s, t) /\ Quiet(s, t) /\ Top(t).stage \notin Waiting
<1> DEFINE type == Here(s).type
           t == PushEntry(s, type, g, "NONE")
<1>1. type \in Names /\ g \in Names /\ "NONE" \in Names /\ type # "VBRACE_OPEN"
  <2>1. type \in Names
    <3>1. Here(s) \in Chunks
      BY HereType
    <3> QED
      BY <3>1 DEF Chunks
  <2>2. g \in Names /\ "NONE" \in Names
    BY AllNames
  <2>3. type # "VBRACE_OPEN"
    BY DEF Pushing
  <2> QED
    BY <2>1, <2>2, <2>3
<1> HIDE DEF type
<1>2. Restacked(s, t) /\ Top(t) = [open |-> type, stage |-> g, parent |-> "NONE"]
  BY <1>1, PushKept
<1> HIDE DEF t
<1>3. Kept(s, t) /\ Quiet(s, t) /\ Top(t).stage = g
  BY <1>2 DEF Restacked
<1>4. g \notin Waiting
  BY DEF Waiting
<1> QED
  BY <1>3, <1>4 DEF t, type

LEMMA KeywordBegins ==
  ASSUME NEW s, Good(s)
  PROVE  Begun(s, Keyword(s))
<1>1. CASE Here(s).type \notin Pushing
  <2>1. Keyword(s) = s
    BY <1>1 DEF Keyword, Pushing
  <2> QED
    BY <2>1, NothingBegins
<1>2. CASE Here(s).type = "WHILE" /\ MaybeWhileOfDo(s)
  <2> DEFINE c == [Here(s) EXCEPT !.type = "WHILE_OF_DO"]
             u == SetHere(s, c)
             t == PushEntry(u, Here(u).type, "WOD_PAREN", "NONE")
  <2>1. Keyword(s) = t
    BY <1>2 DEF Keyword
  <2>2. c \in Chunks /\ c.in_preproc = Here(s).in_preproc /\ c.type = "WHILE_OF_DO"
    BY HereType, AllNames DEF Chunks
  <2>3. ~IsLayout(c)
    BY <2>2 DEF IsLayout
  <2> HIDE DEF c
  <2>4. Going(s, u) /\ Here(u) = c
    BY <2>2, <2>3, ChunkGoes
  <2> HIDE DEF u
  <2>5. Good(u) /\ Here(u).type \in Pushing
    BY <2>2, <2>4 DEF Going, Kept, Pushing
  <2>6. Kept(u, t) /\ Quiet(u, t) /\ Top(t).stage \notin Waiting
    BY <2>5, EntryBegins
  <2> HIDE DEF t
  <2>7. Kept(s, t) /\ Quiet(s, t)
    BY <2>4, <2>6, KeptAgain DEF Going, Quiet
  <2> QED
    BY <1>2, <2>1, <2>6, <2>7 DEF Begun, Ending, Closers
<1>3. CASE Here(s).type \in Pushing /\ ~(Here(s).type = "WHILE" /\ MaybeWhileOfDo(s))
  <2>1. CASE Here(s).type = "WHILE_OF_DO"
    <3>1. Keyword(s) = s
      BY <2>1 DEF Keyword
    <3> QED
      BY <3>1, NothingBegins
  <2>2. CASE Here(s).type # "WHILE_OF_DO"
    <3>1. \E g \in {"BRACE_DO", "BRACE2", "WOD_PAREN", "PAREN1", "OP_PAREN1", "ELSEIF"} :
            Keyword(s) = PushEntry(s, Here(s).type, g, "NONE")
      <4>1. CASE Here(s).type = "WHILE"
        BY <1>3, <4>1 DEF Keyword
      <4>2. CASE Here(s).type # "WHILE"
        BY <1>3, <2>2, <4>2 DEF Keyword, Pushing
      <4> QED
        BY <4>1, <4>2
    <3> QED
      BY <1>3, <3>1, EntryBegins DEF Begun, Ending, Closers, Pushing
  <2> QED
    BY <2>1, <2>2
<1> QED
  BY <1>1, <1>2, <1>3

LEMMA Begins ==
  ASSUME NEW s, Good(s)
  PROVE  Begun(s, NextStart(Keyword(Open(s))))
<1> DEFINE a == Open(s)
           b == Keyword(a)
           c == NextStart(b)
<1>1. Begun(s, a)
  BY OpenBegins
<1> HIDE DEF a
<1>2. Begun(a, b)
  BY <1>1, KeywordBegins DEF Begun, Kept
<1> HIDE DEF b
<1>3. Good(b)
  BY <1>2 DEF Begun, Kept
<1>4. c = b \/ c = Fresh(b, TRUE)
  BY DEF NextStart
<1>5. Begun(b, Fresh(b, TRUE))
  <2>1. Same(b, Fresh(b, TRUE))
    BY <1>3, CountersSame, 0 \in Int
  <2> QED
    BY <2>1 DEF Same, Going, Begun, Top
<1>6. Begun(b, c)
  BY <1>3, <1>4, <1>5, NothingBegins
<1> HIDE DEF c
<1>7. Begun(s, c)
  BY <1>1, <1>2, <1>6, BegunAgain
<1> QED
  BY <1>7 DEF a, b, c

\* What parse_cleanup() makes of s: what is left to parse is the same, or a closing
\* virtual brace was put in front of it for the top entry, and a frame that waits
\* gets what it waits for.
Parsed(s, t) ==
  /\ t \in States
  /\ ~t.exited =>
       /\ Good(t) /\ SameFrames(s, t) /\ Here(t).in_preproc = Here(s).in_preproc
       /\ \/ Later(t) = Later(s) /\ Fits(Top(t).stage, Later(t))
          \/ CloserPut(s, t) /\ Top(t).open = "VBRACE_OPEN"

LEMMA EndedParses ==
  ASSUME NEW s, NEW t, Ended(s, t)
  PROVE  Parsed(s, t)
  BY DEF Ended, Parsed

LEMMA ParsedAfter ==
  ASSUME NEW s, NEW t, NEW u, Kept(s, t), Parsed(t, u)
  PROVE  Parsed(s, u)
  BY DEF Kept, Parsed, CloserPut, SameFrames

LEMMA BegunParses ==
  ASSUME NEW s, NEW t, NEW u, Ended(s, t), ~t.exited, Begun(t, u)
  PROVE  Parsed(s, u)
<1>1. Kept(t, u) /\ Good(t) /\ Good(u) /\ SameFrames(t, u) /\ Later(u) = Later(t)
  BY DEF Ended, Begun, Kept
<1>2. SameFrames(s, u) /\ Here(u).in_preproc = Here(s).in_preproc
  BY <1>1 DEF Ended, Kept, SameFrames
<1>3. CASE Later(t) = Later(s) /\ Fits(Top(t).stage, Later(t))
  <2>1. Fits(Top(u).stage, Later(u))
    BY <1>1, <1>3 DEF Begun, Fits, Waiting
  <2> QED
    BY <1>1, <1>2, <1>3, <2>1 DEF Parsed, Good
<1>4. CASE CloserPut(s, t) /\ Top(t).open = "VBRACE_OPEN" /\ Here(t).type \in Ending
  <2>1. Top(u) = Top(t) /\ CloserPut(s, u)
    BY <1>1, <1>4 DEF Begun, Top, CloserPut, Ending
  <2> QED
    BY <1>1, <1>2, <1>4, <2>1 DEF Parsed, Good
<1> QED
  BY <1>3, <1>4 DEF Ended


\* The state parse_cleanup() starts from.
Marked(s) == [MarkStart(s) EXCEPT !.consumed = FALSE, !.result = FALSE]

LEMMA MarkedKept ==
  ASSUME NEW s, Good(s)
  PROVE  LET t == Marked(s)
         IN  /\ Kept(s, t) /\ (Ready(s) => Ready(t))
             /\ ~t.consumed /\ ~t.result /\ t.exited = s.exited
             /\ Here(t).type = Here(s).type /\ t.frm.stack = s.frm.stack
<1> DEFINE u == MarkStart(s)
           t == [u EXCEPT !.consumed = FALSE, !.result = FALSE]
<1>1. Same(s, u)
  BY MarkSame
<1> HIDE DEF u
<1>2. Good(u) /\ u \in States /\ u.exited = s.exited
  BY <1>1 DEF Same, Going, Kept, Good, Quiet
<1>3. SameBut(u, t) /\ ~t.consumed /\ ~t.result /\ t.exited = u.exited
  BY <1>2 DEF States, SameBut
<1> HIDE DEF t
<1>4. Kept(u, t) /\ Here(t) = Here(u)
  BY <1>2, <1>3, OutcomeKept
<1>5. Ready(u) => Ready(t)
  BY <1>3, <1>4 DEF Ready, SameBut
<1>6. Kept(s, t) /\ (Ready(s) => Ready(t)) /\ t.frm.stack = s.frm.stack
  BY <1>1, <1>3, <1>4, <1>5, KeptAgain DEF Same, Going, SameBut
<1> QED
  BY <1>1, <1>2, <1>3, <1>4, <1>6 DEF Marked, Same, t, u

LEMMA Parses ==
  ASSUME NEW s, Good(s), ~s.exited, Awaited(s), Top(s).stage # "NONE" => Ready(s)
  PROVE  LET t == ParseCleanup(s)
         IN  /\ Parsed(s, t)
             /\ Here(s).type = "VBRACE_CLOSE" /\ Top(s).open = "VBRACE_OPEN" /\ ~t.exited
                  => Len(t.frm.stack) < Len(s.frm.stack)
<1> DEFINE a == Marked(s)
           b == CheckComplexStatements(a)
           e == EndWhileOfDo(CloseParen(EndVBrace(b)))
           c == IF b.result \/ b.exited THEN b ELSE Return(e, FALSE)
           d == IF c.result \/ c.exited THEN c ELSE NextStart(Keyword(Open(c)))
<1>1. ParseCleanup(s) = d
  BY DEF ParseCleanup, Then, Marked
<1>2. /\ Kept(s, a) /\ (Ready(s) => Ready(a))
      /\ ~a.consumed /\ ~a.result /\ a.exited = s.exited
      /\ Here(a).type = Here(s).type /\ a.frm.stack = s.frm.stack
  BY MarkedKept
<1> HIDE DEF a
<1>3. Good(a) /\ ~a.exited /\ Awaited(a) /\ (Top(a).stage # "NONE" => Ready(a)) /\ Top(a) = Top(s)
  BY <1>2 DEF Kept, Awaited, Top
<1>4. Checked(a, b)
  BY <1>3, Checks
<1>5. ASSUME Top(s).stage = "NONE"
      PROVE  b = Return(a, FALSE)
  BY <1>3, <1>5 DEF CheckComplexStatements
<1>6. ASSUME Top(s).stage = "NONE"
      PROVE  /\ ~b.exited /\ ~b.result /\ ~b.consumed /\ Kept(s, b) /\ Here(b).type = Here(s).type
             /\ b.frm.stack = s.frm.stack
  <2> DEFINE r == Return(a, FALSE)
  <2>1. Moves(a, r) /\ Here(r) = Here(a) /\ ~r.result /\ r.frm = a.frm
    BY <1>3, ReturnMoves
  <2> HIDE DEF r
  <2>2. Kept(a, r) /\ ~r.exited /\ ~r.consumed
    BY <1>2, <1>3, <2>1 DEF Moves
  <2>3. b = r
    BY <1>5, <1>6 DEF r
  <2> HIDE DEF b
  <2> QED
    BY <1>2, <2>1, <2>2, <2>3, KeptAgain
<1> HIDE DEF b
<1>7. ~b.exited => Kept(s, b) /\ Good(b) /\ ~b.consumed /\ Top(b).stage \notin Waiting
  BY <1>2, <1>4, KeptAgain DEF Checked, Kept
<1>8. ~b.exited => Ended(b, e)
  BY <1>7, CloserEnds, OtherEnds
<1>9. ASSUME ~b.exited
      PROVE  /\ Ended(s, Return(e, FALSE)) /\ Return(e, FALSE).exited = e.exited
             /\ Return(e, FALSE).frm = e.frm
  <2>1. Ended(s, e)
    BY <1>7, <1>8, <1>9, EndedAfter
  <2> HIDE DEF e
  <2> QED
    BY <2>1, ReturnEnds
<1>10. Ended(s, c)
  <2>1. CASE b.exited
    BY <1>4, <2>1 DEF Ended, Checked
  <2>2. CASE b.result /\ ~b.exited
    BY <1>7, <2>2, KeptEnds
  <2>3. CASE ~b.result /\ ~b.exited
    BY <1>9, <2>3
  <2> QED
    BY <2>1, <2>2, <2>3
<1>11. Parsed(s, d)
  <2> HIDE DEF c
  <2>1. CASE c.result \/ c.exited
    BY <1>10, <2>1, EndedParses
  <2>2. CASE ~(c.result \/ c.exited)
    <3>1. Begun(c, NextStart(Keyword(Open(c))))
      BY <1>10, <2>2, Begins DEF Ended
    <3> QED
      BY <1>10, <2>2, <3>1, BegunParses
  <2> QED
    BY <2>1, <2>2
<1>12. ASSUME Top(s).stage = "NONE", ~d.exited
       PROVE  /\ Begun(c, d) /\ c = Return(e, FALSE) /\ ~e.exited /\ Ended(b, e)
  <2>1. c = Return(e, FALSE) /\ ~b.exited
    BY <1>6, <1>12
  <2>2. Ended(b, e) /\ c.exited = e.exited /\ Good(b)
    BY <1>7, <1>8, <1>9, <2>1
  <2> HIDE DEF c, e
  <2>3. ~c.exited
    BY <1>12
  <2>4. ~c.result
    BY <2>1, <2>2, Outcomes, FALSE \in BOOLEAN DEF Ended
  <2>5. Begun(c, d)
    BY <1>10, <2>3, <2>4, Begins DEF Ended
  <2> QED
    BY <2>1, <2>2, <2>3, <2>5
<1>13. ASSUME Here(s).type = "VBRACE_CLOSE", Top(s).open = "VBRACE_OPEN", ~d.exited
       PROVE  Len(d.frm.stack) < Len(s.frm.stack)
  <2>1. Top(s).stage = "NONE"
    BY <1>13, TopEntry DEF Good, GoodEntry, Top
  <2>2. Good(b) /\ ~b.exited /\ ~b.consumed /\ Here(b).type = "VBRACE_CLOSE" /\ Top(b) = Top(s)
        /\ Top(b).stage \notin Waiting /\ b.frm.stack = s.frm.stack
    BY <1>6, <1>13, <2>1 DEF Kept, Top, Waiting
  <2>3. Begun(c, d) /\ c = Return(e, FALSE) /\ ~e.exited /\ e \in States /\ Good(e)
    BY <1>12, <1>13, <2>1 DEF Ended
  <2>4. Here(e).type \in Closers /\ Len(e.frm.stack) < Len(b.frm.stack)
    <3>1. Here(b).type \in Closers
      BY <2>2 DEF Closers
    <3> QED
      BY <1>13, <2>2, <2>3, <3>1, CloserEnds
  <2> HIDE DEF c, d, e
  <2>5. c.frm = e.frm /\ Here(c) = Here(e)
    BY <2>3, ReturnMoves
  <2>6. d.frm.stack = e.frm.stack
    BY <2>3, <2>4, <2>5 DEF Begun, Ending
  <2> QED
    BY <2>2, <2>4, <2>6
<1> HIDE DEF d
<1> QED
  BY <1>1, <1>11, <1>13

-----------------------------------------------------------------------------
(* The stack of frames, at directives                                      *)

\* q is the stack with the frame that is parsed on top: n conditionals are open,
\* whose blocks are at[1], ..., at[n].  An #if block is on the frame before it, an
\* #else block on that and the frame its #if block ended with.
Shape(q, n) ==
  /\ q \in Seq(Frames) /\ q # <<>> /\ q[1].ifdef = "NONE"
  /\ \E at \in [0 .. n -> 1 .. Len(q)] :
       /\ at[0] = 1 /\ at[n] = Len(q)
       /\ \A j, k \in 0 .. n : j < k => at[j] < at[k]
       /\ \A k \in 1 .. n : \/ q[at[k]].ifdef = "PP_IF" /\ at[k] = at[k - 1] + 1
                            \/ q[at[k]].ifdef = "PP_ELSE" /\ at[k] = at[k - 1] + 2

LEMMA ShapeAlike ==
  ASSUME NEW q, NEW n \in Nat, Shape(q, n), NEW r, r \in Seq(Frames), Len(r) = Len(q),
         \A i \in 1 .. Len(q) : r[i].ifdef = q[i].ifdef
  PROVE  Shape(r, n)
<1>1. q \in Seq(Frames) /\ q # <<>> /\ q[1].ifdef = "NONE" /\ Len(q) \in Nat /\ Len(q) >= 1
  BY DEF Shape
<1>2. PICK at \in [0 .. n -> 1 .. Len(q)] :
        /\ at[0] = 1 /\ at[n] = Len(q)
        /\ \A j, k \in 0 .. n : j < k => at[j] < at[k]
        /\ \A k \in 1 .. n : \/ q[at[k]].ifdef = "PP_IF" /\ at[k] = at[k - 1] + 1
                             \/ q[at[k]].ifdef = "PP_ELSE" /\ at[k] = at[k - 1] + 2
  BY DEF Shape
<1>3. \A k \in 1 .. n : r[at[k]].ifdef = q[at[k]].ifdef
  BY <1>2
<1>4. r # <<>> /\ r[1].ifdef = "NONE"
  BY <1>1
<1>5. at \in [0 .. n -> 1 .. Len(r)] /\ at[n] = Len(r)
  BY <1>2
<1>6. \A k \in 1 .. n : \/ r[at[k]].ifdef = "PP_IF" /\ at[k] = at[k - 1] + 1
                        \/ r[at[k]].ifdef = "PP_ELSE" /\ at[k] = at[k - 1] + 2
  BY <1>2, <1>3
<1> QED
  BY <1>2, <1>4, <1>5, <1>6 DEF Shape

LEMMA ShapeTop ==
  ASSUME NEW q, NEW n \in Nat, Shape(q, n)
  PROVE  /\ Len(q) \in Nat /\ Len(q) >= 1 /\ Len(q) = 1 => n = 0
         /\ n > 0 => \/ q[Len(q)].ifdef = "PP_IF" /\ Len(q) >= 2
                     \/ q[Len(q)].ifdef = "PP_ELSE" /\ Len(q) >= 3
<1>1. q \in Seq(Frames) /\ q # <<>> /\ Len(q) \in Nat /\ Len(q) >= 1
  BY DEF Shape
<1>2. PICK at \in [0 .. n -> 1 .. Len(q)] :
        /\ at[0] = 1 /\ at[n] = Len(q)
        /\ \A j, k \in 0 .. n : j < k => at[j] < at[k]
        /\ \A k \in 1 .. n : \/ q[at[k]].ifdef = "PP_IF" /\ at[k] = at[k - 1] + 1
                             \/ q[at[k]].ifdef = "PP_ELSE" /\ at[k] = at[k - 1] + 2
  BY DEF Shape
<1>3. ASSUME n > 0
      PROVE  /\ at[n] > 1 /\ at[n - 1] >= 1
             /\ \/ q[at[n]].ifdef = "PP_IF" /\ at[n] = at[n - 1] + 1
                \/ q[at[n]].ifdef = "PP_ELSE" /\ at[n] = at[n - 1] + 2
  <2>1. n \in 1 .. n /\ n - 1 \in 0 .. n /\ 0 \in 0 .. n /\ n \in 0 .. n /\ 0 < n
    BY <1>3
  <2>2. at[0] < at[n]
    BY <1>2, <2>1
  <2>3. at[n - 1] \in 1 .. Len(q)
    BY <1>2, <2>1
  <2> QED
    BY <1>1, <1>2, <2>1, <2>2, <2>3
<1>4. at[n] \in 1 .. Len(q) /\ (n > 0 => at[n - 1] \in 1 .. Len(q))
  <2>1. n \in 0 .. n /\ (n > 0 => n - 1 \in 0 .. n)
    OBVIOUS
  <2> QED
    BY <1>2, <2>1
<1> QED
  BY <1>1, <1>2, <1>3, <1>4

LEMMA ShapeIf ==
  ASSUME NEW q, NEW n \in Nat, Shape(q, n), NEW f \in Frames, f.ifdef = "PP_IF"
  PROVE  Shape(Append(q, f), n + 1)
<1> DEFINE r == Append(q, f)
<1>1. q \in Seq(Frames) /\ q # <<>> /\ q[1].ifdef = "NONE" /\ Len(q) \in Nat /\ Len(q) >= 1
  BY DEF Shape
<1>2. PICK at \in [0 .. n -> 1 .. Len(q)] :
        /\ at[0] = 1 /\ at[n] = Len(q)
        /\ \A j, k \in 0 .. n : j < k => at[j] < at[k]
        /\ \A k \in 1 .. n : \/ q[at[k]].ifdef = "PP_IF" /\ at[k] = at[k - 1] + 1
                             \/ q[at[k]].ifdef = "PP_ELSE" /\ at[k] = at[k - 1] + 2
  BY DEF Shape
<1> DEFINE to == [k \in 0 .. n + 1 |-> IF k = n + 1 THEN Len(q) + 1 ELSE at[k]]
<1>3. /\ r \in Seq(Frames) /\ r # <<>> /\ Len(r) = Len(q) + 1 /\ r[Len(q) + 1] = f
      /\ \A i \in 1 .. Len(q) : r[i] = q[i]
  BY <1>1
<1>4. \A k \in 0 .. n : to[k] = at[k] /\ at[k] \in 1 .. Len(q)
  BY <1>2
<1>5. to[n + 1] = Len(q) + 1
  OBVIOUS
<1>6. to \in [0 .. n + 1 -> 1 .. Len(r)]
  <2>1. \A k \in 0 .. n + 1 : to[k] \in 1 .. Len(r)
    <3> SUFFICES ASSUME NEW k \in 0 .. n + 1
                 PROVE  to[k] \in 1 .. Len(r)
      OBVIOUS
    <3>1. CASE k = n + 1
      BY <1>1, <1>3, <1>5, <3>1
    <3>2. CASE k # n + 1
      <4>1. k \in 0 .. n
        BY <3>2
      <4> HIDE DEF to, r
      <4> QED
        BY <1>1, <1>3, <1>4, <4>1
    <3> QED
      BY <3>1, <3>2
  <2> QED
    BY <2>1
<1> HIDE DEF to, r
<1>7. \A j, k \in 0 .. n + 1 : j < k => to[j] < to[k]
  <2> SUFFICES ASSUME NEW j \in 0 .. n + 1, NEW k \in 0 .. n + 1, j < k
               PROVE  to[j] < to[k]
    OBVIOUS
  <2>1. j \in 0 .. n
    OBVIOUS
  <2>2. CASE k = n + 1
    BY <1>1, <1>4, <1>5, <2>1, <2>2
  <2>3. CASE k # n + 1
    <3>1. k \in 0 .. n
      BY <2>3
    <3> QED
      BY <1>2, <1>4, <2>1, <3>1
  <2> QED
    BY <2>2, <2>3
<1>8. \A k \in 1 .. n + 1 : \/ r[to[k]].ifdef = "PP_IF" /\ to[k] = to[k - 1] + 1
                            \/ r[to[k]].ifdef = "PP_ELSE" /\ to[k] = to[k - 1] + 2
  <2> SUFFICES ASSUME NEW k \in 1 .. n + 1
               PROVE  \/ r[to[k]].ifdef = "PP_IF" /\ to[k] = to[k - 1] + 1
                      \/ r[to[k]].ifdef = "PP_ELSE" /\ to[k] = to[k - 1] + 2
    OBVIOUS
  <2>1. CASE k = n + 1
    <3>1. k - 1 = n /\ n \in 0 .. n
      BY <2>1
    <3>2. to[k - 1] = Len(q) /\ to[k] = Len(q) + 1
      BY <1>2, <1>4, <1>5, <2>1, <3>1
    <3> QED
      BY <1>3, <3>2
  <2>2. CASE k # n + 1
    <3>1. k \in 1 .. n /\ k \in 0 .. n /\ k - 1 \in 0 .. n
      BY <2>2
    <3>2. to[k] = at[k] /\ to[k - 1] = at[k - 1] /\ r[at[k]] = q[at[k]]
      BY <1>3, <1>4, <3>1
    <3> QED
      BY <1>2, <3>1, <3>2
  <2> QED
    BY <2>1, <2>2
<1>9. to[0] = 1 /\ to[n + 1] = Len(r) /\ r[1].ifdef = "NONE"
  <2>1. 0 \in 0 .. n /\ 1 \in 1 .. Len(q)
    BY <1>1
  <2> QED
    BY <1>1, <1>2, <1>3, <1>4, <1>5, <2>1
<1> QED
  BY <1>3, <1>6, <1>7, <1>8, <1>9 DEF Shape, r

LEMMA ShapeElse ==
  ASSUME NEW q, NEW n \in Nat, n > 0, Shape(q, n), q[Len(q)].ifdef = "PP_IF",
         NEW f \in Frames, f.ifdef = "PP_ELSE"
  PROVE  Shape(Append(q, f), n)
<1> DEFINE r == Append(q, f)
<1>1. q \in Seq(Frames) /\ q # <<>> /\ q[1].ifdef = "NONE" /\ Len(q) \in Nat /\ Len(q) >= 1
  BY DEF Shape
<1>2. PICK at \in [0 .. n -> 1 .. Len(q)] :
        /\ at[0] = 1 /\ at[n] = Len(q)
        /\ \A j, k \in 0 .. n : j < k => at[j] < at[k]
        /\ \A k \in 1 .. n : \/ q[at[k]].ifdef = "PP_IF" /\ at[k] = at[k - 1] + 1
                             \/ q[at[k]].ifdef = "PP_ELSE" /\ at[k] = at[k - 1] + 2
  BY DEF Shape
<1> DEFINE to == [k \in 0 .. n |-> IF k = n THEN Len(q) + 1 ELSE at[k]]
<1>3. /\ r \in Seq(Frames) /\ r # <<>> /\ Len(r) = Len(q) + 1 /\ r[Len(q) + 1] = f
      /\ \A i \in 1 .. Len(q) : r[i] = q[i]
  BY <1>1
<1>4. \A k \in 0 .. n - 1 : to[k] = at[k] /\ at[k] \in 1 .. Len(q)
  BY <1>2
<1>5. to[n] = Len(q) + 1
  OBVIOUS
<1>6. to \in [0 .. n -> 1 .. Len(r)]
  <2>1. \A k \in 0 .. n : to[k] \in 1 .. Len(r)
    <3> SUFFICES ASSUME NEW k \in 0 .. n
                 PROVE  to[k] \in 1 .. Len(r)
      OBVIOUS
    <3>1. CASE k = n
      BY <1>1, <1>3, <1>5, <3>1
    <3>2. CASE k # n
      <4>1. k \in 0 .. n - 1
        BY <3>2
      <4> HIDE DEF to, r
      <4> QED
        BY <1>1, <1>3, <1>4, <4>1
    <3> QED
      BY <3>1, <3>2
  <2> QED
    BY <2>1
<1> HIDE DEF to, r
<1>7. \A j, k \in 0 .. n : j < k => to[j] < to[k]
  <2> SUFFICES ASSUME NEW j \in 0 .. n, NEW k \in 0 .. n, j < k
               PROVE  to[j] < to[k]
    OBVIOUS
  <2>1. j \in 0 .. n - 1
    OBVIOUS
  <2>2. CASE k = n
    BY <1>1, <1>4, <1>5, <2>1, <2>2
  <2>3. CASE k # n
    <3>1. k \in 0 .. n - 1
      BY <2>3
    <3> QED
      BY <1>2, <1>4, <2>1, <3>1
  <2> QED
    BY <2>2, <2>3
<1>8. \A k \in 1 .. n : \/ r[to[k]].ifdef = "PP_IF" /\ to[k] = to[k - 1] + 1
                        \/ r[to[k]].ifdef = "PP_ELSE" /\ to[k] = to[k - 1] + 2
  <2> SUFFICES ASSUME NEW k \in 1 .. n
               PROVE  \/ r[to[k]].ifdef = "PP_IF" /\ to[k] = to[k - 1] + 1
                      \/ r[to[k]].ifdef = "PP_ELSE" /\ to[k] = to[k - 1] + 2
    OBVIOUS
  <2>1. CASE k = n
    <3>1. n \in 1 .. n /\ n - 1 \in 0 .. n - 1
      OBVIOUS
    <3>2. at[n] = at[n - 1] + 1
      BY <1>2, <3>1
    <3>3. to[n - 1] = at[n - 1] /\ at[n - 1] \in 1 .. Len(q)
      BY <1>4, <3>1
    <3>4. to[k] = to[k - 1] + 2
      BY <1>1, <1>2, <1>5, <2>1, <3>2, <3>3
    <3>5. r[to[k]].ifdef = "PP_ELSE"
      BY <1>3, <1>5, <2>1
    <3> QED
      BY <3>4, <3>5
  <2>2. CASE k # n
    <3>1. k \in 0 .. n - 1 /\ k - 1 \in 0 .. n - 1
      BY <2>2
    <3>2. to[k] = at[k] /\ to[k - 1] = at[k - 1] /\ r[at[k]] = q[at[k]]
      BY <1>3, <1>4, <3>1
    <3> QED
      BY <1>2, <3>2
  <2> QED
    BY <2>1, <2>2
<1>9. to[0] = 1 /\ to[n] = Len(r) /\ r[1].ifdef = "NONE"
  <2>1. 0 \in 0 .. n - 1 /\ 1 \in 1 .. Len(q)
    BY <1>1
  <2> QED
    BY <1>1, <1>2, <1>3, <1>4, <1>5, <2>1
<1> QED
  BY <1>3, <1>6, <1>7, <1>8, <1>9 DEF Shape, r

LEMMA ShapeEndif ==
  ASSUME NEW q, NEW n \in Nat, n > 0, Shape(q, n), NEW r, r \in Seq(Frames),
         Len(r) = Len(q) - (IF q[Len(q)].ifdef = "PP_IF" THEN 1 ELSE 2),
         \A i \in 1 .. Len(r) : r[i].ifdef = q[i].ifdef
  PROVE  Shape(r, n - 1)
<1>1. q \in Seq(Frames) /\ q # <<>> /\ q[1].ifdef = "NONE" /\ Len(q) \in Nat /\ Len(q) >= 1
  BY DEF Shape
<1>2. PICK at \in [0 .. n -> 1 .. Len(q)] :
        /\ at[0] = 1 /\ at[n] = Len(q)
        /\ \A j, k \in 0 .. n : j < k => at[j] < at[k]
        /\ \A k \in 1 .. n : \/ q[at[k]].ifdef = "PP_IF" /\ at[k] = at[k - 1] + 1
                             \/ q[at[k]].ifdef = "PP_ELSE" /\ at[k] = at[k - 1] + 2
  BY DEF Shape
<1> DEFINE to == [k \in 0 .. n - 1 |-> at[k]]
<1>3. n - 1 \in Nat /\ n \in 1 .. n /\ n - 1 \in 0 .. n - 1 /\ \A k \in 0 .. n - 1 : k \in 0 .. n
  OBVIOUS
<1>4. at[n - 1] = Len(r)
  <2>1. at[n - 1] \in 1 .. Len(q)
    BY <1>2, <1>3
  <2>2. \/ q[Len(q)].ifdef = "PP_IF" /\ Len(q) = at[n - 1] + 1
        \/ q[Len(q)].ifdef = "PP_ELSE" /\ Len(q) = at[n - 1] + 2
    BY <1>2, <1>3
  <2>3. CASE q[Len(q)].ifdef = "PP_IF"
    BY <1>1, <2>1, <2>2, <2>3
  <2>4. CASE q[Len(q)].ifdef # "PP_IF"
    BY <1>1, <2>1, <2>2, <2>4
  <2> QED
    BY <2>3, <2>4
<1>5. \A k \in 0 .. n - 1 : to[k] = at[k] /\ at[k] \in 1 .. Len(r)
  <2> SUFFICES ASSUME NEW k \in 0 .. n - 1
               PROVE  at[k] \in 1 .. Len(r)
    OBVIOUS
  <2>1. at[k] \in 1 .. Len(q) /\ at[n - 1] \in 1 .. Len(q)
    BY <1>2, <1>3
  <2>2. k = n - 1 \/ at[k] < at[n - 1]
    BY <1>2, <1>3
  <2> QED
    BY <1>1, <1>4, <2>1, <2>2
<1>6. to \in [0 .. n - 1 -> 1 .. Len(r)]
  BY <1>5
<1> HIDE DEF to
<1>7. to[0] = 1 /\ to[n - 1] = Len(r)
  <2>1. 0 \in 0 .. n - 1
    BY <1>3
  <2> QED
    BY <1>2, <1>3, <1>4, <1>5, <2>1
<1>8. \A j, k \in 0 .. n - 1 : j < k => to[j] < to[k]
  BY <1>2, <1>3, <1>5
<1>9. \A k \in 1 .. n - 1 : \/ r[to[k]].ifdef = "PP_IF" /\ to[k] = to[k - 1] + 1
                            \/ r[to[k]].ifdef = "PP_ELSE" /\ to[k] = to[k - 1] + 2
  <2> SUFFICES ASSUME NEW k \in 1 .. n - 1
               PROVE  \/ r[to[k]].ifdef = "PP_IF" /\ to[k] = to[k - 1] + 1
                      \/ r[to[k]].ifdef = "PP_ELSE" /\ to[k] = to[k - 1] + 2
    OBVIOUS
  <2>1. k \in 1 .. n /\ k \in 0 .. n - 1 /\ k - 1 \in 0 .. n - 1
    OBVIOUS
  <2>2. to[k] = at[k] /\ to[k - 1] = at[k - 1] /\ r[at[k]].ifdef = q[at[k]].ifdef
    BY <1>5, <2>1
  <2> QED
    BY <1>2, <2>1, <2>2
<1>10. r # <<>> /\ r[1].ifdef = "NONE"
  <2>1. 0 \in 0 .. n - 1 /\ at[0] = 1
    BY <1>2, <1>3
  <2>2. 1 \in 1 .. Len(r)
    BY <1>5, <2>1
  <2> QED
    BY <1>1, <2>2
<1> QED
  BY <1>6, <1>7, <1>8, <1>9, <1>10 DEF Shape

\* A frame on the stack, and all of them with the current one.
Saved(f) == GoodStack(f.stack) /\ Last(f.stack).stage \notin Waiting
Framed(s) ==
  /\ GoodStack(s.frm.stack)
  /\ \A i \in 1 .. Len(s.frames) : Saved(s.frames[i])
  /\ Shape(IF s.in_preproc = "PP_DEFINE" THEN s.frames ELSE Append(s.frames, s.frm), s.pp_level)

\* t is s with other frames.
Reframed(s, t, frm, frames, n) ==
  /\ t \in States /\ t.chunks = s.chunks /\ t.pc = s.pc /\ t.in_preproc = s.in_preproc
  /\ t.exited = s.exited /\ t.frm = frm /\ t.frames = frames /\ t.pp_level = n

LEMMA Continues ==
  ASSUME NEW s, s \in States, NEW f \in Frames, NEW level \in Int
  PROVE  Reframed(s, Continue(s, f, level), f, s.frames, s.pp_level)
  BY DEF States, Continue, Reframed

LEMMA Pushes ==
  ASSUME NEW s, s \in States
  PROVE  Reframed(s, Push(s), s.frm, Append(s.frames, s.frm), s.pp_level)
<1> DEFINE q == Append(s.frames, s.frm)
<1>1. q \in Seq(Frames)
  BY DEF States
<1> HIDE DEF q
<1>2. Reframed(s, [s EXCEPT !.frames = q], s.frm, q, s.pp_level)
  BY <1>1 DEF States, Reframed
<1> QED
  BY <1>2 DEF Push, q

LEMMA Dropped ==
  ASSUME NEW q, q \in Seq(Frames), NEW k, k \in 1 .. Len(q)
  PROVE  /\ Drop(q, k) \in Seq(Frames) /\ Len(Drop(q, k)) = Len(q) - k
         /\ \A i \in 1 .. Len(q) - k : Drop(q, k)[i] = q[i]
         /\ Tos(q) = q[Len(q)] /\ Tos(q) \in Frames
  BY DEF Drop, Tos

LEMMA Appended ==
  ASSUME NEW q, q \in Seq(Frames), NEW f, f \in Frames
  PROVE  /\ Append(q, f) \in Seq(Frames) /\ Len(Append(q, f)) = Len(q) + 1 /\ Len(q) \in Nat
         /\ Append(q, f)[Len(q) + 1] = f
         /\ \A i \in 1 .. Len(q) : Append(q, f)[i] = q[i]
  OBVIOUS

LEMMA Pops ==
  ASSUME NEW s, s \in States, s.frames # <<>>
  PROVE  Reframed(s, Pop(s), Tos(s.frames), Drop(s.frames, 1), s.pp_level)
<1> DEFINE q == s.frames
<1>1. q \in Seq(Frames) /\ Len(q) \in Nat /\ 1 \in 1 .. Len(q)
  BY DEF States
<1>2. Tos(q) \in Frames /\ Drop(q, 1) \in Seq(Frames)
  BY <1>1, Dropped
<1> DEFINE f == Tos(q)
           r == Drop(q, 1)
<1>3. Pop(s) = [[s EXCEPT !.frm = f] EXCEPT !.frames = r]
  BY DEF Pop
<1> HIDE DEF f, r
<1>4. Reframed(s, [[s EXCEPT !.frm = f] EXCEPT !.frames = r], f, r, s.pp_level)
  BY <1>2 DEF States, Reframed, f, r
<1> QED
  BY <1>3, <1>4 DEF f, r

\* What the end of a directive makes of s.
Left(s, t) ==
  /\ t \in States /\ t.chunks = s.chunks /\ t.pc = s.pc
  /\ s.in_preproc = "NONE" \/ Here(s).in_preproc => t = s
  /\ ~t.exited =>
       /\ Framed(t)
       /\ t.in_preproc = "NONE" \/ (t = s /\ Here(s).in_preproc)
       /\ \/ t.frm = s.frm /\ t.frames = s.frames
          \/ Top(t).stage \notin Waiting /\ s.frames # <<>>

LEMMA LeaveFrames ==
  ASSUME NEW s, s \in States, ~s.exited, Framed(s)
  PROVE  Left(s, LeavePreproc(s))
<1>0. s.frames \in Seq(Frames) /\ s.frm \in Frames /\ s.pp_level \in Nat
  BY DEF States
<1>1. CASE s.in_preproc = "NONE" \/ Here(s).in_preproc
  <2>1. LeavePreproc(s) = s
    BY <1>1 DEF LeavePreproc
  <2> QED
    BY <1>1, <2>1 DEF Left
<1>2. CASE ~(s.in_preproc = "NONE" \/ Here(s).in_preproc) /\ s.in_preproc # "PP_DEFINE"
  <2> DEFINE t == [s EXCEPT !.in_preproc = "NONE"]
  <2>1. LeavePreproc(s) = t
    BY <1>2 DEF LeavePreproc
  <2>2. /\ t \in States /\ t.chunks = s.chunks /\ t.pc = s.pc /\ t.in_preproc = "NONE"
        /\ t.frm = s.frm /\ t.frames = s.frames /\ t.pp_level = s.pp_level
    BY AllNames DEF States
  <2> HIDE DEF t
  <2>3. Framed(t)
    BY <1>2, <2>2 DEF Framed
  <2> QED
    BY <1>2, <2>1, <2>2, <2>3 DEF Left
<1>3. CASE ~(s.in_preproc = "NONE" \/ Here(s).in_preproc) /\ s.in_preproc = "PP_DEFINE"
  <2> DEFINE u == LeaveDefine(s)
             t == [u EXCEPT !.in_preproc = "NONE"]
             q == s.frames
  <2>1. LeavePreproc(s) = t
    BY <1>3 DEF LeavePreproc
  <2>2. u = Stop(s) \/ u = Pop(s)
    BY DEF LeaveDefine, Balanced
  <2>3. Shape(q, s.pp_level)
    BY <1>3 DEF Framed
  <2>4. q # <<>> /\ Len(q) \in Nat /\ Len(q) >= 1
    BY <1>0, <2>3 DEF Shape
  <2> HIDE DEF u
  <2>5. CASE u = Stop(s)
    <3>1. SameBut(s, u) /\ u.exited
      BY <2>5, Outcomes, TRUE \in BOOLEAN
    <3>2. t \in States /\ t.chunks = s.chunks /\ t.pc = s.pc /\ t.exited
      BY <3>1, AllNames DEF SameBut, States
    <3> HIDE DEF t
    <3> QED
      BY <1>3, <2>1, <3>2 DEF Left
  <2>6. CASE u = Pop(s)
    <3> DEFINE f == Tos(q)
               r == Drop(q, 1)
    <3>1. Reframed(s, u, f, r, s.pp_level)
      BY <2>4, <2>6, Pops
    <3>2. /\ r \in Seq(Frames) /\ Len(r) = Len(q) - 1
          /\ \A i \in 1 .. Len(q) - 1 : r[i] = q[i]
          /\ f = q[Len(q)] /\ f \in Frames
      <4>1. 1 \in 1 .. Len(q)
        BY <2>4
      <4> QED
        BY <1>0, <4>1, Dropped
    <3> HIDE DEF f, r, q
    <3>3. /\ t \in States /\ t.chunks = s.chunks /\ t.pc = s.pc /\ t.in_preproc = "NONE"
          /\ t.frm = f /\ t.frames = r /\ t.pp_level = s.pp_level
      BY <3>1, AllNames DEF Reframed, States
    <3> HIDE DEF t
    <3>4. Saved(f) /\ \A i \in 1 .. Len(r) : Saved(r[i])
      <4>1. \A i \in 1 .. Len(q) : Saved(q[i])
        BY DEF Framed, q
      <4>2. Len(q) \in 1 .. Len(q) /\ \A i \in 1 .. Len(r) : i \in 1 .. Len(q) /\ i \in 1 .. Len(q) - 1
        BY <2>4, <3>2
      <4> QED
        BY <3>2, <4>1, <4>2
    <3>5. Shape(Append(r, f), s.pp_level)
      <4>1. /\ Append(r, f) \in Seq(Frames) /\ Len(Append(r, f)) = Len(r) + 1
            /\ Append(r, f)[Len(r) + 1] = f
            /\ \A i \in 1 .. Len(r) : Append(r, f)[i] = r[i]
        BY <3>2, Appended
      <4> DEFINE n == Len(q)
      <4>2. Len(r) + 1 = n /\ Len(r) = n - 1 /\ n \in Nat
        BY <2>4, <3>2
      <4>3. \A i \in 1 .. Len(q) : Append(r, f)[i] = q[i]
        <5> SUFFICES ASSUME NEW i \in 1 .. n
                     PROVE  Append(r, f)[i] = q[i]
          OBVIOUS
        <5>1. CASE i = n
          <6>1. Append(r, f)[n] = f /\ f = q[n]
            BY <3>2, <4>1, <4>2
          <6> QED
            BY <5>1, <6>1
        <5>2. CASE i # n
          <6> HIDE DEF n
          <6>1. i \in 1 .. n - 1
            BY <4>2, <5>2
          <6>2. Append(r, f)[i] = r[i] /\ r[i] = q[i]
            BY <3>2, <4>1, <4>2, <6>1 DEF n
          <6> QED
            BY <6>2
        <5> QED
          BY <5>1, <5>2
      <4> HIDE DEF q
      <4> QED
        BY <1>0, <2>3, <4>1, <4>2, <4>3, ShapeAlike
    <3>6. Framed(t)
      BY <3>3, <3>4, <3>5 DEF Framed, Saved
    <3>7. Top(t).stage \notin Waiting
      BY <3>3, <3>4 DEF Saved, Top
    <3> QED
      BY <1>3, <2>1, <2>4, <3>3, <3>6, <3>7 DEF Left, q
  <2> QED
    BY <2>2, <2>5, <2>6
<1> QED
  BY <1>1, <1>2, <1>3

\* What the start of a directive makes of s.
Entered(s, t) ==
  /\ t \in States /\ t.chunks = s.chunks /\ t.pc = s.pc
  /\ ~t.exited =>
       /\ Framed(t) /\ Top(t).stage \notin Waiting /\ t.in_preproc = Here(s).directive
       /\ s.frames = <<>> /\ s.frm.stack = <<Bottom>> => Top(t).stage = "NONE"

\* s with a directive, and no frame that waits.
Entering(s) ==
  /\ s \in States /\ GoodStack(s.frm.stack) /\ Saved(s.frm)
  /\ \A i \in 1 .. Len(s.frames) : Saved(s.frames[i])
  /\ Shape(Append(s.frames, s.frm), s.pp_level)

LEMMA EnterStop ==
  ASSUME NEW s, s \in States
  PROVE  Entered(s, Stop(s))
  BY Outcomes, TRUE \in BOOLEAN DEF SameBut, Entered

LEMMA EnterBalanced ==
  ASSUME NEW s, s \in States, NEW a, NEW b, NEW t, Entered(s, t)
  PROVE  Entered(s, Balanced(s, a, b, t))
  BY EnterStop DEF Balanced

\* The frame goes on as f, on the frames q.
LEMMA Enters ==
  ASSUME NEW s, Entering(s), s.in_preproc # "PP_DEFINE", s.in_preproc = Here(s).directive,
         NEW f \in Frames, NEW q, q \in Seq(Frames), NEW n, NEW t, Reframed(s, t, f, q, n),
         Saved(f), \A i \in 1 .. Len(q) : Saved(q[i]), Shape(Append(q, f), n),
         s.frames = <<>> /\ s.frm.stack = <<Bottom>> => f.stack = <<Bottom>>
  PROVE  Entered(s, t)
<1>1. /\ t \in States /\ t.chunks = s.chunks /\ t.pc = s.pc /\ t.in_preproc = s.in_preproc
      /\ t.frm = f /\ t.frames = q /\ t.pp_level = n
  BY DEF Reframed
<1>2. Framed(t)
  BY <1>1 DEF Framed, Saved
<1>3. Top(t).stage \notin Waiting
  BY <1>1 DEF Saved, Top
<1>4. f.stack = <<Bottom>> => Top(t).stage = "NONE"
  BY <1>1 DEF Top, Last, Bottom
<1> QED
  BY <1>1, <1>2, <1>3, <1>4 DEF Entered

LEMMA EnterIf ==
  ASSUME NEW s, Entering(s), s.in_preproc # "PP_DEFINE", s.in_preproc = Here(s).directive
  PROVE  Entered(s, CheckIf(s))
<1> DEFINE q == Append(s.frames, s.frm)
           n == s.pp_level
           f == [s.frm EXCEPT !.ifdef = "PP_IF"]
           u == Push(s)
           v == [u EXCEPT !.pp_level = n + 1]
           t == Continue(v, f, n)
<1>1. s.frames \in Seq(Frames) /\ s.frm \in Frames /\ n \in Nat /\ s \in States
  BY DEF Entering, States
<1>2. f \in Frames /\ f.stack = s.frm.stack /\ f.ifdef = "PP_IF"
  BY <1>1 DEF Frames, Names, Directives
<1>3. /\ q \in Seq(Frames) /\ Len(q) = Len(s.frames) + 1 /\ Len(s.frames) \in Nat
      /\ q[Len(s.frames) + 1] = s.frm /\ \A i \in 1 .. Len(s.frames) : q[i] = s.frames[i]
  BY <1>1, Appended
<1>4. CheckIf(s) = t
  BY DEF CheckIf
<1> HIDE DEF f, q
<1>5. Reframed(s, u, s.frm, q, n)
  BY <1>1, Pushes DEF q
<1>12. n + 1 \in Nat
  BY <1>1
<1> HIDE DEF u, n
<1>6. Reframed(s, v, s.frm, q, n + 1)
  <2> DEFINE m == n + 1
  <2>1. m \in Nat
    BY <1>12
  <2> HIDE DEF m
  <2>2. Reframed(s, [u EXCEPT !.pp_level = m], s.frm, q, m)
    BY <1>1, <1>5, <2>1 DEF Reframed, States
  <2> QED
    BY <2>2 DEF m
<1> HIDE DEF v
<1>7. v \in States /\ n \in Int /\ v.frames = q /\ v.pp_level = n + 1
  BY <1>1, <1>6 DEF Reframed
<1>8. Reframed(v, t, f, q, n + 1)
  BY <1>2, <1>7, Continues
<1> HIDE DEF t
<1>9. Reframed(s, t, f, q, n + 1)
  BY <1>6, <1>8 DEF Reframed
<1>10. Saved(f) /\ \A i \in 1 .. Len(q) : Saved(q[i])
  <2>1. Saved(s.frm) /\ \A i \in 1 .. Len(s.frames) : Saved(s.frames[i])
    BY DEF Entering
  <2>2. ASSUME NEW i \in 1 .. Len(q)
        PROVE  Saved(q[i])
    <3>1. i = Len(s.frames) + 1 \/ i \in 1 .. Len(s.frames)
      BY <1>3
    <3> QED
      BY <1>3, <2>1, <3>1
  <2> QED
    BY <1>2, <2>1, <2>2 DEF Saved
<1>11. Shape(Append(q, f), n + 1)
  BY <1>1, <1>2, ShapeIf DEF Entering, n, q
<1> QED
  BY <1>2, <1>3, <1>4, <1>9, <1>10, <1>11, Enters

LEMMA EnterElse ==
  ASSUME NEW s, Entering(s), s.in_preproc # "PP_DEFINE", s.in_preproc = Here(s).directive
  PROVE  Entered(s, CheckElse(s))
<1> DEFINE o == s.frames
           q == Append(s.frames, s.frm)
           m == Len(s.frames)
           n == s.pp_level
           first == s.frm.ifdef = "PP_IF"
           kept == IF first THEN Push(s) ELSE s
           f == [Second(kept.frames) EXCEPT !.ifdef = "PP_ELSE"]
           t == Continue(kept, f, n - 1)
           level == (IF first THEN Second(kept.frames) ELSE Tos(kept.frames)).brace_level
<1>1. o \in Seq(Frames) /\ s.frm \in Frames /\ n \in Nat /\ s \in States
  BY DEF Entering, States
<1>2. /\ q \in Seq(Frames) /\ Len(q) = m + 1 /\ m \in Nat
      /\ q[m + 1] = s.frm /\ \A i \in 1 .. m : q[i] = o[i]
  BY <1>1, Appended
<1>3. Shape(q, n) /\ Saved(s.frm) /\ \A i \in 1 .. m : Saved(o[i])
  BY DEF Entering
<1>4. CASE n = 0
  <2>1. CheckElse(s) = Stop(s)
    BY <1>4 DEF CheckElse
  <2> QED
    BY <1>1, <2>1, EnterStop
<1>5. CASE n # 0
  <2>1. CheckElse(s) = Balanced(s, s.frm.brace_level, level, t)
    BY <1>5 DEF CheckElse
  <2> HIDE DEF q, o
  <2>2. /\ n > 0
        /\ \/ q[Len(q)].ifdef = "PP_IF" /\ Len(q) >= 2
           \/ q[Len(q)].ifdef = "PP_ELSE" /\ Len(q) >= 3
    BY <1>1, <1>3, <1>5, ShapeTop
  <2>3. CASE first
    <3>1. m >= 1 /\ m \in 1 .. m
      BY <1>2, <2>2
    <3>2. kept = Push(s)
      BY <2>3
    <3>3. Reframed(s, kept, s.frm, q, n)
      BY <1>1, <3>2, Pushes DEF q
    <3> HIDE DEF kept
    <3>4. kept \in States /\ kept.frames = q /\ kept.pp_level = n /\ n - 1 \in Int
      BY <1>1, <3>3 DEF Reframed
    <3>5. Second(kept.frames) = o[m] /\ o[m] \in Frames
      <4>1. Len(q) - 1 = m
        BY <1>2
      <4>2. Second(kept.frames) = q[m]
        BY <3>4, <4>1 DEF Second
      <4>3. o[m] \in Frames
        BY <1>1, <3>1 DEF o
      <4> QED
        BY <1>2, <3>1, <4>2, <4>3
    <3>6. f \in Frames /\ f.stack = o[m].stack /\ f.ifdef = "PP_ELSE"
      BY <3>5 DEF Frames, Names, Directives
    <3> HIDE DEF f, n
    <3>7. Reframed(kept, t, f, q, n)
      BY <3>4, <3>6, Continues
    <3> HIDE DEF t
    <3>8. Reframed(s, t, f, q, n)
      BY <3>3, <3>7 DEF Reframed
    <3>9. Saved(f) /\ \A i \in 1 .. Len(q) : Saved(q[i])
      <4>1. ASSUME NEW i \in 1 .. Len(q)
            PROVE  Saved(q[i])
        <5>1. i = m + 1 \/ i \in 1 .. m
          BY <1>2
        <5> QED
          BY <1>2, <1>3, <5>1
      <4>2. Saved(o[m])
        BY <1>3, <3>1
      <4> QED
        BY <3>6, <4>1, <4>2 DEF Saved
    <3>10. Shape(Append(q, f), n)
      <4>1. q[Len(q)].ifdef = "PP_IF"
        BY <1>2, <2>3
      <4> QED
        BY <1>1, <1>3, <2>2, <3>6, <4>1, ShapeElse
    <3>11. s.frames # <<>>
      BY <3>1
    <3>12. Entered(s, t)
      BY <1>2, <3>6, <3>8, <3>9, <3>10, <3>11, Enters
    <3> QED
      BY <1>1, <2>1, <3>12, EnterBalanced
  <2>4. CASE ~first
    <3>1. m >= 2 /\ m - 1 \in 1 .. m /\ q[Len(q)].ifdef = "PP_ELSE"
      <4>1. q[Len(q)].ifdef # "PP_IF"
        BY <1>2, <2>4
      <4> QED
        BY <1>2, <2>2, <4>1
    <3>2. kept = s
      BY <2>4
    <3> HIDE DEF kept
    <3>3. Second(kept.frames) = o[m - 1] /\ o[m - 1] \in Frames
      <4>1. Second(kept.frames) = o[m - 1]
        BY <3>2 DEF Second, o
      <4> QED
        BY <1>1, <3>1, <4>1 DEF o
    <3>4. f \in Frames /\ f.stack = o[m - 1].stack /\ f.ifdef = "PP_ELSE"
      BY <3>3 DEF Frames, Names, Directives
    <3>5. n - 1 \in Int
      BY <1>1
    <3> HIDE DEF f
    <3>6. Reframed(s, t, f, o, n)
      BY <1>1, <3>2, <3>4, <3>5, Continues DEF o
    <3> HIDE DEF t, n
    <3>7. Saved(f)
      <4>1. Saved(o[m - 1])
        BY <1>3, <3>1
      <4> QED
        BY <3>4, <4>1 DEF Saved
    <3>8. Shape(Append(o, f), n)
      <4>1. /\ Append(o, f) \in Seq(Frames) /\ Len(Append(o, f)) = m + 1
            /\ Append(o, f)[m + 1] = f
            /\ \A i \in 1 .. m : Append(o, f)[i] = o[i]
        BY <1>1, <3>4, Appended DEF o
      <4>2. ASSUME NEW i \in 1 .. Len(q)
            PROVE  Append(o, f)[i].ifdef = q[i].ifdef
        <5>1. i = m + 1 \/ i \in 1 .. m
          BY <1>2
        <5>2. f.ifdef = q[m + 1].ifdef
          BY <1>2, <3>1, <3>4
        <5> QED
          BY <1>2, <4>1, <5>1, <5>2
      <4> QED
        BY <1>1, <1>2, <1>3, <4>1, <4>2, ShapeAlike
    <3>9. s.frames # <<>>
      BY <3>1
    <3>10. o \in Seq(Frames) /\ \A i \in 1 .. Len(o) : Saved(o[i])
      BY <1>1, <1>3 DEF o
    <3>11. Entered(s, t)
      BY <3>4, <3>6, <3>7, <3>8, <3>9, <3>10, Enters
    <3> QED
      BY <1>1, <2>1, <3>11, EnterBalanced
  <2> QED
    BY <2>3, <2>4
<1> QED
  BY <1>4, <1>5

LEMMA Closes ==
  ASSUME NEW s, s \in States, s.pp_level # 0, NEW f \in Frames, NEW k, k \in 1 .. Len(s.frames)
  PROVE  /\ Reframed(s, Close(s, f, k), f, Drop(s.frames, k), s.pp_level - 1)
         /\ Drop(s.frames, k) \in Seq(Frames) /\ Len(Drop(s.frames, k)) = Len(s.frames) - k
         /\ \A i \in 1 .. Len(s.frames) - k : Drop(s.frames, k)[i] = s.frames[i]
<1> DEFINE q == Drop(s.frames, k)
           n == s.pp_level - 1
           u == [s EXCEPT !.frames = q]
           v == [u EXCEPT !.pp_level = n]
           t == Continue(v, f, n)
<1>1. q \in Seq(Frames) /\ Len(q) = Len(s.frames) - k /\ \A i \in 1 .. Len(s.frames) - k : q[i] = s.frames[i]
  <2>1. s.frames \in Seq(Frames)
    BY DEF States
  <2> QED
    BY <2>1, Dropped
<1>2. n \in Nat /\ n \in Int
  BY DEF States
<1>3. Close(s, f, k) = t
  BY DEF Close
<1> HIDE DEF q, n
<1>4. Reframed(s, u, s.frm, q, s.pp_level)
  BY <1>1 DEF Reframed, States
<1> HIDE DEF u
<1>5. Reframed(s, v, s.frm, q, n)
  BY <1>2, <1>4 DEF Reframed, States
<1> HIDE DEF v
<1>6. Reframed(v, t, f, v.frames, v.pp_level)
  BY <1>2, <1>5, Continues DEF Reframed
<1> HIDE DEF t
<1>7. Reframed(s, t, f, q, n)
  BY <1>5, <1>6 DEF Reframed
<1> QED
  BY <1>1, <1>3, <1>7 DEF q, n

\* The k frames on top are dropped, and the one of them at the bottom goes on as f.
LEMMA EnterClose ==
  ASSUME NEW s, Entering(s), s.in_preproc # "PP_DEFINE", s.in_preproc = Here(s).directive,
         s.pp_level # 0, NEW k, k \in 1 .. Len(s.frames),
         \/ k = 1 /\ s.frm.ifdef = "PP_IF"
         \/ k = 2 /\ s.frm.ifdef # "PP_IF",
         NEW f \in Frames, Saved(f),
         f.ifdef = s.frames[Len(s.frames) - k + 1].ifdef
  PROVE  Entered(s, Close(s, f, k))
<1> DEFINE o == s.frames
           q == Append(s.frames, s.frm)
           m == Len(s.frames)
           r == Drop(o, k)
           t == Close(s, f, k)
<1>1. o \in Seq(Frames) /\ s.frm \in Frames /\ s \in States /\ s.pp_level \in Nat /\ s.pp_level > 0
  BY DEF Entering, States
<1>2. /\ q \in Seq(Frames) /\ Len(q) = m + 1 /\ m \in Nat
      /\ q[m + 1] = s.frm /\ \A i \in 1 .. m : q[i] = o[i]
  BY <1>1, Appended
<1>3. Shape(q, s.pp_level) /\ Saved(s.frm) /\ \A i \in 1 .. m : Saved(o[i])
  BY DEF Entering
<1>4. Reframed(s, t, f, r, s.pp_level - 1)
  BY <1>1, Closes
<1>5. r \in Seq(Frames) /\ Len(r) = m - k /\ \A i \in 1 .. m - k : r[i] = o[i]
  <2>1. /\ Drop(s.frames, k) \in Seq(Frames) /\ Len(Drop(s.frames, k)) = Len(s.frames) - k
        /\ \A i \in 1 .. Len(s.frames) - k : Drop(s.frames, k)[i] = s.frames[i]
    <3>1. s \in States /\ k \in 1 .. Len(s.frames) /\ f \in Frames /\ s.pp_level # 0
      BY <1>1
    <3>2. Drop(s.frames, k) \in Seq(Frames)
      BY <3>1, Closes
    <3>3. Len(Drop(s.frames, k)) = Len(s.frames) - k
      BY <3>1, Closes
    <3>4. \A i \in 1 .. Len(s.frames) - k : Drop(s.frames, k)[i] = s.frames[i]
      <4> DEFINE n == Len(s.frames)
                 d == Drop(s.frames, k)
      <4>1. s.frames \in Seq(Frames) /\ k \in 1 .. n
        BY <1>1
      <4>2. d = SubSeq(s.frames, 1, n - k)
        BY DEF Drop
      <4>3. n - k \in Nat /\ n - k <= n
        BY <4>1
      <4> HIDE DEF d
      <4>4. \A i \in 1 .. n - k : d[i] = s.frames[i]
        BY <4>1, <4>2, <4>3
      <4> QED
        BY <4>4 DEF d
    <3> QED
      BY <3>2, <3>3, <3>4
  <2> QED
    BY <2>1
<1>6. k \in 1 .. m /\ f.ifdef = o[m - k + 1].ifdef /\ o # <<>>
  BY <1>1
<1>7. k = (IF q[Len(q)].ifdef = "PP_IF" THEN 1 ELSE 2)
  BY <1>2
<1> HIDE DEF t, r, q, o
<1>8. /\ Append(r, f) \in Seq(Frames) /\ Len(Append(r, f)) = Len(r) + 1
      /\ Append(r, f)[Len(r) + 1] = f
      /\ \A i \in 1 .. Len(r) : Append(r, f)[i] = r[i]
  BY <1>5, Appended
<1> HIDE DEF m
<1>9. \A i \in 1 .. Len(r) : Saved(r[i])
  BY <1>2, <1>3, <1>5, <1>6
<1>10. Len(Append(r, f)) = Len(q) - (IF q[Len(q)].ifdef = "PP_IF" THEN 1 ELSE 2)
  BY <1>2, <1>5, <1>6, <1>7, <1>8
<1>11. \A i \in 1 .. Len(Append(r, f)) : Append(r, f)[i].ifdef = q[i].ifdef
  <2> SUFFICES ASSUME NEW i \in 1 .. Len(Append(r, f))
               PROVE  Append(r, f)[i].ifdef = q[i].ifdef
    OBVIOUS
  <2>1. i \in 1 .. m /\ (i \in 1 .. m - k \/ i = m - k + 1) /\ Len(r) + 1 = m - k + 1
    BY <1>2, <1>5, <1>6, <1>8
  <2> QED
    BY <1>2, <1>5, <1>6, <1>8, <2>1
<1>12. Shape(Append(r, f), s.pp_level - 1)
  BY <1>1, <1>3, <1>8, <1>10, <1>11, ShapeEndif
<1>13. s.frames # <<>>
  BY <1>6 DEF o
<1>14. Entered(s, t)
  BY <1>4, <1>5, <1>9, <1>12, <1>13, Enters
<1> QED
  BY <1>14 DEF t

LEMMA EnterEndif ==
  ASSUME NEW s, Entering(s), s.in_preproc # "PP_DEFINE", s.in_preproc = Here(s).directive
  PROVE  Entered(s, CheckEndif(s))
<1> DEFINE o == s.frames
           q == Append(s.frames, s.frm)
           m == Len(s.frames)
<1>1. o \in Seq(Frames) /\ s.frm \in Frames /\ s \in States /\ s.pp_level \in Nat
  BY DEF Entering, States
<1>2. q \in Seq(Frames) /\ Len(q) = m + 1 /\ m \in Nat /\ q[m + 1] = s.frm
  BY <1>1, Appended
<1>3. Shape(q, s.pp_level) /\ \A i \in 1 .. m : Saved(o[i])
  BY DEF Entering
<1>4. CASE s.pp_level = 0
  <2>1. CheckEndif(s) = Stop(s)
    BY <1>4 DEF CheckEndif
  <2> QED
    BY <1>1, <2>1, EnterStop
<1>5. CASE s.pp_level # 0
  <2> HIDE DEF q
  <2>1. \/ q[Len(q)].ifdef = "PP_IF" /\ Len(q) >= 2
        \/ q[Len(q)].ifdef = "PP_ELSE" /\ Len(q) >= 3
    <3>1. s.pp_level > 0
      BY <1>1, <1>5
    <3> QED
      BY <1>1, <1>3, <3>1, ShapeTop
  <2>2. CASE s.frm.ifdef = "PP_IF"
    <3> DEFINE f == Tos(o)
    <3>1. m >= 1 /\ 1 \in 1 .. m /\ m \in 1 .. m /\ m - 1 + 1 = m
      BY <1>2, <2>1
    <3>2. f = o[m] /\ f \in Frames
      BY <1>1, <3>1, Dropped
    <3>3. Saved(f)
      BY <1>3, <3>1, <3>2
    <3>4. CheckEndif(s) = Balanced(s, s.frm.brace_level, Tos(o).brace_level, Close(s, f, 1))
      BY <1>5, <2>2 DEF CheckEndif
    <3> HIDE DEF f
    <3>5. f.ifdef = o[m - 1 + 1].ifdef
      BY <3>1, <3>2
    <3>6. Entered(s, Close(s, f, 1))
      BY <1>5, <2>2, <3>1, <3>2, <3>3, <3>5, EnterClose
    <3> QED
      BY <1>1, <3>4, <3>6, EnterBalanced
  <2>3. CASE s.frm.ifdef = "PP_ELSE"
    <3> DEFINE f == [Tos(o) EXCEPT !.ifdef = Second(o).ifdef]
    <3>1. m >= 2 /\ 2 \in 1 .. m /\ m \in 1 .. m /\ m - 1 \in 1 .. m /\ m - 2 + 1 = m - 1
      BY <1>2, <2>1, <2>3
    <3>2. Tos(o) = o[m] /\ o[m] \in Frames
      BY <1>1, <3>1, Dropped
    <3>3. Second(o) = o[m - 1] /\ o[m - 1] \in Frames
      BY <1>1, <3>1 DEF Second
    <3>4. f \in Frames /\ f.stack = o[m].stack /\ f.ifdef = o[m - 1].ifdef
      <4> HIDE DEF o, m
      <4> QED
        BY <3>2, <3>3 DEF Frames
    <3>5. CheckEndif(s) = Balanced(s, s.frm.brace_level, Tos(o).brace_level, Close(s, f, 2))
      BY <1>5, <2>3, <3>1 DEF CheckEndif
    <3> HIDE DEF f
    <3>6. Saved(f)
      <4>1. Saved(o[m])
        BY <1>3, <3>1
      <4> QED
        BY <3>4, <4>1 DEF Saved
    <3>7. f.ifdef = o[m - 2 + 1].ifdef
      BY <3>1, <3>4
    <3>8. Entered(s, Close(s, f, 2))
      BY <1>5, <2>3, <3>1, <3>4, <3>6, <3>7, EnterClose
    <3> QED
      BY <1>1, <3>5, <3>8, EnterBalanced
  <2> QED
    BY <1>2, <2>1, <2>2, <2>3
<1> QED
  BY <1>4, <1>5

LEMMA EnterBody ==
  ASSUME NEW s, Entering(s), s.in_preproc = "PP_DEFINE", Here(s).directive = "PP_DEFINE"
  PROVE  Entered(s, EnterDefine(s, DefineFrame))
<1> DEFINE q == Append(s.frames, s.frm)
           u == Push(s)
           f == DefineFrame
           t == Continue(u, f, s.pp_level)
           e == [Bottom EXCEPT !.open = "PP_DEFINE"]
<1>1. s.frames \in Seq(Frames) /\ s.frm \in Frames /\ s \in States /\ s.pp_level \in Int
  BY DEF Entering, States
<1>2. /\ q \in Seq(Frames) /\ Len(q) = Len(s.frames) + 1 /\ Len(s.frames) \in Nat
      /\ q[Len(s.frames) + 1] = s.frm /\ \A i \in 1 .. Len(s.frames) : q[i] = s.frames[i]
  BY <1>1, Appended
<1>3. Bottom \in Entries /\ e \in Entries /\ e.open = "PP_DEFINE" /\ e.stage = "NONE"
      /\ Bottom.open # "VBRACE_OPEN" /\ "NONE" \in Names
  BY AllNames DEF Bottom, Entries, Names, Directives, Types
<1>4. f.stack = <<Bottom, e>> /\ f \in Frames
  <2> DEFINE two == <<Bottom, e>>
             b == Bottom
  <2>1. two \in Seq(Entries)
    BY <1>3
  <2>2. f.stack = two /\ f = [[[NewFrame EXCEPT !.stack = two] EXCEPT !.paren_level = 1] EXCEPT !.brace_level = 1]
    BY DEF DefineFrame, NewFrame
  <2>3. NewFrame \in Frames
    <3>1. <<b>> \in Seq(Entries)
      BY <1>3
    <3> HIDE DEF b
    <3> QED
      BY <1>3, <3>1 DEF NewFrame, Frames, b
  <2> HIDE DEF two, f
  <2> DEFINE f1 == [NewFrame EXCEPT !.stack = two]
             f2 == [f1 EXCEPT !.paren_level = 1]
  <2>5. f1 \in Frames
    BY <2>1, <2>3 DEF Frames
  <2>6. f = [f2 EXCEPT !.brace_level = 1]
    BY <2>2
  <2> HIDE DEF f1
  <2>7. f2 \in Frames
    BY <2>5 DEF Frames
  <2> HIDE DEF f2
  <2>4. f \in Frames
    BY <2>6, <2>7 DEF Frames
  <2> QED
    BY <2>2, <2>4 DEF two
<1>5. GoodStack(f.stack) /\ Last(f.stack) = e
  <2> HIDE DEF e, f
  <2> DEFINE pair == <<Bottom, e>>
  <2>1. pair \in Seq(Entries) /\ Len(pair) = 2 /\ pair[1] = Bottom /\ pair[2] = e
    BY <1>3
  <2>3. pair # <<>>
    OBVIOUS
  <2> HIDE DEF pair
  <2>2. GoodStack(pair) /\ Last(pair) = e
    <3>1. \A i \in 1 .. Len(pair) : GoodEntry(pair[i])
      <4>1. \A i \in 1 .. Len(pair) : i = 1 \/ i = 2
        BY <2>1
      <4>2. GoodEntry(Bottom) /\ GoodEntry(e)
        BY <1>3 DEF GoodEntry
      <4> QED
        BY <2>1, <4>1, <4>2
    <3>2. pair # <<>> /\ Last(pair) = e
      <4>1. Last(pair) = pair[2]
        BY <2>1 DEF Last
      <4> QED
        BY <2>1, <2>3, <4>1
    <3> QED
      BY <2>1, <3>1, <3>2 DEF GoodStack
  <2> QED
    BY <1>4, <2>2 DEF pair
<1>6. EnterDefine(s, DefineFrame) = t
  BY DEF EnterDefine
<1> HIDE DEF f, e, q
<1>7. Reframed(s, u, s.frm, q, s.pp_level)
  BY <1>1, Pushes DEF q
<1> HIDE DEF u
<1>8. Reframed(u, t, f, u.frames, u.pp_level)
  BY <1>1, <1>4, <1>7, Continues DEF Reframed
<1> HIDE DEF t
<1>9. Reframed(s, t, f, q, s.pp_level)
  BY <1>7, <1>8 DEF Reframed
<1>10. /\ t \in States /\ t.chunks = s.chunks /\ t.pc = s.pc /\ t.in_preproc = "PP_DEFINE"
       /\ t.frm = f /\ t.frames = q /\ t.pp_level = s.pp_level
  BY <1>9 DEF Reframed
<1>11. Shape(q, s.pp_level) /\ \A i \in 1 .. Len(q) : Saved(q[i])
  <2>1. Saved(s.frm) /\ \A i \in 1 .. Len(s.frames) : Saved(s.frames[i])
    BY DEF Entering
  <2>2. ASSUME NEW i \in 1 .. Len(q)
        PROVE  Saved(q[i])
    <3>1. i = Len(s.frames) + 1 \/ i \in 1 .. Len(s.frames)
      BY <1>2
    <3> QED
      BY <1>2, <2>1, <3>1
  <2>3. Shape(q, s.pp_level)
    BY DEF Entering, q
  <2> QED
    BY <2>2, <2>3
<1>12. Framed(t)
  BY <1>5, <1>10, <1>11 DEF Framed
<1>13. Top(t) = e
  BY <1>5, <1>10 DEF Top
<1> QED
  BY <1>3, <1>6, <1>10, <1>12, <1>13 DEF Entered, Waiting

\* preproc_start(), at a directive, outside of any other.
LEMMA StartFrames ==
  ASSUME NEW s, s \in States, ~s.exited, Framed(s), s.in_preproc = "NONE",
         Top(s).stage \notin Waiting, Here(s).directive \in Names
  PROVE  Entered(s, PreprocStart(s))
<1> DEFINE d == Here(s).directive
           u == [s EXCEPT !.in_preproc = d]
           v == [u EXCEPT !.out_level = s.pp_level]
           w == [s EXCEPT !.in_preproc = d, !.out_level = s.pp_level]
<1>1. w = v
  BY DEF States
<1> HIDE DEF d
<1>2. /\ u \in States /\ u.chunks = s.chunks /\ u.pc = s.pc /\ u.frm = s.frm /\ u.frames = s.frames
      /\ u.pp_level = s.pp_level /\ u.in_preproc = d /\ u.exited = s.exited
  BY DEF States, d
<1> HIDE DEF u
<1>3. /\ v \in States /\ v.chunks = s.chunks /\ v.pc = s.pc /\ v.frm = s.frm /\ v.frames = s.frames
      /\ v.pp_level = s.pp_level /\ v.in_preproc = d /\ v.exited = s.exited
  BY <1>2 DEF States
<1> HIDE DEF v
<1>4. Here(v) = Here(s) /\ Here(v).directive = d
  BY <1>3 DEF Here, d
<1>5. Entering(v)
  BY <1>3 DEF Framed, Entering, Saved, Top
<1>6. ASSUME NEW t, Entered(v, t)
      PROVE  Entered(s, t)
  BY <1>3, <1>4, <1>6 DEF Entered
<1>7. d # "PP_DEFINE" => Entered(v, v)
  <2> SUFFICES ASSUME d # "PP_DEFINE"
               PROVE  Entered(v, v)
    OBVIOUS
  <2>1. Framed(v) /\ Saved(v.frm)
    BY <1>3, <1>5 DEF Entering, Framed
  <2>2. Top(v).stage \notin Waiting
    BY <2>1 DEF Saved, Top
  <2>3. v.frm.stack = <<Bottom>> => Top(v).stage = "NONE"
    BY DEF Top, Last, Bottom
  <2> QED
    BY <1>3, <1>4, <2>1, <2>2, <2>3 DEF Entered
<1>8. PreprocStart(s) = (CASE d = "PP_DEFINE" -> EnterDefine(v, DefineFrame)
                           [] d = "PP_IF"     -> CheckIf(v)
                           [] d = "PP_ELSE"   -> CheckElse(v)
                           [] d = "PP_ENDIF"  -> CheckEndif(v)
                           [] OTHER           -> v)
  BY <1>1 DEF PreprocStart, d, w
<1>9. CASE d = "PP_DEFINE"
  <2>1. PreprocStart(s) = EnterDefine(v, DefineFrame)
    BY <1>8, <1>9
  <2>2. Entered(v, EnterDefine(v, DefineFrame))
    BY <1>3, <1>4, <1>5, <1>9, EnterBody
  <2> QED
    BY <1>6, <2>1, <2>2
<1>10. CASE d = "PP_IF"
  <2>1. PreprocStart(s) = CheckIf(v)
    BY <1>8, <1>10
  <2>2. Entered(v, CheckIf(v))
    BY <1>3, <1>4, <1>5, <1>10, EnterIf
  <2> QED
    BY <1>6, <2>1, <2>2
<1>11. CASE d = "PP_ELSE"
  <2>1. PreprocStart(s) = CheckElse(v)
    BY <1>8, <1>11
  <2>2. Entered(v, CheckElse(v))
    BY <1>3, <1>4, <1>5, <1>11, EnterElse
  <2> QED
    BY <1>6, <2>1, <2>2
<1>12. CASE d = "PP_ENDIF"
  <2>1. PreprocStart(s) = CheckEndif(v)
    BY <1>8, <1>12
  <2>2. Entered(v, CheckEndif(v))
    BY <1>3, <1>4, <1>5, <1>12, EnterEndif
  <2> QED
    BY <1>6, <2>1, <2>2
<1>13. CASE d \notin {"PP_DEFINE", "PP_IF", "PP_ELSE", "PP_ENDIF"}
  <2>1. PreprocStart(s) = v
    BY <1>8, <1>13
  <2>2. Entered(v, v)
    BY <1>7, <1>13
  <2> QED
    BY <1>6, <2>1, <2>2
<1> QED
  BY <1>9, <1>10, <1>11, <1>12, <1>13

-----------------------------------------------------------------------------
(* What comes, and what was before                                         *)

Virtual == {"VBRACE_OPEN", "VBRACE_CLOSE"}

\* Chunk d may follow chunk c.
Follows(c, d) ==
  /\ c.in_preproc /\ ~d.in_preproc => d.type = "NEWLINE"
  /\ d.type = "PREPROC" => ~c.in_preproc
Joins(c, q) == q # <<>> => Follows(c, q[1])

\* A part of the source, which has no virtual braces yet.
Source(q) ==
  \A k \in 1 .. Len(q) :
    /\ q[k].type \notin Virtual /\ (q[k].type = "PREPROC" => q[k].in_preproc)
    /\ k >= 2 => Follows(q[k - 1], q[k])

\* The current chunk and all after it.
Whole(s) == Rest(s.chunks, s.pc - 1)

Parsing(s) == s.in_preproc \in {"NONE", "PP_DEFINE"}

\* The chunk before is in the directive that is not left yet.  The chunk is of the
\* source, or the closing virtual brace the last turn put there, in or out of a
\* directive as the chunk before it.
Coming(s) ==
  /\ s.in_preproc # "NONE" => s.pc > 1 /\ s.chunks[s.pc - 1].in_preproc
  /\ s.pc <= Len(s.chunks) =>
       /\ Source(Later(s)) /\ Joins(Here(s), Later(s))
       /\ s.pc > 1 => Follows(s.chunks[s.pc - 1], Here(s))
       /\ Here(s).type # "VBRACE_OPEN" /\ (Here(s).type = "PREPROC" => Here(s).in_preproc)
       /\ Here(s).type = "VBRACE_CLOSE" =>
            /\ Top(s).open = "VBRACE_OPEN" /\ Parsing(s)
            /\ s.pc > 1 /\ Here(s).in_preproc = s.chunks[s.pc - 1].in_preproc

\* Code was parsed before the current chunk, and a newline after it if it was in a
\* directive that has ended.
Behind(s) ==
  \E p \in 1 .. s.pc - 1 :
    /\ ~IsLayout(s.chunks[p]) /\ \A i \in p + 1 .. s.pc - 1 : IsLayout(s.chunks[i])
    /\ s.chunks[p].in_preproc =>
         \/ s.chunks[s.pc - 1].in_preproc
         \/ \E j \in p + 1 .. s.pc - 1 : s.chunks[j].type = "NEWLINE"
Started(s) == (s.frm.stack = <<Bottom>> /\ s.frames = <<>>) \/ Behind(s)

\* A frame that waits for a part of its statement gets it, and that is parsed.
Expected(s) == Fits(Top(s).stage, Whole(s)) /\ (Top(s).stage \in Waiting => Parsing(s))

Ruled(s) ==
  /\ s.pc \in 1 .. Len(s.chunks) + 1
  /\ Framed(s) /\ Coming(s) /\ Started(s) /\ Expected(s)

LEMMA RestType ==
  ASSUME NEW q, q \in Seq(Chunks), NEW p, p \in 0 .. Len(q)
  PROVE  /\ Rest(q, p) \in Seq(Chunks) /\ Len(Rest(q, p)) = Len(q) - p
         /\ \A k \in 1 .. Len(q) - p : Rest(q, p)[k] = q[p + k]
<1> DEFINE n == Len(q) - p
           r == [k \in 1 .. n |-> q[p + k]]
<1>1. n \in Nat /\ \A k \in 1 .. n : q[p + k] \in Chunks
  <2>1. n \in Nat /\ \A k \in 1 .. n : p + k \in 1 .. Len(q)
    OBVIOUS
  <2> QED
    BY <2>1
<1>2. r \in Seq(Chunks) /\ Len(r) = n
  BY <1>1
<1> QED
  BY <1>2 DEF Rest

\* The state after the turn that w is the end of.
LEMMA Advanced ==
  ASSUME NEW w, w \in States, ~w.exited, w.pc \in 1 .. Len(w.chunks)
  PROVE  LET t == Advance(w)
         IN  /\ t \in States /\ t.chunks = w.chunks /\ t.pc = w.pc + 1 /\ t.pc \in 1 .. Len(t.chunks) + 1
             /\ t.frm = w.frm /\ t.frames = w.frames /\ t.pp_level = w.pp_level
             /\ t.in_preproc = w.in_preproc /\ t.exited = w.exited /\ Top(t) = Top(w)
             /\ Whole(t) = Later(w) /\ t.chunks[t.pc - 1] = Here(w)
             /\ Later(w) \in Seq(Chunks)
             /\ t.pc <= Len(t.chunks) =>
                  Later(w) # <<>> /\ Here(t) = Later(w)[1] /\ Later(t) = Rest(Later(w), 1)
<1> DEFINE t == [w EXCEPT !.pc = w.pc + 1]
           q == w.chunks
<1>1. q \in Seq(Chunks) /\ w.pc \in Nat /\ Len(q) \in Nat
  BY DEF States
<1>2. Advance(w) = t
  BY DEF Advance
<1>3. /\ t \in States /\ t.chunks = q /\ t.pc = w.pc + 1
      /\ t.frm = w.frm /\ t.frames = w.frames /\ t.pp_level = w.pp_level
      /\ t.in_preproc = w.in_preproc /\ t.exited = w.exited
  BY <1>1 DEF States
<1> HIDE DEF t
<1>4. t.pc \in 1 .. Len(t.chunks) + 1 /\ t.pc - 1 = w.pc
  BY <1>1, <1>3
<1>5. Top(t) = Top(w) /\ Whole(t) = Later(w) /\ t.chunks[t.pc - 1] = Here(w)
  BY <1>3, <1>4 DEF Top, Whole, Later, Here
<1>6. /\ Later(w) \in Seq(Chunks) /\ Len(Later(w)) = Len(q) - w.pc
      /\ \A k \in 1 .. Len(q) - w.pc : Later(w)[k] = q[w.pc + k]
  <2>1. w.pc \in 0 .. Len(q)
    BY <1>1
  <2> QED
    BY <1>1, <2>1, RestType DEF Later
<1>7. ASSUME t.pc <= Len(t.chunks)
      PROVE  Later(w) # <<>> /\ Here(t) = Later(w)[1] /\ Later(t) = Rest(Later(w), 1)
  <2> DEFINE r == Later(w)
             n == Len(q) - w.pc
  <2>1. n \in Nat /\ n >= 1 /\ Len(r) = n /\ 1 \in 1 .. n
    BY <1>1, <1>3, <1>6, <1>7
  <2>2. \A k \in 1 .. n : r[k] = q[w.pc + k]
    BY <1>6
  <2>3. Here(t) = r[1]
    BY <1>3, <2>1, <2>2 DEF Here
  <2>4. Later(t) = [k \in 1 .. Len(q) - (w.pc + 1) |-> q[(w.pc + 1) + k]]
    BY <1>3 DEF Later, Rest
  <2>5. Rest(r, 1) = [k \in 1 .. Len(r) - 1 |-> r[1 + k]]
    BY DEF Rest
  <2>6. Len(q) - (w.pc + 1) = Len(r) - 1
    BY <1>1, <2>1
  <2>7. \A k \in 1 .. Len(r) - 1 : r[1 + k] = q[(w.pc + 1) + k]
    <3> SUFFICES ASSUME NEW k \in 1 .. n - 1
                 PROVE  r[1 + k] = q[(w.pc + 1) + k]
      BY <2>1
    <3>1. 1 + k \in 1 .. n /\ w.pc + (1 + k) = (w.pc + 1) + k
      BY <1>1, <2>1
    <3>2. r[1 + k] = q[w.pc + (1 + k)]
      BY <2>2, <3>1
    <3> QED
      BY <3>1, <3>2
  <2> DEFINE m == Len(r) - 1
  <2> HIDE DEF r, n, m
  <2>8. Later(t) = [k \in 1 .. m |-> q[(w.pc + 1) + k]] /\ Rest(r, 1) = [k \in 1 .. m |-> r[1 + k]]
    BY <2>4, <2>5, <2>6 DEF m
  <2>9. \A k \in 1 .. m : r[1 + k] = q[(w.pc + 1) + k]
    BY <2>7 DEF m
  <2>10. Later(t) = Rest(r, 1)
    BY <2>8, <2>9, Zenon
  <2>11. r # <<>>
    BY <2>1, <1>6 DEF r
  <2> QED
    BY <2>3, <2>10, <2>11 DEF r
<1> QED
  BY <1>2, <1>3, <1>4, <1>5, <1>6, <1>7

\* The source goes on after its first chunk.
LEMMA SourceGoesOn ==
  ASSUME NEW q, q \in Seq(Chunks), Source(q), q # <<>>
  PROVE  /\ Source(Rest(q, 1)) /\ Joins(q[1], Rest(q, 1))
         /\ q[1].type \notin Virtual /\ (q[1].type = "PREPROC" => q[1].in_preproc)
<1> DEFINE r == Rest(q, 1)
           n == Len(q)
<1>1. n \in Nat /\ n >= 1 /\ 1 \in 1 .. n /\ 1 \in 0 .. n
  OBVIOUS
<1>2. r \in Seq(Chunks) /\ Len(r) = n - 1 /\ \A k \in 1 .. n - 1 : r[k] = q[1 + k]
  BY <1>1, RestType
<1>3. q[1].type \notin Virtual /\ (q[1].type = "PREPROC" => q[1].in_preproc)
  BY <1>1 DEF Source
<1> HIDE DEF r, n
<1>4. ASSUME NEW k \in 1 .. n - 1
      PROVE  /\ r[k] = q[k + 1] /\ q[k + 1].type \notin Virtual /\ (q[k + 1].type = "PREPROC" => q[k + 1].in_preproc)
             /\ Follows(q[k], q[k + 1])
  <2>1. k + 1 \in 1 .. n /\ k + 1 >= 2 /\ (k + 1) - 1 = k /\ 1 + k = k + 1
    BY <1>1
  <2> QED
    BY <1>2, <2>1 DEF Source, n
<1>5. Source(r)
  <2> SUFFICES ASSUME NEW k \in 1 .. n - 1
               PROVE  /\ r[k].type \notin Virtual /\ (r[k].type = "PREPROC" => r[k].in_preproc)
                      /\ k >= 2 => Follows(r[k - 1], r[k])
    BY <1>2 DEF Source
  <2>1. r[k].type \notin Virtual /\ (r[k].type = "PREPROC" => r[k].in_preproc)
    BY <1>4
  <2>2. ASSUME k >= 2
        PROVE  Follows(r[k - 1], r[k])
    <3>1. k - 1 \in 1 .. n - 1 /\ (k - 1) + 1 = k
      BY <1>1, <2>2
    <3> QED
      BY <1>4, <3>1
  <2> QED
    BY <2>1, <2>2
<1>6. Joins(q[1], r)
  <2> SUFFICES ASSUME r # <<>>
               PROVE  Follows(q[1], r[1])
    BY DEF Joins
  <2>1. 1 \in 1 .. n - 1
    BY <1>1, <1>2
  <2> QED
    BY <1>4, <2>1
<1> QED
  BY <1>3, <1>5, <1>6 DEF r

LEMMA AfterRest ==
  ASSUME NEW e, e \in Chunks, NEW q, q \in Seq(Chunks)
  PROVE  Rest(After(e, q), 1) = q /\ After(e, q)[1] = e
<1> DEFINE n == Len(q)
           r == After(e, q)
<1>1. n \in Nat
  OBVIOUS
<1>2. r = [k \in 1 .. n + 1 |-> IF k = 1 THEN e ELSE q[k - 1]]
  BY DEF After
<1> HIDE DEF r, n
<1>3. r \in Seq(Chunks) /\ Len(r) = n + 1
  <2>1. \A k \in 1 .. n + 1 : (IF k = 1 THEN e ELSE q[k - 1]) \in Chunks
    BY <1>1 DEF n
  <2> QED
    BY <1>1, <1>2, <2>1
<1>4. r[1] = e
  BY <1>1, <1>2
<1>5. Rest(r, 1) = [k \in 1 .. n |-> r[1 + k]]
  BY <1>1, <1>3 DEF Rest
<1>6. \A k \in 1 .. n : r[1 + k] = q[k]
  BY <1>1, <1>2
<1>7. q = [k \in 1 .. n |-> q[k]]
  BY DEF n
<1>8. Rest(r, 1) = q
  BY <1>5, <1>6, <1>7, Zenon
<1> QED
  BY <1>4, <1>8 DEF r

-----------------------------------------------------------------------------
(* A turn                                                                  *)

\* The state in which a chunk of code is parsed, in or out of a directive.
Facing(u) ==
  /\ Good(u) /\ Framed(u) /\ ~u.exited
  /\ u.in_preproc # "NONE" => Here(u).in_preproc

\* What the rest of the turn makes of u.
Turned(u, w) ==
  /\ Parsed(u, w)
  /\ Parsing(u) \/ (~w.exited => Later(w) = Later(u) /\ Top(w).stage \notin Waiting)

LEMMA TurnFrames ==
  ASSUME NEW u, Good(u), Framed(u), NEW w, Good(w), SameFrames(u, w)
  PROVE  Framed(w)
<1>1. GoodStack(w.frm.stack) /\ w.frames = u.frames /\ w.pp_level = u.pp_level
      /\ w.in_preproc = u.in_preproc /\ w.frm.ifdef = u.frm.ifdef
  BY DEF Good, SameFrames
<1>2. /\ u.frames \in Seq(Frames) /\ u.frm \in Frames /\ w.frm \in Frames /\ u.pp_level \in Nat
  BY DEF Good, States
<1>3. CASE u.in_preproc = "PP_DEFINE"
  BY <1>1, <1>3 DEF Framed
<1>4. CASE u.in_preproc # "PP_DEFINE"
  <2> DEFINE q == Append(u.frames, u.frm)
             r == Append(u.frames, w.frm)
             n == Len(u.frames)
  <2>1. /\ q \in Seq(Frames) /\ Len(q) = n + 1 /\ n \in Nat /\ q[n + 1] = u.frm
        /\ \A i \in 1 .. n : q[i] = u.frames[i]
    BY <1>2, Appended
  <2>2. /\ r \in Seq(Frames) /\ Len(r) = n + 1 /\ r[n + 1] = w.frm
        /\ \A i \in 1 .. n : r[i] = u.frames[i]
    BY <1>2, Appended
  <2>3. Shape(q, u.pp_level)
    BY <1>4 DEF Framed
  <2> HIDE DEF q, r
  <2>4. \A i \in 1 .. Len(q) : r[i].ifdef = q[i].ifdef
    <3> SUFFICES ASSUME NEW i \in 1 .. Len(q)
                 PROVE  r[i].ifdef = q[i].ifdef
      OBVIOUS
    <3>1. i \in 1 .. n \/ i = n + 1
      BY <2>1
    <3> QED
      BY <1>1, <2>1, <2>2, <3>1
  <2>5. Shape(r, u.pp_level)
    BY <1>2, <2>1, <2>2, <2>3, <2>4, ShapeAlike
  <2> QED
    BY <1>1, <1>4, <2>5 DEF Framed, r
<1> QED
  BY <1>3, <1>4

LEMMA TurnRules ==
  ASSUME NEW u, NEW w, Facing(u), Source(Later(u)), Joins(Here(u), Later(u)),
         Turned(u, w), ~w.exited
  PROVE  Advance(w) \in States /\ Ruled(Advance(w))
<1> DEFINE t == Advance(w)
           q == Later(u)
           c == Here(w)
<1>1. /\ Good(w) /\ SameFrames(u, w) /\ c.in_preproc = Here(u).in_preproc
      /\ \/ Later(w) = q /\ Fits(Top(w).stage, q)
         \/ CloserPut(u, w) /\ Top(w).open = "VBRACE_OPEN"
  BY DEF Turned, Parsed
<1>2. w \in States /\ w.pc \in 1 .. Len(w.chunks) /\ ~IsLayout(c) /\ Len(w.chunks) \in Nat /\ w.pc \in Nat
  BY <1>1, HereType DEF Good
<1>3. /\ t \in States /\ t.chunks = w.chunks /\ t.pc = w.pc + 1 /\ t.pc \in 1 .. Len(t.chunks) + 1
      /\ t.frm = w.frm /\ t.frames = w.frames /\ t.pp_level = w.pp_level
      /\ t.in_preproc = w.in_preproc /\ Top(t) = Top(w)
      /\ Whole(t) = Later(w) /\ t.chunks[t.pc - 1] = c
      /\ t.pc <= Len(t.chunks) =>
           Later(w) # <<>> /\ Here(t) = Later(w)[1] /\ Later(t) = Rest(Later(w), 1)
  BY <1>2, Advanced
<1>4. q \in Seq(Chunks) /\ Source(q) /\ Joins(Here(u), q)
  <2>1. u \in States /\ u.pc \in 0 .. Len(u.chunks)
    BY HereType DEF Facing, Good
  <2> QED
    BY <2>1, LaterType
<1> HIDE DEF t, q, c
<1>5. Framed(t)
  <2>1. Framed(w)
    BY <1>1, TurnFrames DEF Facing
  <2> QED
    BY <1>3, <2>1 DEF Framed
<1>6. Started(t)
  <2>1. w.pc \in 1 .. t.pc - 1 /\ t.pc - 1 = w.pc /\ t.chunks[w.pc] = c
    BY <1>2, <1>3
  <2>2. \A i \in w.pc + 1 .. t.pc - 1 : FALSE
    BY <1>2, <2>1
  <2> QED
    BY <1>2, <2>1, <2>2 DEF Started, Behind
<1>7. t.in_preproc # "NONE" => t.pc > 1 /\ t.chunks[t.pc - 1].in_preproc
  <2>1. t.pc > 1
    BY <1>2, <1>3
  <2> QED
    BY <1>1, <1>3, <2>1 DEF Facing, SameFrames
<1>8. Joins(c, q)
  BY <1>1, <1>4 DEF Joins, Follows
<1>9. Parsing(t) <=> Parsing(u)
  BY <1>1, <1>3 DEF SameFrames, Parsing
<1>10. t.pc > 1
  BY <1>2, <1>3
<1>11. CASE Later(w) = q /\ Fits(Top(w).stage, q)
  <2>1. Coming(t)
    <3>1. ASSUME t.pc <= Len(t.chunks)
          PROVE  /\ Source(Later(t)) /\ Joins(Here(t), Later(t))
                 /\ Follows(t.chunks[t.pc - 1], Here(t))
                 /\ Here(t).type \notin Virtual /\ (Here(t).type = "PREPROC" => Here(t).in_preproc)
      <4>1. q # <<>> /\ Here(t) = q[1] /\ Later(t) = Rest(q, 1)
        BY <1>3, <1>11, <3>1
      <4>2. Follows(c, q[1])
        BY <1>8, <4>1 DEF Joins
      <4> QED
        BY <1>3, <1>4, <4>1, <4>2, SourceGoesOn
    <3> QED
      BY <1>7, <3>1 DEF Coming, Virtual
  <2>2. Top(w).stage \in Waiting => Parsing(t)
    BY <1>9 DEF Turned
  <2>3. Expected(t)
    BY <1>3, <1>11, <2>2 DEF Expected
  <2> QED
    BY <1>3, <1>5, <1>6, <2>1, <2>3 DEF Ruled, t
<1>12. CASE CloserPut(u, w) /\ Top(w).open = "VBRACE_OPEN"
  <2>1. PICK e \in Chunks : /\ e.type = "VBRACE_CLOSE" /\ e.in_preproc = Here(u).in_preproc
                            /\ Later(w) = After(e, q)
    BY <1>12 DEF CloserPut, q
  <2>2. Rest(After(e, q), 1) = q /\ After(e, q)[1] = e
    BY <1>4, AfterRest
  <2>3. Top(w).stage = "NONE"
    BY <1>1, <1>12, TopEntry DEF Good, GoodEntry, Top
  <2>4. CASE Parsing(u)
    <3>1. Coming(t)
      <4>1. ASSUME t.pc <= Len(t.chunks)
            PROVE  /\ Source(Later(t)) /\ Joins(Here(t), Later(t))
                   /\ Follows(t.chunks[t.pc - 1], Here(t))
                   /\ Here(t).type = "VBRACE_CLOSE" /\ Here(t).in_preproc = t.chunks[t.pc - 1].in_preproc
        <5>1. Here(t) = e /\ Later(t) = q
          BY <1>3, <2>1, <2>2, <4>1
        <5>2. Joins(e, q)
          BY <1>4, <2>1 DEF Joins, Follows
        <5>3. e.in_preproc = c.in_preproc
          BY <1>1, <2>1
        <5>4. Follows(c, e)
          BY <2>1, <5>3 DEF Follows
        <5> QED
          BY <1>3, <1>4, <2>1, <5>1, <5>2, <5>3, <5>4
      <4> QED
        BY <1>3, <1>7, <1>9, <1>10, <1>12, <2>4, <4>1 DEF Coming
    <3>2. Expected(t)
      BY <1>3, <2>3 DEF Expected, Fits, Waiting
    <3> QED
      BY <1>3, <1>5, <1>6, <3>1, <3>2 DEF Ruled, t
  <2>5. CASE ~Parsing(u)
    <3>1. Later(w) = q
      BY <2>5 DEF Turned, q
    <3>2. Fits(Top(w).stage, q)
      BY <2>3 DEF Fits
    <3> QED
      BY <1>11, <3>1, <3>2
  <2> QED
    BY <2>4, <2>5
<1> QED
  BY <1>1, <1>11, <1>12

LEMMA LevelsSame ==
  ASSUME NEW u, Good(u), NEW n \in Int
  PROVE  Same(u, SetLevels(u, n)) /\ SetLevels(u, n).frm = u.frm
<1> DEFINE c == [Here(u) EXCEPT !.pp_level = n]
           v == SetHere(u, c)
<1>1. c \in Chunks /\ c.type = Here(u).type /\ c.in_preproc = Here(u).in_preproc
  BY HereType DEF Chunks
<1>2. SetLevels(u, n) = LevelHere(v)
  BY DEF SetLevels
<1> HIDE DEF c
<1>3. Same(u, v) /\ v.frm = u.frm
  BY <1>1, SpareChunk
<1> HIDE DEF v
<1>4. Same(v, LevelHere(v)) /\ LevelHere(v).frm = v.frm
  BY <1>3, LevelSame DEF Same, Going, Kept
<1> QED
  BY <1>2, <1>3, <1>4, SameAgain

LEMMA ParseTurns ==
  ASSUME NEW u, Facing(u), NEW n \in Int, Awaited(u), Top(u).stage # "NONE" => Ready(u),
         Parsing(u) \/ Top(u).stage \notin Waiting
  PROVE  /\ Turned(u, Parse(u, n))
         /\ Here(u).type = "VBRACE_CLOSE" /\ Top(u).open = "VBRACE_OPEN" /\ Parsing(u)
            /\ ~Parse(u, n).exited => Len(Parse(u, n).frm.stack) < Len(u.frm.stack)
<1> DEFINE v == SetLevels(u, n)
<1>1. Same(u, v) /\ v.frm = u.frm
  BY LevelsSame DEF Facing
<1> HIDE DEF v
<1>2. /\ Kept(u, v) /\ Good(v) /\ v.in_preproc = u.in_preproc /\ ~v.exited
      /\ Here(v).type = Here(u).type /\ Top(v) = Top(u) /\ (Ready(u) => Ready(v))
      /\ Later(v) = Later(u)
  BY <1>1 DEF Same, Going, Kept, Quiet, SameFrames, Top, Facing
<1>3. CASE Parsing(u)
  <2> DEFINE t == ParseCleanup(v)
  <2>1. Parse(u, n) = t
    BY <1>3 DEF Parse, Parsing, v
  <2>2. Awaited(v) /\ (Top(v).stage # "NONE" => Ready(v))
    BY <1>2 DEF Awaited
  <2>3. /\ Parsed(v, t)
        /\ Here(v).type = "VBRACE_CLOSE" /\ Top(v).open = "VBRACE_OPEN" /\ ~t.exited
             => Len(t.frm.stack) < Len(v.frm.stack)
    BY <1>2, <2>2, Parses
  <2> HIDE DEF t
  <2>4. Parsed(u, t)
    BY <1>2, <2>3, ParsedAfter
  <2> QED
    BY <1>1, <1>2, <1>3, <2>1, <2>3, <2>4 DEF Turned
<1>4. CASE ~Parsing(u)
  <2>1. Parse(u, n) = v
    BY <1>4 DEF Parse, Parsing, v
  <2>2. Parsed(u, v)
    BY <1>2, <1>4, KeptEnds, EndedParses
  <2> QED
    BY <1>2, <1>4, <2>1, <2>2 DEF Turned
<1> QED
  BY <1>3, <1>4

LEMMA WholeHere ==
  ASSUME NEW s, s \in States, s.pc \in 1 .. Len(s.chunks)
  PROVE  /\ Whole(s) \in Seq(Chunks) /\ Later(s) \in Seq(Chunks)
         /\ Len(Whole(s)) = Len(Later(s)) + 1 /\ Len(Later(s)) \in Nat
         /\ Whole(s)[1] = Here(s) /\ \A k \in 1 .. Len(Later(s)) : Whole(s)[k + 1] = Later(s)[k]
<1> DEFINE q == s.chunks
           n == Len(q) - s.pc
           a == Whole(s)
           b == Later(s)
<1>1. q \in Seq(Chunks) /\ s.pc \in Nat /\ Len(q) \in Nat
  BY DEF States
<1>2. s.pc - 1 \in 0 .. Len(q) /\ s.pc \in 0 .. Len(q) /\ Len(q) - (s.pc - 1) = n + 1 /\ n \in Nat
  BY <1>1
<1>3. a \in Seq(Chunks) /\ Len(a) = n + 1 /\ \A k \in 1 .. n + 1 : a[k] = q[(s.pc - 1) + k]
  <2>1. /\ a \in Seq(Chunks) /\ Len(a) = Len(q) - (s.pc - 1)
        /\ \A k \in 1 .. Len(q) - (s.pc - 1) : a[k] = q[(s.pc - 1) + k]
    BY <1>1, <1>2, RestType DEF Whole
  <2> QED
    BY <1>2, <2>1
<1>4. b \in Seq(Chunks) /\ Len(b) = n /\ \A k \in 1 .. n : b[k] = q[s.pc + k]
  BY <1>1, <1>2, RestType DEF Later
<1> HIDE DEF a, b, n
<1>5. a[1] = Here(s)
  <2>1. 1 \in 1 .. n + 1 /\ (s.pc - 1) + 1 = s.pc
    BY <1>1, <1>2
  <2> QED
    BY <1>3, <2>1 DEF Here
<1>6. ASSUME NEW k \in 1 .. n
      PROVE  a[k + 1] = b[k]
  <2>1. k + 1 \in 1 .. n + 1 /\ (s.pc - 1) + (k + 1) = s.pc + k
    BY <1>1, <1>2
  <2> QED
    BY <1>3, <1>4, <2>1
<1> QED
  BY <1>2, <1>3, <1>4, <1>5, <1>6 DEF a, b

\* What comes is here already, or comes after the layout.
LEMMA ComesHere ==
  ASSUME NEW s, s \in States, s.pc \in 1 .. Len(s.chunks), NEW types, Comes(Whole(s), types)
  PROVE  IF IsLayout(Here(s)) THEN Comes(Later(s), types) ELSE Here(s).type \in types
<1> DEFINE a == Whole(s)
           b == Later(s)
<1>1. /\ a \in Seq(Chunks) /\ b \in Seq(Chunks) /\ Len(a) = Len(b) + 1 /\ Len(b) \in Nat
      /\ a[1] = Here(s) /\ \A k \in 1 .. Len(b) : a[k + 1] = b[k]
  BY WholeHere
<1>2. PICK k \in 1 .. Len(a) : /\ ~IsLayout(a[k]) /\ a[k].type \in types
                               /\ \A j \in 1 .. k - 1 : IsLayout(a[j])
  BY DEF Comes
<1> HIDE DEF a, b
<1>3. CASE IsLayout(Here(s))
  <2>1. k # 1
    BY <1>1, <1>2, <1>3
  <2>2. k - 1 \in 1 .. Len(b) /\ (k - 1) + 1 = k
    BY <1>1, <2>1
  <2>3. a[k] = b[k - 1]
    BY <1>1, <2>2
  <2>4. ASSUME NEW j \in 1 .. (k - 1) - 1
        PROVE  IsLayout(b[j])
    <3>1. j \in 1 .. Len(b) /\ j + 1 \in 1 .. k - 1
      BY <1>1, <2>2
    <3> QED
      BY <1>1, <1>2, <3>1
  <2> QED
    BY <1>2, <1>3, <2>2, <2>3, <2>4 DEF Comes, b
<1>4. CASE ~IsLayout(Here(s))
  <2>1. k = 1
    <3>1. k # 1 => 1 \in 1 .. k - 1
      BY <1>1
    <3> QED
      BY <1>1, <1>2, <1>4, <3>1
  <2> QED
    BY <1>1, <1>2, <1>4, <2>1
<1> QED
  BY <1>3, <1>4

LEMMA FitsHere ==
  ASSUME NEW s, s \in States, s.pc \in 1 .. Len(s.chunks), ~IsLayout(Here(s)),
         Fits(Top(s).stage, Whole(s))
  PROVE  Awaited(s)
  BY ComesHere DEF Fits, Awaited

LEMMA BehindReady ==
  ASSUME NEW s, s \in States, s.pc \in 1 .. Len(s.chunks), ~IsLayout(Here(s)), Behind(s),
         s.pc > 1 => Follows(s.chunks[s.pc - 1], Here(s))
  PROVE  Ready(s)
<1>1. PICK p \in 1 .. s.pc - 1 :
        /\ ~IsLayout(s.chunks[p]) /\ \A i \in p + 1 .. s.pc - 1 : IsLayout(s.chunks[i])
        /\ s.chunks[p].in_preproc =>
             \/ s.chunks[s.pc - 1].in_preproc
             \/ \E j \in p + 1 .. s.pc - 1 : s.chunks[j].type = "NEWLINE"
  BY DEF Behind
<1>2. s.pc > 1
  BY DEF States
<1>3. ASSUME s.chunks[p].in_preproc, ~Here(s).in_preproc
      PROVE  \E j \in p + 1 .. s.pc - 1 : s.chunks[j].type = "NEWLINE"
  <2>1. ~s.chunks[s.pc - 1].in_preproc
    BY <1>2, <1>3 DEF Follows, IsLayout
  <2> QED
    BY <1>1, <1>3, <2>1
<1> QED
  BY <1>1, <1>3 DEF Ready

\* What a turn makes of s.
Passed(s, t) ==
  /\ t \in States
  /\ ~t.exited =>
       /\ Ruled(t)
       /\ \/ Whole(t) = Later(s)
          \/ \E e \in Chunks : e.type = "VBRACE_CLOSE" /\ Whole(t) = After(e, Later(s))
       /\ Here(s).type = "VBRACE_CLOSE" => Len(t.frm.stack) < Len(s.frm.stack)

LEMMA StopPasses ==
  ASSUME NEW s, NEW t, t \in States, t.exited
  PROVE  Passed(s, Advance(t))
  BY DEF Passed, Advance

\* The current chunk of s is parsed in the state u, past the end and at the start of
\* directives.
LEMMA CodePasses ==
  ASSUME NEW s, s \in States, Ruled(s), s.pc <= Len(s.chunks), ~IsLayout(Here(s)),
         NEW u, u \in States, u.chunks = s.chunks, u.pc = s.pc, ~u.exited, Framed(u),
         u.in_preproc # "NONE" => Here(s).in_preproc,
         Top(u).stage \in Waiting => Top(u) = Top(s) /\ Parsing(u),
         s.frm.stack = <<Bottom>> /\ s.frames = <<>> => Top(u).stage = "NONE",
         Here(s).type = "VBRACE_CLOSE" => u = s,
         NEW n \in Int
  PROVE  Passed(s, Advance(Parse(u, n)))
<1> DEFINE w == Parse(u, n)
<1>1. s.pc \in 1 .. Len(s.chunks)
  BY DEF Ruled, States
<1>2. Here(u) = Here(s) /\ Later(u) = Later(s) /\ (Ready(s) <=> Ready(u))
  BY DEF Here, Later, Ready
<1>3. Facing(u)
  BY <1>1, <1>2 DEF Facing, Good, Framed
<1>4. Awaited(u)
  <2>1. Awaited(s)
    BY <1>1, FitsHere DEF Ruled, Expected
  <2> QED
    BY <1>2, <2>1 DEF Awaited, Waiting
<1>5. Top(u).stage # "NONE" => Ready(u)
  BY <1>1, <1>2, BehindReady DEF Ruled, Started, Coming
<1>6. /\ Turned(u, w)
      /\ Here(u).type = "VBRACE_CLOSE" /\ Top(u).open = "VBRACE_OPEN" /\ Parsing(u)
         /\ ~w.exited => Len(w.frm.stack) < Len(u.frm.stack)
  BY <1>3, <1>4, <1>5, ParseTurns
<1> HIDE DEF w
<1>7. w \in States
  BY <1>6 DEF Turned, Parsed
<1>8. CASE w.exited
  BY <1>7, <1>8, StopPasses DEF w
<1>9. CASE ~w.exited
  <2> DEFINE t == Advance(w)
  <2>1. Source(Later(u)) /\ Joins(Here(u), Later(u))
    BY <1>2 DEF Ruled, Coming
  <2>2. t \in States /\ Ruled(t)
    BY <1>3, <1>6, <1>9, <2>1, TurnRules
  <2>3. /\ Good(w)
        /\ Later(w) = Later(s) \/ \E e \in Chunks : e.type = "VBRACE_CLOSE" /\ Later(w) = After(e, Later(s))
    BY <1>2, <1>6, <1>9 DEF Turned, Parsed, CloserPut
  <2>4. Whole(t) = Later(w) /\ t.frm = w.frm
    BY <1>7, <1>9, <2>3, Advanced DEF Good
  <2> HIDE DEF t
  <2>5. ASSUME Here(s).type = "VBRACE_CLOSE"
        PROVE  Len(t.frm.stack) < Len(s.frm.stack)
    <3>1. u = s /\ Top(s).open = "VBRACE_OPEN" /\ Parsing(s)
      BY <2>5 DEF Ruled, Coming
    <3> QED
      BY <1>6, <1>9, <2>4, <2>5, <3>1
  <2>6. Passed(s, t)
    BY <2>2, <2>3, <2>4, <2>5 DEF Passed
  <2> QED
    BY <2>6 DEF t, w
<1> QED
  BY <1>8, <1>9

\* The levels of the current chunk are all that changes.
LEMMA LevelsAt ==
  ASSUME NEW u, u \in States, u.pc \in 1 .. Len(u.chunks), NEW n \in Int
  PROVE  LET v == SetLevels(u, n)
         IN  /\ v \in States /\ v.pc = u.pc /\ v.frm = u.frm /\ v.frames = u.frames
             /\ v.pp_level = u.pp_level /\ v.in_preproc = u.in_preproc /\ v.exited = u.exited
             /\ Len(v.chunks) = Len(u.chunks) /\ Later(v) = Later(u)
             /\ \A i \in 1 .. Len(u.chunks) : /\ v.chunks[i].type = u.chunks[i].type
                                              /\ v.chunks[i].in_preproc = u.chunks[i].in_preproc
<1> DEFINE q == u.chunks
           p == u.pc
           c == [Here(u) EXCEPT !.pp_level = n]
           a == SetHere(u, c)
           d == [Here(a) EXCEPT !.level = a.frm.paren_level, !.brace_level = a.frm.brace_level]
           b == SetHere(a, d)
<1>1. q \in Seq(Chunks) /\ p \in Nat /\ Len(q) \in Nat /\ u.frm \in Frames
  BY DEF States
<1>2. Here(u) = q[p] /\ Here(u) \in Chunks
  BY <1>1 DEF Here
<1>3. c \in Chunks /\ c.type = q[p].type /\ c.in_preproc = q[p].in_preproc
  BY <1>2 DEF Chunks
<1>4. SetLevels(u, n) = b
  BY DEF SetLevels, LevelHere
<1> HIDE DEF c
<1>5. ASSUME NEW x, x \in States, NEW e \in Chunks, x.pc \in 1 .. Len(x.chunks)
      PROVE  LET y == SetHere(x, e)
             IN  /\ y \in States /\ y.pc = x.pc /\ y.frm = x.frm /\ y.frames = x.frames
                 /\ y.pp_level = x.pp_level /\ y.in_preproc = x.in_preproc /\ y.exited = x.exited
                 /\ Len(y.chunks) = Len(x.chunks) /\ y.chunks[x.pc] = e
                 /\ \A i \in 1 .. Len(x.chunks) : i # x.pc => y.chunks[i] = x.chunks[i]
  <2> DEFINE r == [x.chunks EXCEPT ![x.pc] = e]
  <2>1. x.chunks \in Seq(Chunks) /\ x.pc \in Nat
    BY <1>5 DEF States
  <2>2. /\ r \in Seq(Chunks) /\ Len(r) = Len(x.chunks) /\ r[x.pc] = e
        /\ \A i \in 1 .. Len(x.chunks) : i # x.pc => r[i] = x.chunks[i]
    BY <1>5, <2>1
  <2>3. SetHere(x, e) = [x EXCEPT !.chunks = r]
    BY DEF SetHere
  <2> HIDE DEF r
  <2> QED
    BY <1>5, <2>2, <2>3 DEF States
<1>6. /\ a \in States /\ a.pc = p /\ a.frm = u.frm /\ a.frames = u.frames
      /\ a.pp_level = u.pp_level /\ a.in_preproc = u.in_preproc /\ a.exited = u.exited
      /\ Len(a.chunks) = Len(q) /\ a.chunks[p] = c
      /\ \A i \in 1 .. Len(q) : i # p => a.chunks[i] = q[i]
  BY <1>3, <1>5
<1> HIDE DEF a
<1>7. d \in Chunks /\ d.type = c.type /\ d.in_preproc = c.in_preproc
  BY <1>1, <1>3, <1>6 DEF Here, Chunks, Frames
<1> HIDE DEF d
<1>8. /\ b \in States /\ b.pc = p /\ b.frm = u.frm /\ b.frames = u.frames
      /\ b.pp_level = u.pp_level /\ b.in_preproc = u.in_preproc /\ b.exited = u.exited
      /\ Len(b.chunks) = Len(q) /\ b.chunks[p] = d
      /\ \A i \in 1 .. Len(q) : i # p => b.chunks[i] = q[i]
  <2>1. /\ b \in States /\ b.pc = a.pc /\ b.frm = a.frm /\ b.frames = a.frames
        /\ b.pp_level = a.pp_level /\ b.in_preproc = a.in_preproc /\ b.exited = a.exited
        /\ Len(b.chunks) = Len(a.chunks) /\ b.chunks[a.pc] = d
        /\ \A i \in 1 .. Len(a.chunks) : i # a.pc => b.chunks[i] = a.chunks[i]
    BY <1>5, <1>6, <1>7
  <2> HIDE DEF b
  <2> QED
    BY <1>6, <2>1
<1> HIDE DEF b
<1>9. \A i \in 1 .. Len(q) : b.chunks[i].type = q[i].type /\ b.chunks[i].in_preproc = q[i].in_preproc
  BY <1>3, <1>7, <1>8
<1>10. Later(b) = Later(u)
  <2> DEFINE m == Len(q) - p
  <2>1. Later(b) = [k \in 1 .. m |-> b.chunks[p + k]] /\ Later(u) = [k \in 1 .. m |-> q[p + k]]
    BY <1>8 DEF Later, Rest
  <2>2. \A k \in 1 .. m : b.chunks[p + k] = q[p + k]
    <3>1. \A k \in 1 .. m : p + k \in 1 .. Len(q) /\ p + k # p
      BY <1>1
    <3> QED
      BY <1>8, <3>1
  <2> HIDE DEF m
  <2> QED
    BY <2>1, <2>2, Zenon
<1> QED
  BY <1>4, <1>8, <1>9, <1>10

LEMMA LayoutPasses ==
  ASSUME NEW s, s \in States, ~s.exited, Ruled(s), s.pc <= Len(s.chunks), IsLayout(Here(s)),
         NEW u, Left(s, u), ~u.exited
  PROVE  Passed(s, Advance(SetLevels(u, u.pp_level)))
<1> DEFINE v == SetLevels(u, u.pp_level)
           t == Advance(v)
           q == s.chunks
           p == s.pc
<1>1. p \in 1 .. Len(q) /\ q \in Seq(Chunks) /\ Len(q) \in Nat /\ p \in Nat
  BY DEF Ruled, States
<1>2. /\ u \in States /\ u.chunks = q /\ u.pc = p /\ Framed(u)
      /\ u.in_preproc = "NONE" \/ (u = s /\ Here(s).in_preproc)
      /\ \/ u.frm = s.frm /\ u.frames = s.frames
         \/ Top(u).stage \notin Waiting /\ s.frames # <<>>
  BY DEF Left
<1>3. /\ v \in States /\ v.pc = p /\ v.frm = u.frm /\ v.frames = u.frames
      /\ v.pp_level = u.pp_level /\ v.in_preproc = u.in_preproc /\ ~v.exited
      /\ Len(v.chunks) = Len(q) /\ Later(v) = Later(s)
      /\ \A i \in 1 .. Len(q) : v.chunks[i].type = q[i].type /\ v.chunks[i].in_preproc = q[i].in_preproc
  <2>1. u.pp_level \in Int /\ u.pc \in 1 .. Len(u.chunks)
    BY <1>1, <1>2 DEF States
  <2>2. Later(u) = Later(s)
    BY <1>2 DEF Later
  <2> QED
    BY <1>2, <2>1, <2>2, LevelsAt
<1> HIDE DEF v
<1>4. /\ t \in States /\ t.chunks = v.chunks /\ t.pc = p + 1 /\ t.pc \in 1 .. Len(t.chunks) + 1
      /\ t.frm = u.frm /\ t.frames = u.frames /\ t.pp_level = u.pp_level
      /\ t.in_preproc = u.in_preproc /\ ~t.exited /\ Top(t) = Top(u)
      /\ Whole(t) = Later(s) /\ t.chunks[t.pc - 1] = Here(v)
      /\ t.pc <= Len(t.chunks) =>
           Later(s) # <<>> /\ Here(t) = Later(s)[1] /\ Later(t) = Rest(Later(s), 1)
  <2>1. v.pc \in 1 .. Len(v.chunks)
    BY <1>1, <1>3
  <2>2. Top(v) = Top(u)
    BY <1>3 DEF Top
  <2> QED
    BY <1>3, <2>1, <2>2, Advanced
<1>5. Here(v).type = Here(s).type /\ Here(v).in_preproc = Here(s).in_preproc
  BY <1>1, <1>3 DEF Here
<1> HIDE DEF t
<1>6. /\ Later(s) \in Seq(Chunks) /\ Source(Later(s)) /\ Joins(Here(s), Later(s))
      /\ p > 1 => Follows(q[p - 1], Here(s))
  BY <1>1, WholeHere DEF Ruled, Coming
<1>7. Framed(t)
  BY <1>2, <1>4 DEF Framed
<1>8. t.in_preproc # "NONE" => t.pc > 1 /\ t.chunks[t.pc - 1].in_preproc
  <2>1. t.pc > 1
    BY <1>1, <1>4
  <2> QED
    BY <1>2, <1>4, <1>5, <2>1
<1>9. Coming(t)
  <2>1. ASSUME t.pc <= Len(t.chunks)
        PROVE  /\ Source(Later(t)) /\ Joins(Here(t), Later(t))
               /\ Follows(t.chunks[t.pc - 1], Here(t))
               /\ Here(t).type \notin Virtual /\ (Here(t).type = "PREPROC" => Here(t).in_preproc)
    <3>1. Later(s) # <<>> /\ Here(t) = Later(s)[1] /\ Later(t) = Rest(Later(s), 1)
      BY <1>4, <2>1
    <3>2. Follows(Here(s), Here(t))
      BY <1>6, <3>1 DEF Joins
    <3>3. Follows(Here(v), Here(t))
      BY <1>5, <3>2 DEF Follows
    <3> QED
      BY <1>4, <1>6, <3>1, <3>3, SourceGoesOn
  <2> QED
    BY <1>8, <2>1 DEF Coming, Virtual
<1>10. Started(t)
  <2>1. CASE s.frm.stack = <<Bottom>> /\ s.frames = <<>>
    BY <1>2, <1>4, <2>1 DEF Started
  <2>2. CASE Behind(s)
    <3>1. PICK i \in 1 .. p - 1 :
            /\ ~IsLayout(q[i]) /\ \A j \in i + 1 .. p - 1 : IsLayout(q[j])
            /\ q[i].in_preproc =>
                 \/ q[p - 1].in_preproc
                 \/ \E j \in i + 1 .. p - 1 : q[j].type = "NEWLINE"
      BY <2>2 DEF Behind
    <3> DEFINE r == t.chunks
    <3>2. \A j \in 1 .. p : r[j].type = q[j].type /\ r[j].in_preproc = q[j].in_preproc
      BY <1>1, <1>3, <1>4
    <3> HIDE DEF r
    <3>3. i \in 1 .. t.pc - 1 /\ t.pc - 1 = p /\ p \in i + 1 .. p /\ p > 1
      BY <1>1, <1>4
    <3>4. ~IsLayout(r[i])
      BY <3>1, <3>2, <3>3 DEF IsLayout
    <3>5. ASSUME NEW j \in i + 1 .. p
          PROVE  IsLayout(r[j])
      <4>1. IsLayout(q[j])
        <5>1. CASE j = p
          BY <5>1 DEF Here
        <5>2. CASE j # p
          <6>1. j \in i + 1 .. p - 1
            BY <1>1, <5>2
          <6> QED
            BY <3>1, <6>1
        <5> QED
          BY <5>1, <5>2
      <4>2. j \in 1 .. p
        BY <1>1
      <4> QED
        BY <3>2, <4>1, <4>2 DEF IsLayout
    <3>6. ASSUME r[i].in_preproc
          PROVE  r[p].in_preproc \/ \E j \in i + 1 .. p : r[j].type = "NEWLINE"
      <4>1. q[i].in_preproc
        BY <3>2, <3>3, <3>6
      <4>2. CASE q[p - 1].in_preproc
        <5>1. Here(s).in_preproc \/ Here(s).type = "NEWLINE"
          BY <1>6, <3>3, <4>2 DEF Follows
        <5>2. r[p].in_preproc \/ r[p].type = "NEWLINE"
          BY <1>1, <3>2, <5>1 DEF Here
        <5> QED
          BY <3>3, <5>2
      <4>3. CASE \E j \in i + 1 .. p - 1 : q[j].type = "NEWLINE"
        <5>1. PICK j \in i + 1 .. p - 1 : q[j].type = "NEWLINE"
          BY <4>3
        <5>2. j \in i + 1 .. p /\ j \in 1 .. p
          BY <1>1, <5>1
        <5> QED
          BY <3>2, <5>1, <5>2
      <4> QED
        BY <3>1, <4>1, <4>2, <4>3
    <3> QED
      BY <3>3, <3>4, <3>5, <3>6 DEF Started, Behind, r
  <2> QED
    BY <2>1, <2>2 DEF Ruled, Started
<1>11. Expected(t)
  <2>1. ASSUME Top(u).stage \in Waiting
        PROVE  Top(u) = Top(s) /\ Parsing(u)
    BY <1>2, <2>1 DEF Top, Ruled, Expected, Parsing
  <2>2. ASSUME Top(u).stage = "ELSE"
        PROVE  Comes(Later(s), {"ELSE"})
    <3>1. Comes(Whole(s), {"ELSE"})
      BY <2>1, <2>2 DEF Ruled, Expected, Fits, Waiting
    <3> QED
      BY <1>1, <3>1, ComesHere
  <2>3. ASSUME Top(u).stage = "CATCH"
        PROVE  Comes(Later(s), {"CATCH", "FINALLY"})
    <3>1. Comes(Whole(s), {"CATCH", "FINALLY"})
      BY <2>1, <2>3 DEF Ruled, Expected, Fits, Waiting
    <3> QED
      BY <1>1, <3>1, ComesHere
  <2> QED
    BY <1>4, <2>1, <2>2, <2>3 DEF Expected, Fits, Parsing
<1>12. Ruled(t)
  BY <1>4, <1>7, <1>9, <1>10, <1>11 DEF Ruled
<1>13. Here(s).type # "VBRACE_CLOSE"
  BY DEF IsLayout
<1> QED
  BY <1>4, <1>12, <1>13 DEF Passed, t, v

-----------------------------------------------------------------------------
(* The steps                                                               *)

Inv == st \in States /\ (~st.exited => Ruled(st))

LEMMA NotEmpty ==
  ASSUME NEW S, NEW q, q \in Seq(S), Len(q) >= 1
  PROVE  q # <<>>
  OBVIOUS

LEMMA InitRules ==
  Init => Inv
<1> SUFFICES ASSUME Init
             PROVE  Inv
  OBVIOUS
<1>1. PICK input \in Inputs :
        st = [chunks |-> [i \in DOMAIN input.given |->
                            LET c == input.given[i] IN Chunk(c.type, c.directive, c.in_preproc)],
              pc |-> 1, frm |-> NewFrame, frames |-> <<>>, pp_level |-> 0, out_level |-> 0,
              in_preproc |-> "NONE", consumed |-> FALSE, result |-> FALSE, exited |-> FALSE,
              strict |-> FALSE]
  BY DEF Init
<1> DEFINE g == input.given
           n == Len(g)
           C(i) == Chunk(g[i].type, g[i].directive, g[i].in_preproc)
           q == st.chunks
<1>2. /\ g \in Seq([type : Types, directive : Directives, in_preproc : BOOLEAN])
      /\ \A i \in 1 .. n : g[i].type = "PREPROC" => g[i].in_preproc
      /\ \A i \in 2 .. n :
           /\ g[i - 1].in_preproc /\ ~g[i].in_preproc => g[i].type = "NEWLINE"
           /\ g[i].type = "PREPROC" => ~g[i - 1].in_preproc
  BY InputsAssumption
<1>3. n \in Nat /\ DOMAIN g = 1 .. n
  BY <1>2
<1>4. /\ q = [i \in 1 .. n |-> C(i)]
      /\ st.pc = 1 /\ st.frm = NewFrame /\ st.frames = <<>> /\ st.pp_level = 0 /\ st.out_level = 0
      /\ st.in_preproc = "NONE" /\ ~st.exited
      /\ st = [chunks |-> q, pc |-> 1, frm |-> NewFrame, frames |-> <<>>, pp_level |-> 0, out_level |-> 0,
               in_preproc |-> "NONE", consumed |-> FALSE, result |-> FALSE, exited |-> FALSE,
               strict |-> FALSE]
  BY <1>1, <1>3
<1> HIDE DEF q
<1>5. ASSUME NEW i \in 1 .. n
      PROVE  /\ C(i) \in Chunks /\ C(i).type = g[i].type /\ C(i).in_preproc = g[i].in_preproc
             /\ C(i).type \in Types
  <2> DEFINE G == [type : Types, directive : Directives, in_preproc : BOOLEAN]
  <2>3. g \in Seq(G)
    BY <1>2
  <2> HIDE DEF G
  <2>4. g[i] \in G
    BY <1>3, <2>3
  <2>1. g[i] \in [type : Types, directive : Directives, in_preproc : BOOLEAN]
    BY <2>4 DEF G
  <2>2. g[i].type \in Types /\ g[i].type \in Names /\ g[i].directive \in Names /\ g[i].in_preproc \in BOOLEAN
        /\ "NONE" \in Names
    BY <2>1, AllNames
  <2> QED
    BY <2>2 DEF Chunk, Chunks
<1> HIDE DEF C
<1>6. /\ q \in Seq(Chunks) /\ Len(q) = n
      /\ \A i \in 1 .. n : /\ q[i].type = g[i].type /\ q[i].in_preproc = g[i].in_preproc
                           /\ q[i].type \in Types
  <2>1. q \in Seq(Chunks) /\ Len(q) = n
    BY <1>3, <1>4, <1>5
  <2>2. \A i \in 1 .. n : q[i] = C(i)
    BY <1>4
  <2> QED
    BY <1>5, <2>1, <2>2
<1> HIDE DEF g, n
<1>7. Bottom \in Entries /\ <<Bottom>> \in Seq(Entries) /\ NewFrame \in Frames /\ NewFrame.stack = <<Bottom>>
      /\ NewFrame.ifdef = "NONE" /\ Bottom.stage = "NONE" /\ Bottom.open = "EOF"
  <2>1. Bottom \in Entries /\ Bottom.stage = "NONE" /\ Bottom.open = "EOF"
    BY AllNames DEF Bottom, Entries
  <2> DEFINE b == Bottom
             two == <<b>>
  <2> HIDE DEF b
  <2>2. two \in Seq(Entries)
    BY <2>1 DEF b
  <2> HIDE DEF two
  <2>3. /\ NewFrame = [stack |-> two, paren_level |-> 0, brace_level |-> 0, sparen_count |-> 0,
                       fresh |-> TRUE, ifdef |-> "NONE"]
    BY DEF NewFrame, two, b
  <2>4. NewFrame \in Frames /\ NewFrame.stack = two /\ NewFrame.ifdef = "NONE"
    BY <2>2, <2>3, AllNames DEF Frames
  <2> QED
    BY <2>1, <2>2, <2>4 DEF two, b
<1>8. st \in States
  BY <1>4, <1>6, <1>7, AllNames DEF States
<1>9. Top(st) = Bottom
  BY <1>4, <1>7 DEF Top, Last
<1>10. Framed(st)
  <2>1. GoodStack(<<Bottom>>)
    BY <1>7 DEF GoodStack, GoodEntry
  <2> DEFINE r == Append(st.frames, st.frm)
  <2>2. /\ r \in Seq(Frames) /\ Len(r) = 1 /\ r[1] = NewFrame
    BY <1>4, <1>7
  <2> HIDE DEF r
  <2>3. Shape(r, 0)
    <3> DEFINE at == [k \in 0 .. 0 |-> 1]
    <3>1. at \in [0 .. 0 -> 1 .. Len(r)] /\ at[0] = 1
      BY <2>2
    <3>2. \A j, k \in 0 .. 0 : ~(j < k)
      OBVIOUS
    <3>3. r # <<>>
      BY <2>2
    <3> HIDE DEF at
    <3> QED
      BY <1>7, <2>2, <3>1, <3>2, <3>3 DEF Shape
  <2> QED
    BY <1>4, <1>7, <2>1, <2>3 DEF Framed, r
<1>11. Coming(st)
  <2>1. ASSUME st.pc <= Len(q)
        PROVE  /\ Source(q) /\ q # <<>> /\ Here(st) = q[1] /\ Later(st) = Rest(q, 1)
    <3>1. ASSUME NEW k \in 1 .. n
          PROVE  /\ q[k].type \notin Virtual /\ (q[k].type = "PREPROC" => q[k].in_preproc)
                 /\ k >= 2 => Follows(q[k - 1], q[k])
      <4>1. q[k].type \notin Virtual
        BY <1>6 DEF Types, Virtual
      <4>2. q[k].type = "PREPROC" => q[k].in_preproc
        BY <1>2, <1>6
      <4>3. ASSUME k >= 2
            PROVE  Follows(q[k - 1], q[k])
        <5>1. k \in 2 .. n /\ k - 1 \in 1 .. n
          BY <1>3, <4>3
        <5> QED
          BY <1>2, <1>6, <5>1 DEF Follows
      <4> QED
        BY <4>1, <4>2, <4>3
    <3>2. Source(q)
      BY <1>6, <3>1 DEF Source
    <3>3. q # <<>>
      <4>1. Len(q) >= 1
        BY <1>3, <1>4, <1>6, <2>1
      <4> QED
        BY <1>6, <4>1, NotEmpty
    <3> QED
      BY <1>4, <3>2, <3>3 DEF Here, Later, q
  <2>2. ASSUME st.pc <= Len(q)
        PROVE  /\ Source(Later(st)) /\ Joins(Here(st), Later(st)) /\ Here(st).type \notin Virtual
               /\ (Here(st).type = "PREPROC" => Here(st).in_preproc)
    BY <1>6, <2>1, <2>2, SourceGoesOn
  <2>3. st.pc = 1 /\ st.in_preproc = "NONE" /\ ~(st.pc > 1)
    BY <1>4
  <2> QED
    BY <2>2, <2>3 DEF Coming, Virtual, q
<1>12. Started(st) /\ Expected(st)
  BY <1>4, <1>7, <1>9 DEF Started, Expected, Fits, Waiting
<1>13. st.pc \in 1 .. Len(st.chunks) + 1
  BY <1>3, <1>4, <1>6 DEF q
<1> QED
  BY <1>8, <1>10, <1>11, <1>12, <1>13 DEF Inv, Ruled

LEMMA LayoutStep ==
  ASSUME st \in States, ~st.exited, Ruled(st), Layout
  PROVE  Passed(st, st')
<1> DEFINE u == LeavePreproc(st)
<1>1. Left(st, u)
  BY LeaveFrames DEF Ruled
<1>2. st.pc <= Len(st.chunks) /\ IsLayout(Here(st))
  BY DEF Layout, Running
<1>3. CASE u.exited
  <2>1. st' = Advance(u)
    BY <1>3 DEF Layout, Alive
  <2> HIDE DEF u
  <2>2. u \in States
    BY <1>1 DEF Left
  <2> QED
    BY <1>3, <2>1, <2>2, StopPasses
<1>4. CASE ~u.exited
  <2>1. st' = Advance(SetLevels(u, u.pp_level))
    BY <1>4 DEF Layout, Alive
  <2> HIDE DEF u
  <2> QED
    BY <1>1, <1>2, <1>4, <2>1, LayoutPasses
<1> QED
  BY <1>3, <1>4

LEMMA PreprocStep ==
  ASSUME st \in States, ~st.exited, Ruled(st), Preproc
  PROVE  Passed(st, st')
<1> DEFINE v == PreprocStart(st)
<1>1. /\ st.pc <= Len(st.chunks) /\ Here(st).type = "PREPROC" /\ ~IsLayout(Here(st))
      /\ st.pc \in 1 .. Len(st.chunks)
  BY DEF Preproc, Running, IsLayout, Ruled, States
<1>2. st.in_preproc = "NONE" /\ Here(st).in_preproc
  <2>1. Here(st).in_preproc /\ (st.pc > 1 => Follows(st.chunks[st.pc - 1], Here(st)))
        /\ (st.in_preproc # "NONE" => st.pc > 1 /\ st.chunks[st.pc - 1].in_preproc)
    BY <1>1 DEF Ruled, Coming
  <2> QED
    BY <1>1, <2>1 DEF Follows
<1>3. LeavePreproc(st) = st
  BY <1>2 DEF LeavePreproc
<1>4. Top(st).stage \notin Waiting
  <2>1. Awaited(st)
    BY <1>1, FitsHere DEF Ruled, Expected
  <2> QED
    BY <1>1, <2>1 DEF Awaited, Waiting
<1>5. Entered(st, v)
  <2>1. Here(st).directive \in Names
    <3>1. Here(st) \in Chunks
      BY <1>1 DEF States, Here
    <3> QED
      BY <3>1 DEF Chunks
  <2> QED
    BY <1>2, <1>4, <2>1, StartFrames DEF Ruled
<1>6. v \in States /\ v.chunks = st.chunks /\ v.pc = st.pc
  BY <1>5 DEF Entered
<1>7. CASE v.exited
  <2>1. st' = Advance(v)
    BY <1>3, <1>7 DEF Preproc, Alive
  <2> HIDE DEF v
  <2> QED
    BY <1>6, <1>7, <2>1, StopPasses
<1>8. CASE ~v.exited
  <2>1. st' = Advance(Parse(v, v.out_level))
    BY <1>3, <1>8 DEF Preproc, Alive
  <2> HIDE DEF v
  <2>2. Framed(v) /\ Top(v).stage \notin Waiting
        /\ (st.frm.stack = <<Bottom>> /\ st.frames = <<>> => Top(v).stage = "NONE")
    BY <1>5, <1>8 DEF Entered
  <2>3. v.out_level \in Int
    BY <1>6 DEF States
  <2>4. Passed(st, Advance(Parse(v, v.out_level)))
    BY <1>1, <1>2, <1>6, <1>8, <2>2, <2>3, CodePasses
  <2> QED
    BY <2>1, <2>4
<1> QED
  BY <1>7, <1>8

LEMMA TokenStep ==
  ASSUME st \in States, ~st.exited, Ruled(st), Token
  PROVE  Passed(st, st')
<1> DEFINE u == LeavePreproc(st)
<1>1. Left(st, u)
  BY LeaveFrames DEF Ruled
<1>2. st.pc <= Len(st.chunks) /\ ~IsLayout(Here(st))
  BY DEF Token, Running
<1>3. u \in States /\ u.chunks = st.chunks /\ u.pc = st.pc
  BY <1>1 DEF Left
<1>4. CASE u.exited
  <2>1. st' = Advance(u)
    BY <1>4 DEF Token, Alive
  <2> HIDE DEF u
  <2> QED
    BY <1>3, <1>4, <2>1, StopPasses
<1>5. CASE ~u.exited
  <2>1. st' = Advance(Parse(u, u.pp_level))
    BY <1>5 DEF Token, Alive
  <2> HIDE DEF u
  <2>2. /\ Framed(u) /\ (u.in_preproc = "NONE" \/ (u = st /\ Here(st).in_preproc))
        /\ \/ u.frm = st.frm /\ u.frames = st.frames
           \/ Top(u).stage \notin Waiting /\ st.frames # <<>>
    BY <1>1, <1>5 DEF Left
  <2>3. Top(u).stage \in Waiting => Top(u) = Top(st) /\ Parsing(u)
    BY <2>2 DEF Top, Ruled, Expected, Parsing
  <2>4. st.frm.stack = <<Bottom>> /\ st.frames = <<>> => Top(u).stage = "NONE"
    <3>1. st.frm.stack = <<Bottom>> => Top(st).stage = "NONE"
      BY DEF Top, Last, Bottom
    <3> QED
      BY <2>2, <3>1 DEF Top
  <2>5. ASSUME Here(st).type = "VBRACE_CLOSE"
        PROVE  u = st
    <3>1. st.in_preproc = "NONE" \/ Here(st).in_preproc
      BY <1>2, <2>5 DEF Ruled, Coming
    <3> QED
      BY <1>1, <3>1 DEF Left
  <2>6. u.pp_level \in Int
    BY <1>3 DEF States
  <2>7. Passed(st, Advance(Parse(u, u.pp_level)))
    BY <1>2, <1>3, <1>5, <2>2, <2>3, <2>4, <2>5, <2>6, CodePasses
  <2> QED
    BY <2>1, <2>7
<1> QED
  BY <1>4, <1>5

LEMMA StepPasses ==
  ASSUME Inv, Next
  PROVE  ~st.exited /\ Ruled(st) /\ st.pc <= Len(st.chunks) /\ Passed(st, st')
<1>1. ~st.exited /\ st.pc <= Len(st.chunks)
  BY DEF Next, Layout, Preproc, Token, Running
<1> QED
  BY <1>1, LayoutStep, PreprocStep, TokenStep DEF Next, Inv

LEMMA InvKept ==
  Inv /\ [Next]_vars => Inv'
<1> SUFFICES ASSUME Inv, [Next]_vars
             PROVE  Inv'
  OBVIOUS
<1>1. CASE Next
  <2>1. Passed(st, st')
    BY <1>1, StepPasses
  <2>2. st' \in States /\ (~st'.exited => Ruled(st'))
    BY <2>1 DEF Passed
  <2> QED
    BY <2>2 DEF Inv
<1>2. CASE UNCHANGED vars
  <2>1. st' = st
    BY <1>2 DEF vars
  <2> QED
    BY <2>1 DEF Inv
<1> QED
  BY <1>1, <1>2

-----------------------------------------------------------------------------
(* What the properties follow from                                         *)

LEMMA ElseComes ==
  ASSUME Inv
  PROVE  ElseExpected
<1> DEFINE types == IF Top(st).stage = "ELSE" THEN {"ELSE"} ELSE {"CATCH", "FINALLY"}
           q == st.chunks
           p == st.pc
           code == {i \in p .. Len(q) : ~IsLayout(q[i])}
<1> SUFFICES ASSUME Running, Top(st).stage \in {"ELSE", "CATCH"}
             PROVE  code # {} /\ q[Min(code)].type \in types
  BY DEF ElseExpected
<1>1. /\ q \in Seq(Chunks) /\ Len(q) \in Nat /\ p \in Nat /\ p \in 1 .. Len(q)
      /\ Fits(Top(st).stage, Whole(st))
  BY DEF Inv, States, Running, Ruled, Expected
<1>2. Comes(Whole(st), types)
  BY <1>1 DEF Fits
<1> HIDE DEF types
<1>3. /\ Len(Whole(st)) = Len(q) - (p - 1)
      /\ \A k \in 1 .. Len(q) - (p - 1) : Whole(st)[k] = q[(p - 1) + k]
  <2>1. p - 1 \in 0 .. Len(q)
    BY <1>1
  <2> QED
    BY <1>1, <2>1, RestType DEF Whole
<1> DEFINE a == Whole(st)
<1>4. PICK k \in 1 .. Len(a) : /\ ~IsLayout(a[k]) /\ a[k].type \in types
                               /\ \A j \in 1 .. k - 1 : IsLayout(a[j])
  BY <1>2 DEF Comes
<1> DEFINE at == (p - 1) + k
<1> HIDE DEF a
<1>5. at \in p .. Len(q) /\ at \in 1 .. Len(q) /\ at \in Nat /\ a[k] = q[at]
  <2>1. k \in 1 .. Len(q) - (p - 1)
    BY <1>3 DEF a
  <2> QED
    BY <1>1, <1>3, <2>1 DEF a
<1>6. at \in code
  BY <1>4, <1>5
<1>7. \A i \in code : at <= i
  <2> SUFFICES ASSUME NEW i \in p .. Len(q), i < at
               PROVE  IsLayout(q[i])
    BY <1>5
  <2>1. i - (p - 1) \in 1 .. k - 1 /\ i - (p - 1) \in 1 .. Len(q) - (p - 1) /\ (p - 1) + (i - (p - 1)) = i
    BY <1>1
  <2>2. IsLayout(a[i - (p - 1)])
    BY <1>4, <2>1
  <2> QED
    BY <1>3, <2>1, <2>2 DEF a
<1>8. code \in SUBSET (1 .. Len(q))
  BY <1>1
<1> HIDE DEF code, at
<1>9. Min(code) \in code /\ \A i \in code : Min(code) <= i
  BY <1>1, <1>6, <1>8, MinIn
<1>10. Min(code) = at
  <2>1. Min(code) \in Nat /\ at <= Min(code) /\ Min(code) <= at
    <3>1. Min(code) \in 1 .. Len(q)
      BY <1>8, <1>9
    <3> QED
      BY <1>6, <1>7, <1>9, <3>1
  <2> QED
    BY <1>5, <2>1
<1> QED
  BY <1>4, <1>5, <1>6, <1>10

\* As many numbers, each d further on.
LEMMA ShiftedSet ==
  ASSUME NEW S, IsFiniteSet(S), S \subseteq Int, NEW d \in Int, NEW T, T \subseteq Int,
         \A x \in S : x + d \in T, \A y \in T : y - d \in S
  PROVE  IsFiniteSet(T) /\ Cardinality(T) = Cardinality(S)
<1> DEFINE f == [x \in S |-> x + d]
<1>1. f \in [S -> T] /\ \A x \in S : f[x] = x + d
  OBVIOUS
<1>2. \A x, y \in S : f[x] = f[y] => x = y
  BY <1>1
<1>3. \A y \in T : \E x \in S : f[x] = y
  <2> SUFFICES ASSUME NEW y \in T
               PROVE  \E x \in S : f[x] = y
    OBVIOUS
  <2>1. y - d \in S /\ (y - d) + d = y
    OBVIOUS
  <2> QED
    BY <1>1, <2>1
<1> HIDE DEF f
<1>4. f \in Bijection(S, T)
  BY <1>1, <1>2, <1>3 DEF Bijection, Injection, Surjection, IsInjective
<1> QED
  BY <1>4, FS_Bijection DEF ExistsBijection

\* How much of q is left to parse.
Parsable(q) == {k \in 1 .. Len(q) : q[k].type # "VBRACE_CLOSE"}
Count(q) == Cardinality(Parsable(q))

LEMMA CountType ==
  ASSUME NEW q, q \in Seq(Chunks)
  PROVE  IsFiniteSet(Parsable(q)) /\ Count(q) \in Nat
<1>1. IsFiniteSet(1 .. Len(q))
  BY FS_Interval
<1>2. Parsable(q) \in SUBSET (1 .. Len(q))
  BY DEF Parsable
<1> QED
  BY <1>1, <1>2, FS_Subset, FS_CardinalityType DEF Count

LEMMA CountFirst ==
  ASSUME NEW q, q \in Seq(Chunks), NEW r, r \in Seq(Chunks), Len(r) = Len(q) + 1,
         \A k \in 1 .. Len(q) : r[k + 1] = q[k]
  PROVE  Count(r) = Count(q) + (IF r[1].type = "VBRACE_CLOSE" THEN 0 ELSE 1)
<1> DEFINE n == Len(q)
           S == Parsable(q)
           T == {k \in 2 .. n + 1 : r[k].type # "VBRACE_CLOSE"}
<1>1. n \in Nat /\ Len(r) = n + 1
  OBVIOUS
<1>2. IsFiniteSet(S) /\ S \subseteq Int /\ T \subseteq Int
  <2>1. IsFiniteSet(S)
    BY CountType
  <2>2. S \subseteq Int
    BY DEF Parsable
  <2> QED
    BY <1>1, <2>1, <2>2
<1>3. \A x \in S : x + 1 \in T
  <2> SUFFICES ASSUME NEW x \in S
               PROVE  x + 1 \in T
    OBVIOUS
  <2>1. x \in 1 .. n /\ q[x].type # "VBRACE_CLOSE"
    BY DEF Parsable
  <2>2. r[x + 1] = q[x] /\ x + 1 \in 2 .. n + 1
    BY <1>1, <2>1
  <2> QED
    BY <2>1, <2>2
<1>4. \A y \in T : y - 1 \in S
  <2> SUFFICES ASSUME NEW y \in 2 .. n + 1, r[y].type # "VBRACE_CLOSE"
               PROVE  y - 1 \in S
    OBVIOUS
  <2>1. y - 1 \in 1 .. n /\ (y - 1) + 1 = y
    BY <1>1
  <2>2. r[y] = q[y - 1]
    BY <2>1
  <2> QED
    BY <2>1, <2>2 DEF Parsable
<1>5. Parsable(r) = IF r[1].type = "VBRACE_CLOSE" THEN T ELSE T \cup {1}
  <2>1. \A k \in 1 .. n + 1 : k = 1 \/ k \in 2 .. n + 1
    BY <1>1
  <2>2. \A k \in 2 .. n + 1 : k \in 1 .. n + 1
    BY <1>1
  <2>3. 1 \in 1 .. n + 1
    BY <1>1
  <2> HIDE DEF n
  <2> QED
    BY <1>1, <2>1, <2>2, <2>3 DEF Parsable
<1>6. 1 \notin T
  BY <1>1
<1> HIDE DEF S, T
<1>7. IsFiniteSet(T) /\ Cardinality(T) = Cardinality(S)
  <2>1. 1 \in Int
    OBVIOUS
  <2> DEFINE d == 1
  <2> HIDE DEF d
  <2>2. d \in Int /\ (\A x \in S : x + d \in T) /\ \A y \in T : y - d \in S
    BY <1>3, <1>4 DEF d
  <2> QED
    BY <1>2, <2>2, ShiftedSet
<1>8. Cardinality(S) \in Nat
  BY <1>2, FS_CardinalityType
<1>9. Cardinality(T \cup {1}) = Cardinality(T) + 1
  BY <1>6, <1>7, FS_AddElement
<1> QED
  BY <1>5, <1>7, <1>8, <1>9 DEF Count, S

LEMMA CountAhead ==
  ASSUME NEW s, s \in States, s.pc \in 1 .. Len(s.chunks) + 1
  PROVE  Unparsed(s) = Count(Whole(s))
<1> DEFINE q == s.chunks
           p == s.pc
           n == Len(q)
           a == Whole(s)
           S == Parsable(a)
           T == {i \in p .. n : q[i].type # "VBRACE_CLOSE"}
<1>1. q \in Seq(Chunks) /\ n \in Nat /\ p \in Nat /\ p >= 1 /\ p - 1 \in 0 .. n
  BY DEF States
<1>2. /\ a \in Seq(Chunks) /\ Len(a) = n - (p - 1)
      /\ \A k \in 1 .. n - (p - 1) : a[k] = q[(p - 1) + k]
  BY <1>1, RestType DEF Whole
<1> HIDE DEF a, n, p, q
<1>3. IsFiniteSet(S) /\ S \subseteq Int /\ T \subseteq Int
  <2>1. IsFiniteSet(S)
    BY <1>2, CountType
  <2>2. S \subseteq Int
    BY DEF Parsable
  <2> QED
    BY <1>1, <2>1, <2>2
<1>4. \A x \in S : x + (p - 1) \in T
  <2> SUFFICES ASSUME NEW x \in S
               PROVE  x + (p - 1) \in T
    OBVIOUS
  <2>1. x \in 1 .. n - (p - 1) /\ a[x].type # "VBRACE_CLOSE"
    BY <1>2 DEF Parsable
  <2>2. x + (p - 1) \in p .. n /\ (p - 1) + x = x + (p - 1)
    BY <1>1, <2>1
  <2> QED
    BY <1>2, <2>1, <2>2
<1>5. \A y \in T : y - (p - 1) \in S
  <2> SUFFICES ASSUME NEW y \in p .. n, q[y].type # "VBRACE_CLOSE"
               PROVE  y - (p - 1) \in S
    OBVIOUS
  <2>1. y - (p - 1) \in 1 .. n - (p - 1) /\ (p - 1) + (y - (p - 1)) = y
    BY <1>1
  <2>2. a[y - (p - 1)] = q[y]
    BY <1>2, <2>1
  <2> QED
    BY <1>2, <2>1, <2>2 DEF Parsable
<1>6. p - 1 \in Int
  BY <1>1
<1> HIDE DEF S, T
<1>7. Cardinality(T) = Cardinality(S)
  BY <1>3, <1>4, <1>5, <1>6, ShiftedSet
<1> QED
  BY <1>7 DEF Unparsed, Count, S, T, q, p, n, a

LEMMA CountAfter ==
  ASSUME NEW q, q \in Seq(Chunks), NEW e \in Chunks, e.type = "VBRACE_CLOSE"
  PROVE  Count(After(e, q)) = Count(q)
<1> DEFINE n == Len(q)
           r == After(e, q)
<1>1. n \in Nat
  OBVIOUS
<1>2. r = [k \in 1 .. n + 1 |-> IF k = 1 THEN e ELSE q[k - 1]]
  BY DEF After
<1> HIDE DEF r, n
<1>3. r \in Seq(Chunks) /\ Len(r) = n + 1
  <2>1. \A k \in 1 .. n + 1 : (IF k = 1 THEN e ELSE q[k - 1]) \in Chunks
    BY <1>1 DEF n
  <2> QED
    BY <1>1, <1>2, <2>1
<1>4. r[1] = e /\ \A k \in 1 .. n : r[k + 1] = q[k]
  BY <1>1, <1>2
<1>5. Count(r) = Count(q) + (IF r[1].type = "VBRACE_CLOSE" THEN 0 ELSE 1)
  BY <1>3, <1>4, CountFirst DEF n
<1>6. Count(q) \in Nat
  BY CountType
<1> QED
  BY <1>4, <1>5, <1>6 DEF r

LEMMA StepAdvances ==
  ASSUME Inv, Next
  PROVE  \/ st'.exited
         \/ Unparsed(st') < Unparsed(st)
         \/ /\ Unparsed(st') = Unparsed(st)
            /\ Len(st'.frm.stack) < Len(st.frm.stack)
<1> DEFINE t == st'
<1>1. /\ st \in States /\ Ruled(st) /\ st.pc <= Len(st.chunks) /\ Passed(st, t)
  BY StepPasses DEF Inv
<1>2. st.pc \in 1 .. Len(st.chunks) /\ st.pc \in 1 .. Len(st.chunks) + 1
  BY <1>1 DEF Ruled, States
<1> HIDE DEF t
<1> SUFFICES ASSUME ~t.exited
             PROVE  \/ Unparsed(t) < Unparsed(st)
                    \/ /\ Unparsed(t) = Unparsed(st)
                       /\ Len(t.frm.stack) < Len(st.frm.stack)
  BY DEF t
<1>3. /\ t \in States /\ t.pc \in 1 .. Len(t.chunks) + 1
      /\ \/ Whole(t) = Later(st)
         \/ \E e \in Chunks : e.type = "VBRACE_CLOSE" /\ Whole(t) = After(e, Later(st))
      /\ Here(st).type = "VBRACE_CLOSE" => Len(t.frm.stack) < Len(st.frm.stack)
  BY <1>1 DEF Passed, Ruled
<1>4. /\ Whole(st) \in Seq(Chunks) /\ Later(st) \in Seq(Chunks)
      /\ Len(Whole(st)) = Len(Later(st)) + 1
      /\ Whole(st)[1] = Here(st) /\ \A k \in 1 .. Len(Later(st)) : Whole(st)[k + 1] = Later(st)[k]
  BY <1>1, <1>2, WholeHere
<1>5. Count(Whole(st)) = Count(Later(st)) + (IF Here(st).type = "VBRACE_CLOSE" THEN 0 ELSE 1)
  BY <1>4, CountFirst
<1>6. Count(Whole(t)) = Count(Later(st))
  BY <1>3, <1>4, CountAfter
<1>7. Unparsed(st) = Count(Whole(st)) /\ Unparsed(t) = Count(Whole(t))
  BY <1>1, <1>2, <1>3, CountAhead
<1>8. Count(Later(st)) \in Nat
  BY <1>4, CountType
<1> QED
  BY <1>3, <1>5, <1>6, <1>7, <1>8

-----------------------------------------------------------------------------
(* The theorems                                                            *)

\* In every state that has not ended the process: the stacks of the frame and of
\* those that are saved have their bottom, the frames are those of the open
\* conditionals, what comes is source behind at most one closing virtual brace, and
\* what an entry waits for comes.
THEOREM InvAlways ==
  Spec => []Inv
<1>1. Init => Inv
  BY InitRules
<1>2. Inv /\ [Next]_vars => Inv'
  BY InvKept
<1> QED
  BY <1>1, <1>2, PTL DEF Spec

\* ElseExpected: the look ahead of handle_complex_close(), which leaves an entry
\* waiting for else, catch or finally, agrees with the next chunk that
\* check_complex_statements() sees, whatever directive comes first.
THEOREM ElseGetsExpected ==
  Spec => []ElseExpected
<1>1. Inv => ElseExpected
  BY ElseComes
<1> QED
  BY <1>1, InvAlways, PTL

\* Advances: the loop of brace_cleanup() goes on, although it goes back to the
\* virtual brace it has put before the next chunk.
THEOREM AlwaysAdvances ==
  Spec => Advances
<1>1. Inv /\ [Next]_vars =>
        [\/ st'.exited
         \/ Unparsed(st') < Unparsed(st)
         \/ /\ Unparsed(st') = Unparsed(st)
            /\ Len(st'.frm.stack) < Len(st.frm.stack)]_vars
  BY StepAdvances
<1> QED
  BY <1>1, InvAlways, PTL DEF Advances, Spec
=============================================================================
