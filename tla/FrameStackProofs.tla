-------------------------- MODULE FrameStackProofs --------------------------
(***************************************************************************)
(* Theorems about FrameStack, for every set of parse states and every      *)
(* nesting depth.                                                          *)
(***************************************************************************)
EXTENDS FrameStack, TLAPS

Region == [base : Frames, result : Frames \cup {Unknown}, below : Seq(Frames)]

\* TypeOK needs FramesMatchRegions: check() reads m_frames by position and
\* counts pp_level down, and only the regions say that this stays in range.
Inv ==
  /\ TypeOK
  /\ define => st.frames # <<>>
  /\ FramesMatchRegions

-----------------------------------------------------------------------------
(* Frames                                                                  *)

LEMMA FrameType ==
  ASSUME NEW s \in States, NEW i \in Ifdefs
  PROVE  Frame(s, i) \in Frames
  BY LevelAssumption DEF Frame, Frames

LEMMA FrameFields ==
  ASSUME NEW f \in Frames
  PROVE  /\ f.state \in States
         /\ f.ifdef \in Ifdefs
         /\ f.brace_level \in Nat
         /\ f.brace_level = Level[f.state]
  BY DEF Frames

LEMMA Retag ==
  ASSUME NEW f \in Frames, NEW i \in Ifdefs
  PROVE  /\ [f EXCEPT !.ifdef = i] \in Frames
         /\ [f EXCEPT !.ifdef = i].state = f.state
         /\ [f EXCEPT !.ifdef = i].ifdef = i
         /\ [f EXCEPT !.ifdef = i].brace_level = f.brace_level
  BY DEF Frames

-----------------------------------------------------------------------------
(* Sequences                                                               *)

LEMMA Push1 ==
  ASSUME NEW S, NEW s \in Seq(S), NEW e \in S
  PROVE  /\ Append(s, e) \in Seq(S)
         /\ Append(s, e) # <<>>
         /\ Len(Append(s, e)) = Len(s) + 1
         /\ Tos(Append(s, e)) = e
         /\ Drop(Append(s, e), 1) = s
  BY DEF Tos, Drop

LEMMA Push2 ==
  ASSUME NEW S, NEW s \in Seq(S), NEW e \in S, NEW f \in S
  PROVE  /\ Second(Append(Append(s, e), f)) = e
         /\ Drop(Append(Append(s, e), f), 2) = s
  BY DEF Second, Drop

LEMMA Pop1 ==
  ASSUME NEW S, NEW s \in Seq(S), s # <<>>
  PROVE  /\ Tos(s) \in S
         /\ Drop(s, 1) \in Seq(S)
         /\ Len(Drop(s, 1)) = Len(s) - 1
<1> DEFINE n == Len(s) - 1
<1>1. n \in Nat /\ \A i \in 1 .. n + 1 : s[i] \in S
  OBVIOUS
<1>2. Drop(s, 1) = [i \in 1 .. n |-> s[i]]
  BY DEF Drop
<1>3. [i \in 1 .. n |-> s[i]] \in Seq(S) /\ Len([i \in 1 .. n |-> s[i]]) = n
  <2> HIDE DEF n
  <2> QED
    BY <1>1
<1>4. Tos(s) \in S
  BY <1>1 DEF Tos
<1> QED
  BY <1>2, <1>3, <1>4

-----------------------------------------------------------------------------
(* The inductive invariant                                                 *)

\* The fields of the state the operators of ParsingFrames work on.
LEMMA Fields ==
  ASSUME TypeOK
  PROVE  /\ st = [frm |-> st.frm, frames |-> st.frames, pp_level |-> st.pp_level,
                  out_level |-> st.out_level, exited |-> st.exited, strict |-> st.strict]
         /\ st.frm \in Frames /\ st.frames \in Seq(Frames)
         /\ st.pp_level \in Nat /\ st.out_level \in Nat /\ st.exited \in BOOLEAN
         /\ st.strict \in BOOLEAN
  BY DEF TypeOK

LEMMA InitInv == Init => Inv
<1> SUFFICES ASSUME Init PROVE Inv
  OBVIOUS
<1>1. Frame(Empty, "NONE") \in Frames
  BY FrameType, EmptyAssumption DEF Ifdefs
<1>2. TypeOK
  <2>1. st \in [frm : Frames, frames : Seq(Frames), pp_level : Nat, out_level : Nat, exited : BOOLEAN,
               strict : BOOLEAN]
    <3> DEFINE f0 == Frame(Empty, "NONE")
    <3>1. PICK b0 \in BOOLEAN : st = [frm |-> f0, frames |-> <<>>, pp_level |-> 0,
                                     out_level |-> 0, exited |-> FALSE, strict |-> b0]
      <4> HIDE DEF f0
      <4> QED
        BY DEF Init, f0
    <3>2. f0 \in Frames
      BY <1>1
    <3>3. <<>> \in Seq(Frames)
      OBVIOUS
    <3> HIDE DEF f0
    <3> QED
      BY <3>1, <3>2, <3>3
  <2>2. regions \in Seq(Region)
    BY DEF Init
  <2> QED
    BY <2>1, <2>2 DEF Init, TypeOK, Region
<1>3. FramesMatchRegions
  BY DEF Init, FramesMatchRegions, FrameAt, BelowAt, CurFrame, CurBelow, Frame
<1> QED
  BY <1>2, <1>3 DEF Init, Inv

\* A step that leaves the regions alone has only the current frame to account for.
LEMMA SameRegions ==
  ASSUME Inv, regions' = regions, ~st.exited, st'.pp_level = st.pp_level,
         CurFrame'.ifdef = CurFrame.ifdef, CurBelow' = CurBelow
  PROVE  FramesMatchRegions'
  BY DEF Inv, FramesMatchRegions, FrameAt, BelowAt

LEMMA ParseCleanupInv == Inv /\ ParseCleanup => Inv'
<1> SUFFICES ASSUME Inv, ParseCleanup PROVE Inv'
  OBVIOUS
<1> USE DEF Inv
<1>1. PICK s \in States : st' = [st EXCEPT !.frm = Frame(s, st.frm.ifdef)]
  BY DEF ParseCleanup
<1>2. Frame(s, st.frm.ifdef) \in Frames /\ Frame(s, st.frm.ifdef).ifdef = st.frm.ifdef
  BY FrameFields, FrameType DEF TypeOK, Frame
<1>3. TypeOK'
  <2>1. st' = [frm |-> Frame(s, st.frm.ifdef), frames |-> st.frames, pp_level |-> st.pp_level,
               out_level |-> st.out_level, exited |-> st.exited, strict |-> st.strict]
    BY <1>1 DEF TypeOK
  <2> QED
    BY <1>2, <2>1 DEF ParseCleanup, TypeOK
<1>4. FramesMatchRegions'
  BY <1>1, <1>2, SameRegions DEF ParseCleanup, TypeOK, CurFrame, CurBelow
<1> QED
  BY <1>1, <1>3, <1>4 DEF ParseCleanup, TypeOK

LEMMA IfInv == Inv /\ If => Inv'
<1> SUFFICES ASSUME Inv, If PROVE Inv'
  OBVIOUS
<1> DEFINE r == [base |-> st.frm, result |-> Unknown, below |-> st.frames]
<1>1. st' = [frm |-> [st.frm EXCEPT !.ifdef = "PP_IF"], frames |-> Append(st.frames, st.frm),
             pp_level |-> st.pp_level + 1, out_level |-> st.pp_level, exited |-> FALSE, strict |-> st.strict]
  BY DEF If, Directive, CheckIf, Continue, Push, Inv, TypeOK
<1>2. r \in Region /\ regions \in Seq(Region)
  BY DEF Inv, TypeOK, Region
<1>3. regions' = Append(regions, r) /\ define' = FALSE
  BY DEF If, Directive, Inv, TypeOK
<1>4. TypeOK'
  <2>1. [st.frm EXCEPT !.ifdef = "PP_IF"] \in Frames
    BY Retag DEF Inv, TypeOK, Ifdefs
  <2>2. Append(st.frames, st.frm) \in Seq(Frames) /\ st.pp_level + 1 \in Nat /\ st.pp_level \in Nat
    BY DEF Inv, TypeOK
  <2>3. regions' \in Seq(Region)
    BY <1>2, <1>3
  <2> QED
    BY <1>1, <1>3, <2>1, <2>2, <2>3, Fields DEF Inv, TypeOK, Region
<1>5. FramesMatchRegions'
  <2>1. /\ Len(regions') = Len(regions) + 1 /\ Len(regions) \in Nat
        /\ regions'[Len(regions')] = r
        /\ \A i \in 1 .. Len(regions) : regions'[i] = regions[i]
    BY <1>2, <1>3
  <2>2. CurFrame'.ifdef = Tag(r) /\ CurBelow' = Stacked(r)
    BY <1>1, <1>3, Retag DEF Inv, TypeOK, CurFrame, CurBelow, Tag, Stacked, Ifdefs
  <2>3. CurFrame = r.base /\ CurBelow = r.below
    BY DEF If, Directive, CurFrame, CurBelow
  <2>4. st'.pp_level = Len(regions')
    BY <1>1, <2>1 DEF Inv, FramesMatchRegions, If, Directive
  <2> QED
    BY <1>1, <2>1, <2>2, <2>3, <2>4 DEF Inv, FramesMatchRegions, FrameAt, BelowAt, If, Directive, Tag, Stacked
<1> QED
  BY <1>3, <1>4, <1>5 DEF Inv

\* What Inv says about the innermost region, when check() is about to use it.
LEMMA InnerRegion ==
  ASSUME Inv, Directive, regions # <<>>
  PROVE  /\ Len(regions) \in Nat \ {0}
         /\ Inner \in Region
         /\ Outer \in Seq(Region) /\ Len(Outer) = Len(regions) - 1
         /\ \A i \in 1 .. Len(regions) - 1 : Outer[i] = regions[i]
         /\ st.frames = Stacked(Inner)
         /\ st.frm.ifdef = Tag(Inner)
         /\ st.pp_level = Len(regions)
<1>1. Len(regions) \in Nat \ {0} /\ regions \in Seq(Region)
  BY DEF Inv, TypeOK, Region
<1>2. Outer = Drop(regions, 1) /\ Inner = Tos(regions)
  BY DEF Outer, Inner, Drop, Tos
<1>3. CurFrame = st.frm /\ CurBelow = st.frames
  BY DEF Directive, CurFrame, CurBelow
<1>4. st.frames = Stacked(Inner) /\ st.frm.ifdef = Tag(Inner) /\ st.pp_level = Len(regions)
  BY <1>1, <1>3 DEF Inv, FramesMatchRegions, FrameAt, BelowAt, Directive, Inner
<1>5. \A i \in 1 .. Len(regions) - 1 : Outer[i] = regions[i]
  BY <1>1 DEF Outer
<1> QED
  BY <1>1, <1>2, <1>4, <1>5, Pop1

\* Replacing the innermost region, or closing it.
LEMMA InnerChanged ==
  ASSUME Inv, Directive, regions # <<>>, NEW r \in Region,
         r.base = Inner.base, r.below = Inner.below,
         regions' = Append(Outer, r), define' = FALSE,
         st'.pp_level = st.pp_level, st'.frm.ifdef = Tag(r), st'.frames = Stacked(r)
  PROVE  regions' \in Seq(Region) /\ FramesMatchRegions'
<1>1. /\ Len(regions') = Len(regions) /\ Len(regions) \in Nat \ {0}
      /\ regions' \in Seq(Region)
      /\ regions'[Len(regions)] = r
      /\ \A i \in 1 .. Len(regions) - 1 : regions'[i] = regions[i]
  BY InnerRegion
<1>2. CurFrame'.ifdef = Tag(r) /\ CurBelow' = Stacked(r)
  BY DEF CurFrame, CurBelow
<1>3. ASSUME NEW i \in 1 .. Len(regions')
      PROVE  FrameAt(i)' = FrameAt(i) /\ BelowAt(i)' = BelowAt(i)
  BY <1>1 DEF FrameAt, BelowAt, Inner
<1>4. ASSUME NEW i, i = Len(regions) + 1
      PROVE  FrameAt(i)' = CurFrame' /\ BelowAt(i)' = CurBelow' /\ regions'[i - 1] = r
  BY <1>1, <1>4 DEF FrameAt, BelowAt
<1>5. FramesMatchRegions'
  <2>1. st'.pp_level = Len(regions')
    BY <1>1, InnerRegion
  <2>2. ASSUME NEW i \in 1 .. Len(regions') + 1
        PROVE  IF i = 1 THEN BelowAt(i)' = <<>> /\ FrameAt(i)'.ifdef = "NONE"
               ELSE /\ BelowAt(i)' = Stacked(regions'[i - 1])
                    /\ FrameAt(i)'.ifdef = Tag(regions'[i - 1])
    <3>1. CASE i <= Len(regions')
      <4>1. i \in 1 .. Len(regions) + 1 /\ (i # 1 => regions'[i - 1] = regions[i - 1])
        BY <1>1, <3>1
      <4>2. FrameAt(i)' = FrameAt(i) /\ BelowAt(i)' = BelowAt(i)
        BY <1>3, <3>1
      <4> HIDE DEF FrameAt, BelowAt, Tag, Stacked
      <4> QED
        BY <4>1, <4>2 DEF Inv, FramesMatchRegions, Directive
    <3>2. CASE i = Len(regions) + 1
      BY <1>1, <1>2, <1>4, <3>2
    <3> QED
      BY <1>1, <3>1, <3>2
  <2> QED
    BY <2>1, <2>2 DEF FramesMatchRegions
<1> QED
  BY <1>1, <1>5

LEMMA InnerClosed ==
  ASSUME Inv, Directive, regions # <<>>, regions' = Outer, define' = FALSE,
         st'.pp_level = st.pp_level - 1,
         st'.frm.ifdef = Inner.base.ifdef, st'.frames = Inner.below
  PROVE  regions' \in Seq(Region) /\ FramesMatchRegions'
<1>1. /\ Len(regions') = Len(regions) - 1 /\ Len(regions) \in Nat \ {0}
      /\ regions' \in Seq(Region)
      /\ \A i \in 1 .. Len(regions) - 1 : regions'[i] = regions[i]
  BY InnerRegion
<1>2. CurFrame'.ifdef = Inner.base.ifdef /\ CurBelow' = Inner.below
  BY DEF CurFrame, CurBelow
<1>3. ASSUME NEW i \in 1 .. Len(regions)
      PROVE  FrameAt(i)'.ifdef = FrameAt(i).ifdef /\ BelowAt(i)' = BelowAt(i)
  BY <1>1, <1>2 DEF FrameAt, BelowAt, Inner
<1>4. FramesMatchRegions'
  <2>1. st'.pp_level = Len(regions')
    BY <1>1, InnerRegion
  <2>2. ASSUME NEW i \in 1 .. Len(regions') + 1
        PROVE  IF i = 1 THEN BelowAt(i)' = <<>> /\ FrameAt(i)'.ifdef = "NONE"
               ELSE /\ BelowAt(i)' = Stacked(regions'[i - 1])
                    /\ FrameAt(i)'.ifdef = Tag(regions'[i - 1])
    <3>1. /\ i \in 1 .. Len(regions) /\ i \in 1 .. Len(regions) + 1
          /\ i # 1 => regions'[i - 1] = regions[i - 1]
      BY <1>1
    <3> QED
      BY <1>3, <3>1 DEF Inv, FramesMatchRegions, Directive
  <2> QED
    BY <2>1, <2>2 DEF FramesMatchRegions
<1> QED
  BY <1>1, <1>4

LEMMA Updated ==
  ASSUME NEW f, NEW fs, NEW p, NEW o, NEW e, NEW b, NEW f2, NEW o2
  PROVE  Continue([frm |-> f, frames |-> fs, pp_level |-> p, out_level |-> o, exited |-> e, strict |-> b], f2, o2)
           = [frm |-> f2, frames |-> fs, pp_level |-> p, out_level |-> o2, exited |-> e, strict |-> b]
<1> DEFINE s == [frm |-> f, frames |-> fs, pp_level |-> p, out_level |-> o, exited |-> e, strict |-> b]
           t == [frm |-> f2, frames |-> fs, pp_level |-> p, out_level |-> o, exited |-> e, strict |-> b]
<1>1. [s EXCEPT !.frm = f2] = t
  OBVIOUS
<1>2. [t EXCEPT !.out_level = o2]
        = [frm |-> f2, frames |-> fs, pp_level |-> p, out_level |-> o2, exited |-> e, strict |-> b]
  OBVIOUS
<1>3. Continue(s, f2, o2) = [t EXCEPT !.out_level = o2]
  <2> HIDE DEF s, t
  <2> QED
    BY <1>1 DEF Continue
<1> QED
  BY <1>2, <1>3

LEMMA Pushed ==
  ASSUME NEW f, NEW fs, NEW p, NEW o, NEW e, NEW b
  PROVE  Push([frm |-> f, frames |-> fs, pp_level |-> p, out_level |-> o, exited |-> e, strict |-> b])
           = [frm |-> f, frames |-> Append(fs, f), pp_level |-> p, out_level |-> o, exited |-> e, strict |-> b]
<1> DEFINE s == [frm |-> f, frames |-> fs, pp_level |-> p, out_level |-> o, exited |-> e, strict |-> b]
<1>1. s.frm = f /\ s.frames = fs
  OBVIOUS
<1>2. [s EXCEPT !.frames = Append(fs, f)]
        = [frm |-> f, frames |-> Append(fs, f), pp_level |-> p, out_level |-> o, exited |-> e, strict |-> b]
  OBVIOUS
<1> HIDE DEF s
<1>3. Push(s) = [s EXCEPT !.frames = Append(fs, f)]
  BY <1>1 DEF Push
<1> QED
  BY <1>2, <1>3 DEF s

LEMMA Popped ==
  ASSUME NEW f, NEW fs, NEW p, NEW o, NEW e, NEW b, fs # <<>>
  PROVE  Pop([frm |-> f, frames |-> fs, pp_level |-> p, out_level |-> o, exited |-> e, strict |-> b])
           = [frm |-> Tos(fs), frames |-> Drop(fs, 1), pp_level |-> p, out_level |-> o,
              exited |-> e, strict |-> b]
<1> DEFINE s == [frm |-> f, frames |-> fs, pp_level |-> p, out_level |-> o, exited |-> e, strict |-> b]
           t == [frm |-> Tos(fs), frames |-> fs, pp_level |-> p, out_level |-> o, exited |-> e, strict |-> b]
<1>1. [s EXCEPT !.frm = Tos(fs)] = t
  OBVIOUS
<1>2. s.frames = fs /\ t.frames = fs
  OBVIOUS
<1>3. [t EXCEPT !.frames = Drop(fs, 1)]
        = [frm |-> Tos(fs), frames |-> Drop(fs, 1), pp_level |-> p, out_level |-> o, exited |-> e, strict |-> b]
  OBVIOUS
<1> HIDE DEF s, t
<1>4. Pop(s) = [t EXCEPT !.frames = Drop(fs, 1)]
  BY <1>1, <1>2 DEF Pop
<1> QED
  BY <1>3, <1>4 DEF s

\* What the operators of ParsingFrames make of st, field by field.
LEMMA GoesOn ==
  ASSUME TypeOK, NEW f, NEW l, NEW n
  PROVE  /\ Push(st)
              = [frm |-> st.frm, frames |-> Append(st.frames, st.frm), pp_level |-> st.pp_level,
                 out_level |-> st.out_level, exited |-> st.exited, strict |-> st.strict]
         /\ st.frames # <<>> =>
              Pop(st) = [frm |-> Tos(st.frames), frames |-> Drop(st.frames, 1),
                         pp_level |-> st.pp_level, out_level |-> st.out_level,
                         exited |-> st.exited, strict |-> st.strict]
         /\ Continue(st, f, l)
              = [frm |-> f, frames |-> st.frames, pp_level |-> st.pp_level,
                 out_level |-> l, exited |-> st.exited, strict |-> st.strict]
         /\ Continue(Push(st), f, l)
              = [frm |-> f, frames |-> Append(st.frames, st.frm), pp_level |-> st.pp_level,
                 out_level |-> l, exited |-> st.exited, strict |-> st.strict]
         /\ Close(st, f, n)
              = [frm |-> f, frames |-> Drop(st.frames, n), pp_level |-> st.pp_level - 1,
                 out_level |-> st.pp_level - 1, exited |-> st.exited, strict |-> st.strict]
<1>1. PICK frm0, frames0, pp0, out0, exited0, strict0 :
        st = [frm |-> frm0, frames |-> frames0, pp_level |-> pp0, out_level |-> out0,
              exited |-> exited0, strict |-> strict0]
  BY Fields
<1>2. /\ st.frm = frm0 /\ st.frames = frames0 /\ st.pp_level = pp0
      /\ st.out_level = out0 /\ st.exited = exited0 /\ st.strict = strict0
  BY <1>1
<1> DEFINE t == [frm |-> frm0, frames |-> Drop(frames0, n), pp_level |-> pp0,
                 out_level |-> out0, exited |-> exited0, strict |-> strict0]
           u == [frm |-> frm0, frames |-> Drop(frames0, n), pp_level |-> pp0 - 1,
                 out_level |-> out0, exited |-> exited0, strict |-> strict0]
<1>3. [st EXCEPT !.frames = Drop(frames0, n)] = t
  BY <1>1
<1>4. [t EXCEPT !.pp_level = pp0 - 1] = u
  OBVIOUS
<1>5. Close(st, f, n) = Continue(u, f, pp0 - 1)
  <2> HIDE DEF t, u
  <2> QED
    BY <1>2, <1>3, <1>4 DEF Close
<1>6. Push(st) = [frm |-> frm0, frames |-> Append(frames0, frm0), pp_level |-> pp0,
                  out_level |-> out0, exited |-> exited0, strict |-> strict0]
  <2>1. Push([frm |-> frm0, frames |-> frames0, pp_level |-> pp0, out_level |-> out0, exited |-> exited0, strict |-> strict0])
          = [frm |-> frm0, frames |-> Append(frames0, frm0), pp_level |-> pp0,
             out_level |-> out0, exited |-> exited0, strict |-> strict0]
    BY Pushed
  <2> QED
    BY <1>1, <2>1
<1>7. frames0 # <<>> => Pop(st) = [frm |-> Tos(frames0), frames |-> Drop(frames0, 1), pp_level |-> pp0,
                                   out_level |-> out0, exited |-> exited0, strict |-> strict0]
  <2>1. frames0 # <<>> =>
          Pop([frm |-> frm0, frames |-> frames0, pp_level |-> pp0, out_level |-> out0, exited |-> exited0, strict |-> strict0])
            = [frm |-> Tos(frames0), frames |-> Drop(frames0, 1), pp_level |-> pp0,
               out_level |-> out0, exited |-> exited0, strict |-> strict0]
    BY Popped
  <2> QED
    BY <1>1, <2>1
<1>8. Continue(st, f, l) = [frm |-> f, frames |-> frames0, pp_level |-> pp0,
                            out_level |-> l, exited |-> exited0, strict |-> strict0]
  BY <1>1, Updated
<1>9. Continue(Push(st), f, l)
        = [frm |-> f, frames |-> Append(frames0, frm0), pp_level |-> pp0,
           out_level |-> l, exited |-> exited0, strict |-> strict0]
  BY <1>6, Updated
<1>10. Continue(u, f, pp0 - 1)
        = [frm |-> f, frames |-> Drop(frames0, n), pp_level |-> pp0 - 1,
           out_level |-> pp0 - 1, exited |-> exited0, strict |-> strict0]
  BY Updated
<1> QED
  BY <1>2, <1>5, <1>6, <1>7, <1>8, <1>9, <1>10

\* exit() from a directive.
LEMMA Stopped ==
  ASSUME Inv, st' = Stop(st), UNCHANGED <<define, regions>>
  PROVE  Inv'
  BY Fields DEF Inv, TypeOK, Stop, FramesMatchRegions

\* check() exits from a stray #else or #endif.
LEMMA Stray ==
  ASSUME Inv, Directive, regions = <<>>
  PROVE  CheckElse(st) = Stop(st) /\ CheckEndif(st) = Stop(st)
<1>1. st.pp_level = 0
  BY DEF Inv, FramesMatchRegions, Directive
<1> QED
  BY <1>1 DEF CheckElse, CheckEndif

\* The frame the block that ends is compared with, and goes on with at #endif.
Kept == IF Inner.result = Unknown THEN Inner.base ELSE Inner.result

\* What #else does to the innermost region and the frames.
LEMMA ElseStep ==
  ASSUME Inv, Else, regions # <<>>
  PROVE  LET r == [Inner EXCEPT !.result = IF Inner.result = Unknown THEN st.frm ELSE Inner.result]
         IN  /\ r \in Region /\ r.result # Unknown
             /\ r.base = Inner.base /\ r.below = Inner.below
             /\ st' = Balanced(st, st.frm.brace_level, Kept.brace_level,
                       [frm |-> [r.base EXCEPT !.ifdef = "PP_ELSE"], frames |-> Stacked(r),
                        pp_level |-> st.pp_level, out_level |-> st.pp_level - 1, exited |-> FALSE, strict |-> st.strict])
<1> DEFINE r == [Inner EXCEPT !.result = IF Inner.result = Unknown THEN st.frm ELSE Inner.result]
<1>1. ~st.exited /\ ~define
  BY DEF Else, Directive
<1>2. st.pp_level # 0
  BY <1>1, InnerRegion DEF Directive
<1>3. Inner \in Region /\ st.frames = Stacked(Inner) /\ st.frm.ifdef = Tag(Inner)
  BY <1>2, InnerRegion DEF Else
<1>4. st.frm \in Frames /\ Unknown \notin Frames
  BY Fields, UnknownAssumption DEF Inv
<1>5. r \in Region /\ r.result # Unknown /\ r.base = Inner.base /\ r.below = Inner.below
  BY <1>3, <1>4 DEF Region
<1>7. CASE Inner.result = Unknown
  <2>1. st.frm.ifdef = "PP_IF" /\ st.frames = Append(Inner.below, Inner.base)
    BY <1>3, <1>7 DEF Tag, Stacked
  <2>2. Append(st.frames, st.frm) = Stacked(r)
    BY <1>3, <1>5, <1>4, <1>7, <2>1 DEF Stacked, Region
  <2>3. Second(Append(st.frames, st.frm)) = Inner.base
    BY <1>3, <1>4, <2>1, Push2 DEF Region
  <2>4. st' = Balanced(st, st.frm.brace_level, Inner.base.brace_level,
                [frm |-> [Inner.base EXCEPT !.ifdef = "PP_ELSE"], frames |-> Stacked(r),
                 pp_level |-> st.pp_level, out_level |-> st.pp_level - 1, exited |-> st.exited, strict |-> st.strict])
    <3>1. Push(st) = [frm |-> st.frm, frames |-> Stacked(r), pp_level |-> st.pp_level,
                      out_level |-> st.out_level, exited |-> st.exited, strict |-> st.strict]
      BY <2>2, Fields DEF Inv, Push
    <3>2. Continue(Push(st), [Inner.base EXCEPT !.ifdef = "PP_ELSE"], st.pp_level - 1)
             = [frm |-> [Inner.base EXCEPT !.ifdef = "PP_ELSE"], frames |-> Stacked(r),
                pp_level |-> st.pp_level, out_level |-> st.pp_level - 1, exited |-> st.exited, strict |-> st.strict]
      BY <2>2, GoesOn DEF Inv
    <3>3. Second(Push(st).frames) = Inner.base
      BY <2>2, <2>3, <3>1
    <3> QED
      BY <1>2, <2>1, <3>2, <3>3 DEF Else, CheckElse
  <2> QED
    BY <1>1, <1>5, <1>7, <2>4, Fields DEF Inv, Kept
<1>8. CASE Inner.result # Unknown
  <2>1. /\ st.frm.ifdef = "PP_ELSE" /\ r = Inner
        /\ st.frames = Append(Append(Inner.below, Inner.base), Inner.result)
    BY <1>3, <1>8 DEF Tag, Stacked, Region
  <2>2. Second(st.frames) = Inner.base /\ Tos(st.frames) = Inner.result
    <3>1. Inner.below \in Seq(Frames) /\ Inner.base \in Frames /\ Inner.result \in Frames
      BY <1>3, <1>8 DEF Region
    <3>2. Append(Inner.below, Inner.base) \in Seq(Frames)
      BY <3>1
    <3>3. Second(Append(Append(Inner.below, Inner.base), Inner.result)) = Inner.base
      BY <3>1, Push2
    <3>4. Tos(Append(Append(Inner.below, Inner.base), Inner.result)) = Inner.result
      BY <3>1, <3>2, Push1
    <3> QED
      BY <2>1, <3>3, <3>4
  <2>3. st' = Balanced(st, st.frm.brace_level, Inner.result.brace_level,
                [frm |-> [Inner.base EXCEPT !.ifdef = "PP_ELSE"], frames |-> Stacked(r),
                 pp_level |-> st.pp_level, out_level |-> st.pp_level - 1, exited |-> st.exited, strict |-> st.strict])
    <3>1. Continue(st, [Inner.base EXCEPT !.ifdef = "PP_ELSE"], st.pp_level - 1)
             = [frm |-> [Inner.base EXCEPT !.ifdef = "PP_ELSE"], frames |-> Stacked(r),
                pp_level |-> st.pp_level, out_level |-> st.pp_level - 1, exited |-> st.exited, strict |-> st.strict]
      BY <1>3, <2>1, GoesOn DEF Inv
    <3> QED
      BY <1>2, <2>1, <2>2, <3>1 DEF Else, CheckElse
  <2> QED
    BY <1>1, <1>5, <1>8, <2>3, Fields DEF Inv, Kept
<1> QED
  BY <1>7, <1>8

LEMMA ElseInv == Inv /\ Else => Inv'
<1> SUFFICES ASSUME Inv, Else PROVE Inv'
  OBVIOUS
<1> DEFINE r == [Inner EXCEPT !.result = IF Inner.result = Unknown THEN st.frm ELSE Inner.result]
<1>1. CASE st' = Stop(st)
  <2>1. st'.exited
    BY <1>1, Fields DEF Inv, Stop
  <2> QED
    BY <1>1, <2>1, Stopped DEF Else
<1>2. CASE /\ regions # <<>>
           /\ st' = [frm |-> [r.base EXCEPT !.ifdef = "PP_ELSE"], frames |-> Stacked(r),
                     pp_level |-> st.pp_level, out_level |-> st.pp_level - 1, exited |-> FALSE, strict |-> st.strict]
  <2>1. /\ regions # <<>> /\ r \in Region /\ r.result # Unknown
        /\ r.base = Inner.base /\ r.below = Inner.below
        /\ regions' = Append(Outer, r)
        /\ st' = [frm |-> [r.base EXCEPT !.ifdef = "PP_ELSE"], frames |-> Stacked(r),
                  pp_level |-> st.pp_level, out_level |-> st.pp_level - 1, exited |-> FALSE, strict |-> st.strict]
    BY <1>2, ElseStep DEF Else
  <2> HIDE DEF r
  <2>2. [r.base EXCEPT !.ifdef = "PP_ELSE"] \in Frames
        /\ [r.base EXCEPT !.ifdef = "PP_ELSE"].ifdef = "PP_ELSE"
    BY <2>1, Retag DEF Region, Ifdefs
  <2>3. Stacked(r) \in Seq(Frames)
    BY <2>1 DEF Stacked, Region
  <2>4. define' = FALSE /\ Directive
    BY DEF Else, Directive, Inv, TypeOK
  <2>5. regions' \in Seq(Region) /\ FramesMatchRegions'
    BY <2>1, <2>2, <2>4, InnerChanged DEF Tag
  <2>6. st.pp_level \in Nat /\ st.pp_level - 1 \in Nat
    BY <2>1, <2>4, InnerRegion
  <2>7. TypeOK'
    BY <2>1, <2>2, <2>3, <2>4, <2>5, <2>6, Fields DEF Inv, TypeOK, Region
  <2> QED
    BY <2>4, <2>5, <2>7 DEF Inv
<1>3. regions = <<>> => st' = Stop(st)
  BY Stray DEF Else
<1> HIDE DEF r
<1>4. regions # <<>> => \/ st' = Stop(st)
                        \/ st' = [frm |-> [r.base EXCEPT !.ifdef = "PP_ELSE"], frames |-> Stacked(r),
                                  pp_level |-> st.pp_level, out_level |-> st.pp_level - 1,
                                  exited |-> FALSE, strict |-> st.strict]
  BY ElseStep DEF r, Balanced
<1> QED
  BY <1>1, <1>2, <1>3, <1>4

\* What #endif does to the innermost region and the frames.
LEMMA EndifStep ==
  ASSUME Inv, Endif, regions # <<>>
  PROVE  /\ Inner \in Region
         /\ st' = Balanced(st, st.frm.brace_level, Kept.brace_level,
                   [frm |-> [Kept EXCEPT !.ifdef = Inner.base.ifdef],
                    frames |-> Inner.below, pp_level |-> st.pp_level - 1,
                    out_level |-> st.pp_level - 1, exited |-> FALSE, strict |-> st.strict])
<1>1. ~st.exited /\ ~define
  BY DEF Endif, Directive
<1>2. st.pp_level # 0
  BY <1>1, InnerRegion DEF Directive
<1>3. Inner \in Region /\ st.frames = Stacked(Inner) /\ st.frm.ifdef = Tag(Inner)
  BY <1>2, InnerRegion DEF Endif
<1>5. CASE Inner.result = Unknown
  <2>1. st.frm.ifdef = "PP_IF" /\ st.frames = Append(Inner.below, Inner.base)
    BY <1>3, <1>5 DEF Tag, Stacked
  <2>2. Tos(st.frames) = Inner.base /\ Drop(st.frames, 1) = Inner.below
    BY <1>3, <2>1, Push1 DEF Region
  <2>3. st' = Balanced(st, st.frm.brace_level, Inner.base.brace_level,
                [frm |-> Inner.base, frames |-> Inner.below, pp_level |-> st.pp_level - 1,
                 out_level |-> st.pp_level - 1, exited |-> st.exited, strict |-> st.strict])
    <3>1. Close(st, Inner.base, 1)
            = [frm |-> Inner.base, frames |-> Inner.below, pp_level |-> st.pp_level - 1,
               out_level |-> st.pp_level - 1, exited |-> st.exited, strict |-> st.strict]
      BY <2>2, GoesOn DEF Inv
    <3> QED
      BY <1>2, <2>1, <2>2, <3>1 DEF Endif, CheckEndif
  <2> QED
    <3>1. [Inner.base EXCEPT !.ifdef = Inner.base.ifdef] = Inner.base
      BY <1>3 DEF Region, Frames
    <3> QED
      BY <1>1, <1>3, <1>5, <2>3, <3>1, Fields DEF Inv, Kept
<1>6. CASE Inner.result # Unknown
  <2>1. /\ st.frm.ifdef = "PP_ELSE"
        /\ st.frames = Append(Append(Inner.below, Inner.base), Inner.result)
        /\ Inner.below \in Seq(Frames) /\ Inner.base \in Frames /\ Inner.result \in Frames
    BY <1>3, <1>6 DEF Tag, Stacked, Region
  <2>2. /\ Append(Inner.below, Inner.base) \in Seq(Frames)
        /\ Len(Append(Inner.below, Inner.base)) = Len(Inner.below) + 1
    BY <2>1, Push1
  <2>3. /\ Second(st.frames) = Inner.base /\ Drop(st.frames, 2) = Inner.below
        /\ Tos(st.frames) = Inner.result /\ Len(st.frames) >= 2
    <3>1. /\ Second(st.frames) = Inner.base
          /\ Drop(st.frames, 2) = Inner.below
      BY <2>1, Push2
    <3>2. /\ Tos(st.frames) = Inner.result
          /\ Len(st.frames) = Len(Inner.below) + 2
      <4> DEFINE s == Append(Inner.below, Inner.base)
      <4>1. s \in Seq(Frames) /\ Len(s) = Len(Inner.below) + 1
        BY <2>2
      <4> HIDE DEF s
      <4>2. Tos(Append(s, Inner.result)) = Inner.result /\ Len(Append(s, Inner.result)) = Len(s) + 1
        BY <2>1, <4>1, Push1
      <4>3. Len(Inner.below) \in Nat
        BY <2>1
      <4> QED
        BY <2>1, <4>1, <4>2, <4>3 DEF s
    <3>3. Len(Inner.below) \in Nat
      BY <2>1
    <3> QED
      BY <3>1, <3>2, <3>3
  <2>4. st' = Balanced(st, st.frm.brace_level, Inner.result.brace_level,
                [frm |-> [Inner.result EXCEPT !.ifdef = Inner.base.ifdef], frames |-> Inner.below,
                 pp_level |-> st.pp_level - 1, out_level |-> st.pp_level - 1, exited |-> st.exited, strict |-> st.strict])
    <3>1. Close(st, [Inner.result EXCEPT !.ifdef = Inner.base.ifdef], 2)
            = [frm |-> [Inner.result EXCEPT !.ifdef = Inner.base.ifdef], frames |-> Inner.below,
               pp_level |-> st.pp_level - 1, out_level |-> st.pp_level - 1, exited |-> st.exited, strict |-> st.strict]
      BY <2>3, GoesOn DEF Inv
    <3>2. ~(Len(st.frames) < 2)
      BY <2>3, Fields DEF Inv
    <3> QED
      BY <1>2, <2>1, <2>3, <3>1, <3>2 DEF Endif, CheckEndif
  <2> QED
    BY <1>1, <1>3, <1>6, <2>4, Fields DEF Inv, Kept
<1> QED
  BY <1>5, <1>6

LEMMA EndifInv == Inv /\ Endif => Inv'
<1> SUFFICES ASSUME Inv, Endif PROVE Inv'
  OBVIOUS
<1> DEFINE f == [Kept EXCEPT !.ifdef = Inner.base.ifdef]
<1>1. CASE st' = Stop(st)
  <2>1. st'.exited
    BY <1>1, Fields DEF Inv, Stop
  <2> QED
    BY <1>1, <2>1, Stopped DEF Endif
<1>2. CASE /\ regions # <<>>
           /\ st' = [frm |-> f, frames |-> Inner.below, pp_level |-> st.pp_level - 1,
                     out_level |-> st.pp_level - 1, exited |-> FALSE, strict |-> st.strict]
  <2>1. Inner \in Region /\ regions' = Outer
    BY <1>2, EndifStep DEF Endif
  <2>2. f \in Frames /\ f.ifdef = Inner.base.ifdef
    BY <2>1, Retag, FrameFields DEF Region, Kept
  <2> HIDE DEF f
  <2>3. define' = FALSE /\ Directive
    BY DEF Endif, Directive, Inv, TypeOK
  <2>4. regions' \in Seq(Region) /\ FramesMatchRegions'
    BY <1>2, <2>1, <2>2, <2>3, InnerClosed
  <2>5. st.pp_level - 1 \in Nat /\ Inner.below \in Seq(Frames)
    BY <1>2, <2>1, <2>3, InnerRegion DEF Region
  <2>6. TypeOK'
    BY <1>2, <2>2, <2>3, <2>4, <2>5, Fields DEF Inv, TypeOK, Region
  <2> QED
    BY <2>3, <2>4, <2>6 DEF Inv
<1>3. regions = <<>> => st' = Stop(st)
  BY Stray DEF Endif
<1> HIDE DEF f
<1>4. regions # <<>> => \/ st' = Stop(st)
                        \/ st' = [frm |-> f, frames |-> Inner.below, pp_level |-> st.pp_level - 1,
                                  out_level |-> st.pp_level - 1, exited |-> FALSE, strict |-> st.strict]
  BY EndifStep DEF f, Balanced
<1> QED
  BY <1>1, <1>2, <1>3, <1>4

LEMMA DefineInv == Inv /\ Define => Inv'
<1> SUFFICES ASSUME Inv, Define PROVE Inv'
  OBVIOUS
<1> DEFINE f == Frame(Blank, "NONE")
<1>1. st' = [frm |-> f, frames |-> Append(st.frames, st.frm), pp_level |-> st.pp_level,
             out_level |-> st.pp_level, exited |-> st.exited, strict |-> st.strict]
  BY GoesOn DEF Inv, Define, EnterDefine
<1>2. f \in Frames
  BY FrameType, BlankAssumption DEF Ifdefs
<1> HIDE DEF f
<1>3. /\ Append(st.frames, st.frm) \in Seq(Frames) /\ Append(st.frames, st.frm) # <<>>
      /\ Tos(Append(st.frames, st.frm)) = st.frm /\ Drop(Append(st.frames, st.frm), 1) = st.frames
  BY Fields, Push1 DEF Inv
<1>4. define' = TRUE /\ regions' = regions /\ ~st.exited /\ ~define
  BY DEF Define, Directive
<1>5. TypeOK'
  BY <1>1, <1>2, <1>3, <1>4, Fields DEF Inv, TypeOK
<1>6. FramesMatchRegions'
  BY <1>1, <1>3, <1>4, SameRegions DEF CurFrame, CurBelow
<1> QED
  BY <1>1, <1>3, <1>5, <1>6 DEF Inv

LEMMA EndDefineInv == Inv /\ EndDefine => Inv'
<1> SUFFICES ASSUME Inv, EndDefine PROVE Inv'
  OBVIOUS
<1>1. ~st.exited /\ define /\ st.frames # <<>> /\ regions' = regions
  BY DEF Inv, EndDefine
<1>2. Pop(st) = [frm |-> Tos(st.frames), frames |-> Drop(st.frames, 1), pp_level |-> st.pp_level,
                 out_level |-> st.out_level, exited |-> FALSE, strict |-> st.strict]
  BY <1>1, GoesOn DEF Inv
<1>3. CASE st' = Stop(st)
  <2>1. define' = define
    BY <1>1, <1>3, Fields DEF Inv, EndDefine, Stop
  <2> QED
    BY <1>1, <1>3, <2>1, Stopped
<1>4. CASE st' = Pop(st)
  <2>1. Tos(st.frames) \in Frames /\ Drop(st.frames, 1) \in Seq(Frames)
    BY <1>1, Fields, Pop1 DEF Inv
  <2>2. define' = FALSE
    BY <1>2, <1>4 DEF EndDefine
  <2>3. TypeOK'
    <3>1. st.pp_level \in Nat /\ st.out_level \in Nat /\ st.strict \in BOOLEAN
      BY Fields DEF Inv
    <3>2. regions' \in Seq(Region)
      BY <1>1 DEF Inv, TypeOK, Region
    <3>3. st' \in [frm : Frames, frames : Seq(Frames), pp_level : Nat, out_level : Nat, exited : BOOLEAN,
               strict : BOOLEAN]
      <4> DEFINE f == Tos(st.frames)
                 fs == Drop(st.frames, 1)
      <4>1. f \in Frames /\ fs \in Seq(Frames)
        BY <2>1
      <4>2. st' = [frm |-> f, frames |-> fs, pp_level |-> st.pp_level,
                   out_level |-> st.out_level, exited |-> FALSE, strict |-> st.strict]
        BY <1>2, <1>4
      <4> HIDE DEF f, fs
      <4> QED
        BY <3>1, <4>1, <4>2
    <3> QED
      BY <2>2, <3>2, <3>3 DEF TypeOK, Region
  <2>4. FramesMatchRegions'
    BY <1>1, <1>2, <1>4, <2>2, SameRegions DEF CurFrame, CurBelow
  <2> QED
    BY <2>2, <2>3, <2>4 DEF Inv
<1> QED
  BY <1>3, <1>4 DEF EndDefine, LeaveDefine, Balanced

LEMMA StepInv == Inv /\ [Next]_vars => Inv'
<1>1. ASSUME Inv, UNCHANGED vars PROVE Inv'
  BY <1>1 DEF vars, Inv, TypeOK, FramesMatchRegions, FrameAt, BelowAt, CurFrame, CurBelow
<1> QED
  BY <1>1, ParseCleanupInv, IfInv, ElseInv, EndifInv, DefineInv, EndDefineInv DEF Next

-----------------------------------------------------------------------------
(* Theorems                                                                *)

\* pp_level, a size_t that check() counts down, stays in range, and a frame
\* taken off the stack is always one that was put there.
THEOREM TypeCorrect == Spec => []TypeOK
<1>1. Inv => TypeOK
  BY DEF Inv
<1> QED
  BY InitInv, StepInv, <1>1, PTL DEF Spec

\* At any point of any sequence of directives the stack holds exactly the frames
\* of the open conditionals.
THEOREM FramesMatch == Spec => []FramesMatchRegions
<1>1. Inv => FramesMatchRegions
  BY DEF Inv
<1> QED
  BY InitInv, StepInv, <1>1, PTL DEF Spec

-----------------------------------------------------------------------------
(* FrameStack implements ConditionalRegions                                *)

LEMMA ForgetAppend ==
  ASSUME NEW rs \in Seq(Region), NEW r \in Region
  PROVE  Forget(Append(rs, r)) = Append(Forget(rs), Simple(r))
  BY DEF Forget

LEMMA ForgetInner ==
  ASSUME NEW rs \in Seq(Region), rs # <<>>
  PROVE  /\ Forget(rs) # <<>>
         /\ Len(Forget(rs)) = Len(rs)
         /\ Forget(rs)[Len(Forget(rs))] = Simple(rs[Len(rs)])
         /\ Forget(SubSeq(rs, 1, Len(rs) - 1)) = SubSeq(Forget(rs), 1, Len(Forget(rs)) - 1)
<1> DEFINE n == Len(rs) - 1
           F == Forget(rs)
<1>1. n \in Nat /\ Len(rs) = n + 1
  OBVIOUS
<1>2. F = [i \in 1 .. Len(rs) |-> Simple(rs[i])]
  BY DEF Forget
<1>3. Len(F) = Len(rs) /\ F # <<>> /\ \A i \in 1 .. Len(rs) : F[i] = Simple(rs[i])
  BY <1>1, <1>2
<1>4. SubSeq(rs, 1, n) = [i \in 1 .. n |-> rs[i]]
  OBVIOUS
<1>5. Forget(SubSeq(rs, 1, n)) = [i \in 1 .. n |-> Simple(rs[i])]
  <2> HIDE DEF n
  <2>1. Len([i \in 1 .. n |-> rs[i]]) = n
    BY <1>1
  <2> QED
    BY <1>1, <1>4, <2>1 DEF Forget
<1>6. SubSeq(F, 1, n) = [i \in 1 .. n |-> Simple(rs[i])]
  <2> HIDE DEF n, F
  <2>1. SubSeq(F, 1, n) = [i \in 1 .. n |-> F[i]]
    BY <1>1, <1>3
  <2> QED
    BY <1>1, <1>3, <2>1
<1> QED
  BY <1>1, <1>3, <1>5, <1>6

Saved == IF define THEN Tos(st.frames).state ELSE Unknown

LEMMA InitRefines == Init => Abstract!Init
<1> SUFFICES ASSUME Init PROVE Abstract!Init
  OBVIOUS
<1>1. /\ st.frm = Frame(Empty, "NONE") /\ st.out_level = 0 /\ st.exited = FALSE
      /\ st.strict \in BOOLEAN
  BY DEF Init
<1>2. st.frm.state = Empty
  BY <1>1 DEF Frame
<1> QED
  BY <1>1, <1>2 DEF Init, Abstract!Init, Forget

\* exit() is the rejection of the input.
LEMMA StopRefines ==
  ASSUME Inv, ~st.exited, st' = Stop(st), UNCHANGED <<define, regions>>,
         \/ ~define /\ regions = <<>>
         \/ ~define /\ regions # <<>> /\ st.strict
              /\ Level[st.frm.state] # Level[Abstract!Result(Simple(Inner))]
         \/ define /\ st.strict /\ Level[st.frm.state] # Level[Blank]
  PROVE  Abstract!Reject
<1>1. /\ st'.frm = st.frm /\ st'.frames = st.frames /\ st'.out_level = st.out_level
      /\ st'.exited = TRUE /\ st'.strict = st.strict
  BY Fields DEF Inv, Stop
<1>2. define => Tos(st.frames).state # Unknown
  BY Fields, Pop1, FrameFields, UnknownAssumption DEF Inv
<1>3. regions \in Seq(Region)
  BY DEF Inv, TypeOK, Region
<1>4. regions = <<>> => Forget(regions) = <<>>
  BY DEF Forget
<1>5. regions # <<>> => Forget(regions) # <<>> /\ Abstract!Inner = Simple(Inner)
  BY <1>3, ForgetInner DEF Abstract!Inner, Inner
<1>6. /\ st.frm.state' = st.frm.state /\ Forget(regions)' = Forget(regions)
      /\ (IF define THEN Tos(st.frames).state ELSE Unknown)'
           = (IF define THEN Tos(st.frames).state ELSE Unknown)
  BY <1>1
<1> QED
  BY <1>1, <1>2, <1>4, <1>5, <1>6 DEF Abstract!Reject

LEMMA ParseRefines == Inv /\ ParseCleanup => Abstract!Parse
<1> SUFFICES ASSUME Inv, ParseCleanup PROVE Abstract!Parse
  OBVIOUS
<1>1. PICK s \in States : st' = [st EXCEPT !.frm = Frame(s, st.frm.ifdef)]
  BY DEF ParseCleanup
<1>2. /\ st'.frm.state = s /\ st'.frames = st.frames
      /\ st'.out_level = st.out_level /\ st'.exited = st.exited
      /\ st'.strict = st.strict
  BY <1>1, Fields DEF Inv, Frame
<1>3. regions' = regions /\ define' = define /\ ~st.exited
  BY DEF ParseCleanup
<1>4. Forget(regions)' = Forget(regions)
  BY <1>3
<1> QED
  BY <1>2, <1>3, <1>4 DEF Abstract!Parse

LEMMA IfRefines == Inv /\ If => Abstract!If
<1> SUFFICES ASSUME Inv, If PROVE Abstract!If
  OBVIOUS
<1> DEFINE r == [base |-> st.frm, result |-> Unknown, below |-> st.frames]
<1>1. st' = [frm |-> [st.frm EXCEPT !.ifdef = "PP_IF"], frames |-> Append(st.frames, st.frm),
             pp_level |-> st.pp_level + 1, out_level |-> st.pp_level, exited |-> FALSE, strict |-> st.strict]
  BY DEF If, Directive, CheckIf, Continue, Push, Inv, TypeOK
<1>2. r \in Region /\ regions \in Seq(Region)
  BY DEF Inv, TypeOK, Region
<1>3. regions' = Append(regions, r) /\ define' = FALSE /\ ~define /\ ~st.exited
      /\ Len(regions) < MaxNest
  BY DEF If, Directive, Inv, TypeOK
<1>4. /\ st'.frm.state = st.frm.state /\ st'.out_level = st.pp_level
      /\ st'.exited = st.exited /\ st'.strict = st.strict
  <2>1. st.exited = FALSE
    BY <1>3, Fields DEF Inv
  <2> QED
    BY <1>1, <2>1, Retag, Fields DEF Inv, Ifdefs
<1>5. Forget(regions)' = Append(Forget(regions), [base |-> st.frm.state, result |-> Unknown])
  BY <1>2, <1>3, ForgetAppend DEF Simple
<1>6. Len(Forget(regions)) = Len(regions) /\ st.pp_level = Len(regions)
  BY <1>2, <1>3 DEF Forget, Inv, FramesMatchRegions
<1> QED
  BY <1>3, <1>4, <1>5, <1>6 DEF Abstract!If

\* The innermost region as the abstract specification sees it.
LEMMA AbstractInner ==
  ASSUME Inv, Directive, regions # <<>>
  PROVE  /\ Forget(regions) # <<>>
         /\ Abstract!Inner = Simple(Inner)
         /\ Abstract!Outer = Forget(Outer)
         /\ Len(Abstract!Outer) = st.pp_level - 1
         /\ Abstract!Result(Simple(Inner)) = Kept.state
         /\ Kept \in Frames
         /\ st.frm.brace_level = Level[st.frm.state]
         /\ Kept.brace_level = Level[Kept.state]
<1>1. regions \in Seq(Region) /\ Inner \in Region /\ Outer \in Seq(Region)
      /\ Len(Outer) = Len(regions) - 1 /\ st.pp_level = Len(regions)
  BY InnerRegion DEF Inv, TypeOK, Region
<1>2. /\ Forget(regions) # <<>> /\ Abstract!Inner = Simple(Inner)
      /\ Abstract!Outer = Forget(Outer)
  BY <1>1, ForgetInner DEF Abstract!Inner, Abstract!Outer, Inner, Outer
<1>3. Len(Forget(Outer)) = Len(Outer)
  BY <1>1 DEF Forget
<1>4. Kept \in Frames
  BY <1>1 DEF Kept, Region
<1>5. Abstract!Result(Simple(Inner)) = Kept.state
  BY <1>1, FrameFields, UnknownAssumption DEF Abstract!Result, Simple, Kept, Region
<1> QED
  BY <1>1, <1>2, <1>3, <1>4, <1>5, FrameFields, Fields DEF Inv

LEMMA ElseRefines == Inv /\ Else => Abstract!Next
<1> SUFFICES ASSUME Inv, Else PROVE Abstract!Next
  OBVIOUS
<1> DEFINE r == [Inner EXCEPT !.result = IF Inner.result = Unknown THEN st.frm ELSE Inner.result]
           n == [frm |-> [r.base EXCEPT !.ifdef = "PP_ELSE"], frames |-> Stacked(r),
                 pp_level |-> st.pp_level, out_level |-> st.pp_level - 1, exited |-> FALSE, strict |-> st.strict]
<1>1. Directive /\ st.exited = FALSE /\ ~define /\ define' = define
  BY Fields DEF Inv, Else, Directive
<1>2. ASSUME st' = Stop(st),
             regions = <<>> \/ (regions # <<>> /\ st.strict /\ st.frm.brace_level # Kept.brace_level)
      PROVE  Abstract!Reject
  <2>1. regions' = regions
    BY <1>2, Fields DEF Inv, Else, Stop
  <2> QED
    BY <1>1, <1>2, <2>1, StopRefines, AbstractInner
<1>3. ASSUME regions # <<>>, st' = n, st.strict => st.frm.brace_level = Kept.brace_level
      PROVE  Abstract!Else
  <2>1. /\ r \in Region /\ r.result # Unknown /\ r.base = Inner.base
        /\ r.result = IF Inner.result = Unknown THEN st.frm ELSE Inner.result
        /\ Inner \in Region
    BY <1>1, <1>3, ElseStep, InnerRegion DEF Region
  <2>2. regions' = Append(Outer, r)
    BY <1>3 DEF Else
  <2> HIDE DEF r
  <2>3. Forget(regions)' = Append(Forget(Outer), Simple(r))
    BY <1>1, <1>3, <2>1, <2>2, ForgetAppend, InnerRegion
  <2>4. /\ Simple(Inner).result = Unknown <=> Inner.result = Unknown
        /\ Simple(Inner).base = Inner.base.state
        /\ Inner.result # Unknown => Simple(Inner).result = Inner.result.state
    BY <2>1, FrameFields, UnknownAssumption DEF Simple, Region
  <2>5. Simple(r) = [Simple(Inner) EXCEPT !.result =
                       IF Simple(Inner).result = Unknown THEN st.frm.state ELSE Simple(Inner).result]
    BY <2>1, <2>4 DEF Simple
  <2>6. /\ st'.frm.state = Inner.base.state /\ st'.out_level = st.pp_level - 1
        /\ st'.exited = st.exited /\ st'.strict = st.strict
    BY <1>1, <1>3, <2>1, Retag DEF Region, Ifdefs
  <2>7. st.strict => Level[st.frm.state] = Level[Abstract!Result(Simple(Inner))]
    BY <1>1, <1>3, AbstractInner
  <2>8. /\ Forget(regions) # <<>> /\ Abstract!Inner = Simple(Inner)
        /\ Abstract!Outer = Forget(Outer) /\ Len(Abstract!Outer) = st.pp_level - 1
    BY <1>1, <1>3, AbstractInner
  <2> QED
    BY <1>1, <2>3, <2>4, <2>5, <2>6, <2>7, <2>8 DEF Abstract!Else
<1>4. regions = <<>> => st' = Stop(st)
  BY <1>1, Stray DEF Else
<1>5. regions # <<>> => st' = Balanced(st, st.frm.brace_level, Kept.brace_level, n)
  BY ElseStep
<1> QED
  BY <1>2, <1>3, <1>4, <1>5 DEF Balanced, Abstract!Next

LEMMA EndifRefines == Inv /\ Endif => Abstract!Next
<1> SUFFICES ASSUME Inv, Endif PROVE Abstract!Next
  OBVIOUS
<1> DEFINE n == [frm |-> [Kept EXCEPT !.ifdef = Inner.base.ifdef], frames |-> Inner.below,
                 pp_level |-> st.pp_level - 1, out_level |-> st.pp_level - 1, exited |-> FALSE, strict |-> st.strict]
<1>1. Directive /\ st.exited = FALSE /\ ~define /\ define' = define
  BY Fields DEF Inv, Endif, Directive
<1>2. ASSUME st' = Stop(st),
             regions = <<>> \/ (regions # <<>> /\ st.strict /\ st.frm.brace_level # Kept.brace_level)
      PROVE  Abstract!Reject
  <2>1. regions' = regions
    BY <1>2, Fields DEF Inv, Endif, Stop
  <2> QED
    BY <1>1, <1>2, <2>1, StopRefines, AbstractInner
<1>3. ASSUME regions # <<>>, st' = n, st.strict => st.frm.brace_level = Kept.brace_level
      PROVE  Abstract!Endif
  <2>1. Forget(regions)' = Forget(Outer)
    BY <1>3 DEF Endif
  <2>2. Inner \in Region /\ Inner.base.ifdef \in Ifdefs
    BY <1>1, <1>3, InnerRegion, FrameFields DEF Region
  <2>3. /\ st'.frm.state = Kept.state /\ st'.out_level = st.pp_level - 1
        /\ st'.exited = st.exited /\ st'.strict = st.strict
    BY <1>1, <1>3, <2>2, AbstractInner, Retag
  <2>4. st.strict => Level[st.frm.state] = Level[Abstract!Result(Simple(Inner))]
    BY <1>1, <1>3, AbstractInner
  <2>5. /\ Forget(regions) # <<>> /\ Abstract!Inner = Simple(Inner)
        /\ Abstract!Outer = Forget(Outer) /\ Len(Abstract!Outer) = st.pp_level - 1
        /\ Abstract!Result(Simple(Inner)) = Kept.state
    BY <1>1, <1>3, AbstractInner
  <2> QED
    BY <1>1, <2>1, <2>3, <2>4, <2>5 DEF Abstract!Endif
<1>4. regions = <<>> => st' = Stop(st)
  BY <1>1, Stray DEF Endif
<1>5. regions # <<>> => st' = Balanced(st, st.frm.brace_level, Kept.brace_level, n)
  BY EndifStep
<1> QED
  BY <1>2, <1>3, <1>4, <1>5 DEF Balanced, Abstract!Next

LEMMA DefineRefines == Inv /\ Define => Abstract!Define
<1> SUFFICES ASSUME Inv, Define PROVE Abstract!Define
  OBVIOUS
<1>1. st' = [frm |-> Frame(Blank, "NONE"), frames |-> Append(st.frames, st.frm),
             pp_level |-> st.pp_level, out_level |-> st.pp_level, exited |-> st.exited, strict |-> st.strict]
  BY GoesOn DEF Inv, Define, EnterDefine
<1>2. /\ st'.frm.state = Blank /\ st'.frames = Append(st.frames, st.frm)
      /\ st'.out_level = st.pp_level /\ st'.exited = st.exited
      /\ st'.strict = st.strict
  BY <1>1 DEF Frame
<1>3. Tos(st'.frames) = st.frm
  BY <1>2, Fields, Push1 DEF Inv
<1>4. define' = TRUE /\ regions' = regions /\ ~st.exited /\ ~define
  BY DEF Define, Directive
<1>5. Len(Forget(regions)) = st.pp_level /\ Forget(regions)' = Forget(regions)
  BY <1>4 DEF Forget, Inv, FramesMatchRegions, TypeOK
<1> QED
  BY <1>2, <1>3, <1>4, <1>5 DEF Abstract!Define

LEMMA EndDefineRefines == Inv /\ EndDefine => Abstract!Next
<1> SUFFICES ASSUME Inv, EndDefine PROVE Abstract!Next
  OBVIOUS
<1>1. ~st.exited /\ define /\ st.frames # <<>> /\ regions' = regions
      /\ define' = st'.exited
  BY DEF Inv, EndDefine
<1>2. st.frm.brace_level = Level[st.frm.state] /\ Level[Blank] = 1
  BY FrameFields, Fields, BlankAssumption DEF Inv
<1>3. ASSUME st' = Stop(st), st.strict, st.frm.brace_level # 1
      PROVE  Abstract!Reject
  <2>1. define' = define
    BY <1>1, <1>3, Fields DEF Inv, Stop
  <2> QED
    BY <1>1, <1>2, <1>3, <2>1, StopRefines
<1>4. ASSUME st' = Pop(st), st.strict => st.frm.brace_level = 1
      PROVE  Abstract!EndDefine
  <2>1. /\ st'.frm = Tos(st.frames) /\ st'.out_level = st.out_level /\ st'.exited = st.exited
        /\ st'.strict = st.strict
    BY <1>1, <1>4, GoesOn DEF Inv
  <2>2. Tos(st.frames).state # Unknown
    BY <1>1, Fields, Pop1, FrameFields, UnknownAssumption DEF Inv
  <2>3. Forget(regions)' = Forget(regions)
    BY <1>1
  <2> QED
    BY <1>1, <1>2, <1>4, <2>1, <2>2, <2>3, Fields DEF Inv, Abstract!EndDefine
<1> QED
  BY <1>3, <1>4 DEF EndDefine, LeaveDefine, Balanced, Abstract!Next

\* Every sequence of directives goes on with the parse state the language of
\* conditionals promises, however deep the nesting: the frames pushed, copied and
\* thrown away at each of them amount to "continue from the #if clause".
THEOREM Refinement == Spec => Transparent
<1>1. Inv /\ UNCHANGED vars => UNCHANGED Abstract!vars
  BY DEF vars, Abstract!vars
<1>2. Inv /\ [Next]_vars => [Abstract!Next]_(Abstract!vars)
  BY <1>1, ParseRefines, IfRefines, ElseRefines, EndifRefines, DefineRefines, EndDefineRefines
     DEF Next, Abstract!Next
<1> QED
  BY InitInv, StepInv, InitRefines, <1>2, PTL DEF Spec, Transparent, Abstract!Spec
=============================================================================
