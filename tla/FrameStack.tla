----------------------------- MODULE FrameStack -----------------------------
(***************************************************************************)
(* The frame stack of brace_cleanup() on an arbitrary sequence of          *)
(* preprocessor directives and of parse steps between them.                *)
(*                                                                         *)
(* parse_cleanup() is a step to any element of States: here it only        *)
(* matters that it works on the current frame and leaves its ifdef type    *)
(* and the stack alone.  BraceCleanup.tla has the parse.                   *)
(***************************************************************************)
EXTENDS ParsingFrames

CONSTANTS
  States,   \* what a ParsingFrame holds, apart from its ifdef type
  Level,    \* GetBraceLevel() of each
  Empty,    \* ParsingFrame()
  Blank,    \* ParsingFrame() with brace level 1
  Unknown,  \* no state
  MaxNest   \* bound on the nesting of #if

Ifdefs == {"NONE", "PP_IF", "PP_ELSE"}
Frame(state, ifdef) == [state |-> state, ifdef |-> ifdef, brace_level |-> Level[state]]
Frames == {f \in [state : States, ifdef : Ifdefs, brace_level : Nat] :
             f.brace_level = Level[f.state]}

ASSUME LevelAssumption == Level \in [States -> Nat]
ASSUME EmptyAssumption == Empty \in States /\ Level[Empty] = 0
ASSUME BlankAssumption == Blank \in States /\ Level[Blank] = 1
ASSUME UnknownAssumption == Unknown \notin States /\ Unknown \notin Frames
ASSUME MaxNestAssumption == MaxNest \in Nat

VARIABLES
  st,       \* frm, m_frames, pp_level, the level of the last '#', exit()
  define,   \* is in_preproc CT_PP_DEFINE?
  regions   \* history: the open #ifs: the frame each started from, the frame
            \* its first block ended with, and the stack there was at the #if

vars == <<st, define, regions>>

TypeOK ==
  /\ st \in [frm : Frames, frames : Seq(Frames), pp_level : Nat, out_level : Nat, exited : BOOLEAN,
            strict : BOOLEAN]
  /\ define \in BOOLEAN
  /\ regions \in Seq([base : Frames, result : Frames \cup {Unknown}, below : Seq(Frames)])

Init ==
  /\ st \in [frm : {Frame(Empty, "NONE")}, frames : {<<>>}, pp_level : {0},
             out_level : {0}, exited : {FALSE}, strict : BOOLEAN]
  /\ define = FALSE
  /\ regions = <<>>

-----------------------------------------------------------------------------
Inner == regions[Len(regions)]
Outer == SubSeq(regions, 1, Len(regions) - 1)

\* A directive is only looked at outside of a #define body.
Directive == ~st.exited /\ ~define

ParseCleanup ==
  /\ ~st.exited
  /\ \E s \in States : st' = [st EXCEPT !.frm = Frame(s, st.frm.ifdef)]
  /\ UNCHANGED <<define, regions>>

If ==
  /\ Directive
  /\ Len(regions) < MaxNest
  /\ st' = CheckIf(st)
  /\ regions' = Append(regions, [base |-> st.frm, result |-> Unknown, below |-> st.frames])
  /\ UNCHANGED define

Else ==
  /\ Directive
  /\ st' = CheckElse(st)
  /\ regions' = IF st'.exited THEN regions
                ELSE Append(Outer, [Inner EXCEPT !.result = IF Inner.result = Unknown
                                                             THEN st.frm ELSE Inner.result])
  /\ UNCHANGED define

Endif ==
  /\ Directive
  /\ st' = CheckEndif(st)
  /\ regions' = IF st'.exited THEN regions ELSE Outer
  /\ UNCHANGED define

Define ==
  /\ Directive
  /\ st' = EnterDefine(st, Frame(Blank, "NONE"))
  /\ define' = TRUE
  /\ UNCHANGED regions

\* The first token that is not part of the #define.
EndDefine ==
  /\ ~st.exited
  /\ define
  /\ st' = LeaveDefine(st)
  /\ define' = st'.exited
  /\ UNCHANGED regions

Next == ParseCleanup \/ If \/ Else \/ Endif \/ Define \/ EndDefine

Spec == Init /\ [][Next]_vars

-----------------------------------------------------------------------------
(* Properties                                                              *)

\* The frame that is parsed when the #define body is left, and what is under it.
CurFrame == IF define THEN Tos(st.frames) ELSE st.frm
CurBelow == IF define THEN Drop(st.frames, 1) ELSE st.frames

\* What an open region adds to the stack: [base] in its first block, [base] [if]
\* past its first #else; and the ifdef type of the frame above it.
Stacked(r) == IF r.result = Unknown THEN Append(r.below, r.base)
              ELSE Append(Append(r.below, r.base), r.result)
Tag(r)     == IF r.result = Unknown THEN "PP_IF" ELSE "PP_ELSE"

\* The frame the i-th region started from, and the stack below it; the current
\* frame is the one after all of them.
FrameAt(i) == IF i <= Len(regions) THEN regions[i].base ELSE CurFrame
BelowAt(i) == IF i <= Len(regions) THEN regions[i].below ELSE CurBelow

\* m_frames is, from the bottom, the frames of the open regions and nothing
\* else, whatever the order of directives: check() reads it by position (the
\* second frame from the top, twice without looking whether there is one) and
\* relies on the ifdef type of the current frame to know what lies below it.
FramesMatchRegions ==
  ~st.exited =>
    /\ st.pp_level = Len(regions)
    /\ \A i \in 1 .. Len(regions) + 1 :
         IF i = 1 THEN BelowAt(i) = <<>> /\ FrameAt(i).ifdef = "NONE"
         ELSE /\ BelowAt(i) = Stacked(regions[i - 1])
              /\ FrameAt(i).ifdef = Tag(regions[i - 1])

\* A region as ConditionalRegions has it.
Simple(r) == [base   |-> r.base.state,
              result |-> IF r.result = Unknown THEN Unknown ELSE r.result.state]
Forget(rs) == [i \in 1 .. Len(rs) |-> Simple(rs[i])]

\* The parse that goes on after a conditional is the one ConditionalRegions
\* promises, the '#' of every directive of one conditional gets the same level,
\* and the input is rejected exactly when it may be.
Abstract == INSTANCE ConditionalRegions
  WITH cur     <- st.frm.state,
       regions <- Forget(regions),
       saved   <- IF define THEN Tos(st.frames).state ELSE Unknown,
       mark    <- st.out_level,
       stopped <- st.exited,
       strict  <- st.strict
Transparent == Abstract!Spec
=============================================================================
