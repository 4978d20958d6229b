--------------------------- MODULE ParsingFrames ---------------------------
(***************************************************************************)
(* ParsingFrameStack (src/parsing_frame_stack.cpp): what the preprocessor  *)
(* directives do to the frame brace_cleanup() is parsing with.             *)
(*                                                                         *)
(* A state s is a record with at least the fields                          *)
(*   frm       the current ParsingFrame: at least [ifdef, brace_level]     *)
(*   frames    m_frames                                                    *)
(*   pp_level  BraceState::pp_level                                        *)
(*   out_level the level check() returns, for the '#' of the directive     *)
(*   exited    has exit(EX_SOFTWARE) been called?                          *)
(*   strict    is the option pp_unbalanced_if_action 2?                    *)
(* Every operator returns the next such state.                             *)
(***************************************************************************)
EXTENDS Integers, Sequences

Tos(seq)    == seq[Len(seq)]
Second(seq) == seq[Len(seq) - 1]
Drop(seq, n) == SubSeq(seq, 1, Len(seq) - n)

Push(s) == [s EXCEPT !.frames = Append(s.frames, s.frm)]

Pop(s) ==
  IF s.frames = <<>> THEN s
  ELSE LET t == [s EXCEPT !.frm = Tos(s.frames)] IN [t EXCEPT !.frames = Drop(s.frames, 1)]

\* The parse goes on with the frame frm; level is what check() returns.
Continue(s, frm, level) == LET t == [s EXCEPT !.frm = frm] IN [t EXCEPT !.out_level = level]

\* exit(EX_SOFTWARE): what the process has changed by then is gone with it.
Stop(s) == [s EXCEPT !.exited = TRUE]

\* A block that leaves another brace level than expected ends the process.
Balanced(s, level, expected, next) ==
  IF s.strict /\ level # expected THEN Stop(s) ELSE next

\* An #if pushes a copy of the current frame on the stack.
CheckIf(s) ==
  LET t == [Push(s) EXCEPT !.pp_level = s.pp_level + 1]
  IN  Continue(t, [s.frm EXCEPT !.ifdef = "PP_IF"], s.pp_level)

\* Mutant: every #else keeps the block that ends.
CheckElseKeepsAll(s) ==
  IF s.pp_level = 0 THEN Stop(s)
  ELSE LET kept == Push(s)
       IN  Continue(kept, [Second(kept.frames) EXCEPT !.ifdef = "PP_ELSE"], s.pp_level - 1)

\* The first #else or #elif keeps the frame of the #if block, the later ones
\* throw the block before them away; all continue from the frame before #if.
CheckElse(s) ==
  IF s.pp_level = 0 THEN Stop(s)
  ELSE LET first == s.frm.ifdef = "PP_IF"
           kept  == IF first THEN Push(s) ELSE s
           level == (IF first THEN Second(kept.frames) ELSE Tos(kept.frames)).brace_level
       IN  Balanced(s, s.frm.brace_level, level,
             Continue(kept, [Second(kept.frames) EXCEPT !.ifdef = "PP_ELSE"], s.pp_level - 1))

\* One conditional less: n frames are dropped.
Close(s, frm, n) ==
  LET t == [s EXCEPT !.frames = Drop(s.frames, n)]
  IN  Continue([t EXCEPT !.pp_level = s.pp_level - 1], frm, s.pp_level - 1)

\* Mutant: pp_level is counted down without a look at it.
CheckEndifUnguarded(s) ==
  CASE s.frm.ifdef = "PP_ELSE" ->
         Balanced(s, s.frm.brace_level, Tos(s.frames).brace_level,
                  Close(s, [Tos(s.frames) EXCEPT !.ifdef = Second(s.frames).ifdef], 2))
    [] s.frm.ifdef = "PP_IF" ->
         Balanced(s, s.frm.brace_level, Tos(s.frames).brace_level, Close(s, Tos(s.frames), 1))
    [] OTHER -> Close(s, s.frm, 0)

\* Mutant: the parse goes on from the #else block.
CheckEndifKeepsElse(s) ==
  IF s.pp_level = 0 THEN Stop(s)
  ELSE IF s.frm.ifdef = "PP_ELSE"
       THEN Close(s, [s.frm EXCEPT !.ifdef = Second(s.frames).ifdef], 2)
       ELSE Close(s, Tos(s.frames), 1)

\* #endif: [...] [base] [if]-[else] becomes [...]-[if], [...] [base]-[if]
\* becomes [...]-[base].
CheckEndif(s) ==
  IF s.pp_level = 0 THEN Stop(s)
  ELSE CASE s.frm.ifdef = "PP_ELSE" ->
              IF Len(s.frames) < 2 THEN Stop(s)
              ELSE Balanced(s, s.frm.brace_level, Tos(s.frames).brace_level,
                     Close(s, [Tos(s.frames) EXCEPT !.ifdef = Second(s.frames).ifdef], 2))
         [] s.frm.ifdef = "PP_IF" ->
              Balanced(s, s.frm.brace_level, Tos(s.frames).brace_level,
                       Close(s, Tos(s.frames), 1))
         [] OTHER -> Close(s, s.frm, 0)

\* preproc_start() on #define: a preproc body starts a new, blank frame.
EnterDefine(s, blank) == Continue(Push(s), blank, s.pp_level)

\* brace_cleanup() past the #define body: restore the frame.
LeaveDefine(s) == Balanced(s, s.frm.brace_level, 1, Pop(s))
=============================================================================
