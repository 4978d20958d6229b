---------------------------- MODULE BraceCleanup ----------------------------
(***************************************************************************)
(* brace_cleanup() (src/tokenizer/brace_cleanup.cpp): one pass over the    *)
(* chunks of a C or C++ file that gives every chunk its level and its      *)
(* parent, and puts virtual braces around the bodies that have none.       *)
(*                                                                         *)
(* An action is one turn of the loop of brace_cleanup(), for a chunk that  *)
(* is parsed, laid out only, or the '#' of a directive.  The branches for  *)
(* Pawn, D, C#, Vala and Objective-C, namespaces, and the pointers from    *)
(* case, default and break to their switch are left out.  No directive has *)
(* a CT_PREPROC_BODY (#pragma, or one the tokenizer does not know): the    *)
(* branch of insert_vbrace() for one, which puts the brace before the      *)
(* directive, is left out.                                                 *)
(***************************************************************************)
EXTENDS ParsingFrames, SequencesExt

\* A set of [given, braced]: a list of chunks tokenize() may have produced, each as
\* [type, directive, in_preproc], and what the reference makes of it: its code
\* with virtual braces.
CONSTANT Inputs

\* The types of chunks tokenize() produces, as far as brace_cleanup() tells them
\* apart; all others are a WORD.
Types == {"WORD", "SEMICOLON", "NEWLINE", "COMMENT", "PREPROC", "MACRO",
          "PP_IF", "PP_ELSE", "PP_ENDIF", "PP_DEFINE", "PP_OTHER",
          "PAREN_OPEN", "PAREN_CLOSE", "BRACE_OPEN", "BRACE_CLOSE", "SQUARE_OPEN", "SQUARE_CLOSE", "COLON",
          "IF", "CONSTEXPR", "ELSE", "DO", "WHILE", "FOR", "SWITCH", "TRY", "CATCH", "FINALLY"}
Directives == {"NONE", "PP_IF", "PP_ELSE", "PP_ENDIF", "PP_DEFINE", "PP_OTHER"}

\* A source has no virtual braces.  A directive starts with its '#' and ends at the
\* newline of its line, and so a '#' is never part of the directive before it.
ASSUME InputsAssumption ==
  \A input \in Inputs :
    LET given == input.given
    IN  /\ given \in Seq([type : Types, directive : Directives, in_preproc : BOOLEAN])
        /\ \A i \in 1 .. Len(given) : given[i].type = "PREPROC" => given[i].in_preproc
        /\ \A i \in 2 .. Len(given) :
             /\ given[i - 1].in_preproc /\ ~given[i].in_preproc => given[i].type = "NEWLINE"
             /\ given[i].type = "PREPROC" => ~given[i - 1].in_preproc

VARIABLES
  st,      \* chunks, pc (an index), frm, frames and the rest of BraceState
  braced   \* history: what the reference makes of the input

vars == <<st, braced>>

-----------------------------------------------------------------------------
(* Chunks                                                                  *)

\* directive: what follows a '#' (CT_PP_IF, ...).  start is PCF_STMT_START.
Chunk(type, directive, in_preproc) ==
  [type |-> type, directive |-> directive, in_preproc |-> in_preproc, parent |-> "NONE",
   level |-> 0, brace_level |-> 0, pp_level |-> 0, start |-> FALSE, in_sparen |-> FALSE]

IsComment(c)   == c.type = "COMMENT"
IsLayout(c)    == c.type \in {"COMMENT", "NEWLINE"}
Closers        == {"PAREN_CLOSE", "SPAREN_CLOSE", "BRACE_CLOSE", "VBRACE_CLOSE", "SQUARE_CLOSE"}
BraceClosers   == {"BRACE_CLOSE", "VBRACE_CLOSE"}
NoChunk        == Chunk("NULL", "NONE", FALSE)

\* Mutant: the look ahead passes over directives.
NextNcNnlNpp(s) ==
  LET after == {i \in s.pc + 1 .. Len(s.chunks) :
                  ~IsLayout(s.chunks[i]) /\ s.chunks[i].type # "PREPROC"}
  IN  IF after = {} THEN NoChunk ELSE s.chunks[Min(after)]

\* GetNextNcNnl(), GetPrevNcNnl(): they do stop at a preprocessor chunk.
NextNcNnl(s) ==
  LET after == {i \in s.pc + 1 .. Len(s.chunks) : ~IsLayout(s.chunks[i])}
  IN  IF after = {} THEN NoChunk ELSE s.chunks[Min(after)]
PrevIndex(s) ==
  LET before == {i \in 1 .. s.pc - 1 : ~IsLayout(s.chunks[i])}
  IN  IF before = {} THEN 0 ELSE Max(before)
PrevNcNnl(s) == IF PrevIndex(s) = 0 THEN NoChunk ELSE s.chunks[PrevIndex(s)]

Here(s)         == s.chunks[s.pc]
SetHere(s, c)   == [s EXCEPT !.chunks[s.pc] = c]

-----------------------------------------------------------------------------
(* The paren stack of the current frame                                    *)

Bottom == [open |-> "EOF", stage |-> "NONE", parent |-> "NONE"]

\* ParsingFrame()
NewFrame == [stack |-> <<Bottom>>, paren_level |-> 0, brace_level |-> 0, sparen_count |-> 0,
             fresh |-> TRUE, ifdef |-> "NONE"]

DefineFrame == [NewFrame EXCEPT !.stack = <<Bottom, [Bottom EXCEPT !.open = "PP_DEFINE"]>>,
                                !.paren_level = 1, !.brace_level = 1]

Top(s)            == Last(s.frm.stack)
SetTop(s, e)      == [s EXCEPT !.frm.stack = Append(Front(s.frm.stack), e)]
SetStage(s, g)    == SetTop(s, [Top(s) EXCEPT !.stage = g])
Swap(s, open, g)  == SetTop(s, [Top(s) EXCEPT !.open = open, !.stage = g])
PushEntry(s, open, g, parent) ==
  [s EXCEPT !.frm.stack = Append(s.frm.stack, [open |-> open, stage |-> g, parent |-> parent])]
PopEntry(s) ==
  [s EXCEPT !.frm.stack = IF Len(s.frm.stack) = 1 THEN <<Bottom>> ELSE Front(s.frm.stack)]

\* stmt_count is 0, or not
Fresh(s, f)   == [s EXCEPT !.frm.fresh = f]
Deeper(s, by) == [s EXCEPT !.frm.paren_level = s.frm.paren_level + by]
DeeperBrace(s, by) == [s EXCEPT !.frm.brace_level = s.frm.brace_level + by]
LevelHere(s)  == SetHere(s, [Here(s) EXCEPT !.level = s.frm.paren_level,
                                            !.brace_level = s.frm.brace_level])
Return(s, r)  == [s EXCEPT !.result = r]

-----------------------------------------------------------------------------
(* Virtual braces                                                          *)

\* With the flags of chunk c.
VBrace(s, c, type) ==
  [Chunk(type, "NONE", c.in_preproc) EXCEPT
     !.parent = Top(s).open, !.level = s.frm.paren_level, !.brace_level = s.frm.brace_level,
     !.in_sparen = c.in_sparen]

\* insert_vbrace_close_after(chunk at index i)
InsertCloseAfter(s, i) ==
  [s EXCEPT !.chunks = InsertAt(s.chunks, i + 1, VBrace(s, s.chunks[i], "VBRACE_CLOSE"))]

\* Where insert_vbrace_open_before(pc) puts the brace: before the layout in
\* front of pc, but not into a directive, and one chunk later if a comment is
\* next to pc.
OpenPlace(s) ==
  LET p    == PrevIndex(s)
      q    == IF s.chunks[p].in_preproc
              THEN IF IsComment(s.chunks[p + 1])
                   THEN CHOOSE i \in p + 2 .. s.pc :
                          /\ ~IsComment(s.chunks[i])
                          /\ \A j \in p + 2 .. i - 1 : IsComment(s.chunks[j])
                   ELSE p + 1
              ELSE p
  IN  IF IsComment(s.chunks[s.pc - 1]) THEN q + 1 ELSE q

\* Mutant: the loop goes on with the virtual brace.
InsertOpenBeforeStays(s) ==
  LET place == OpenPlace(s)
  IN  [s EXCEPT !.chunks = InsertAt(s.chunks, place + 1, VBrace(s, Here(s), "VBRACE_OPEN"))]

\* The layout it passes is one level deeper, on whichever side of the brace it ends.
InsertOpenBefore(s) ==
  LET p      == PrevIndex(s)
      deeper == [i \in 1 .. Len(s.chunks) |->
                   IF p < i /\ i < s.pc
                   THEN [s.chunks[i] EXCEPT !.level = @ + 1, !.brace_level = @ + 1]
                   ELSE s.chunks[i]]
      place  == OpenPlace(s)
  IN  [s EXCEPT !.chunks = InsertAt(deeper, place + 1,
                             [VBrace(s, Here(s), "VBRACE_OPEN") EXCEPT !.pp_level = s.chunks[place].pp_level]),
                !.pc = s.pc + 1]

-----------------------------------------------------------------------------
(* The end of a statement.  result is what the function returns: is pc done? *)

\* The stage after a part of the statement, "CLOSE" at its end.
NextStage(entry, next) ==
  CASE entry.stage = "PAREN1"    -> "BRACE2"
    [] entry.stage = "BRACE2"    ->
         (CASE entry.open \in {"IF", "ELSEIF"} /\ next = "ELSE"                 -> "ELSE"
            [] entry.open \in {"TRY", "CATCH"} /\ next \in {"CATCH", "FINALLY"} -> "CATCH"
            [] OTHER                                                           -> "CLOSE")
    [] entry.stage = "BRACE_DO"  -> "WHILE"
    [] entry.stage = "WOD_PAREN" -> "WOD_SEMI"
    [] entry.stage = "WOD_SEMI"  -> "CLOSE"
    [] OTHER                     -> "PROBLEM"

\* The two functions call each other, and pop an entry each time, up to the first
\* one that remains: its statement is not at the end, and it is no virtual brace
\* in front of a chunk that is not consumed.
Remains(s, entry) ==
  /\ NextStage(entry, NextNcNnl(s).type) # "CLOSE"
  /\ s.consumed \/ entry.open # "VBRACE_OPEN"
Remaining(s) == Max({i \in DOMAIN s.frm.stack : Remains(s, s.frm.stack[i])})

\* What they do to that one: a virtual brace is closed after pc, a statement
\* goes on with its next part.
GoOn(s) ==
  LET stage == NextStage(Top(s), NextNcNnl(s).type)
  IN  CASE Top(s).open = "VBRACE_OPEN" -> Return(InsertCloseAfter(s, s.pc), FALSE)
        [] Top(s).open # "VBRACE_OPEN" /\ Top(s).stage = "NONE" -> Return(s, FALSE)
        [] Top(s).open # "VBRACE_OPEN" /\ Top(s).stage # "NONE" /\ stage = "PROBLEM" ->
             Return(Stop(s), TRUE)
        [] OTHER -> Return(SetStage(s, stage), FALSE)

\* pc is not consumed: put the closing braces of the entries before it, each
\* one level further out, and consume those.
VBracesBefore(s, entries) ==
  LET prev     == PrevIndex(s)
      out(i)   == DeeperBrace(Deeper(s, -i), -i)
      close(i) == [VBrace(out(i), s.chunks[prev], "VBRACE_CLOSE") EXCEPT !.parent = entries[i].parent]
  IN  LevelHere([out(Len(entries)) EXCEPT
        !.chunks = SubSeq(s.chunks, 1, prev) \o [i \in DOMAIN entries |-> close(i)]
                     \o SubSeq(s.chunks, prev + 1, Len(s.chunks)),
        !.pc = s.pc + Len(entries)])

CloseStatement(s) ==
  LET left    == [s EXCEPT !.frm.stack = SubSeq(s.frm.stack, 1, Remaining(s))]
      popped  == SubSeq(s.frm.stack, Remaining(s) + 1, Len(s.frm.stack))
      vbraces == Reverse(SelectSeq(popped, LAMBDA e : e.open = "VBRACE_OPEN"))
  IN  CASE s.consumed                      -> GoOn(Fresh(left, TRUE))
        [] ~s.consumed /\ vbraces = <<>>   -> GoOn(left)
        [] ~s.consumed /\ vbraces # <<>>   -> Return(GoOn(VBracesBefore(left, vbraces)), TRUE)

HandleComplexClose(s) ==
  IF NextStage(Top(s), NextNcNnl(s).type) = "CLOSE" THEN CloseStatement(PopEntry(s)) ELSE GoOn(s)

EndStatement(s) == IF Top(s).stage # "NONE" THEN HandleComplexClose(s) ELSE Return(s, FALSE)

-----------------------------------------------------------------------------
(* check_complex_statements()                                              *)

\* F(s), unless s is done.
Then(s, F(_)) == IF s.result \/ s.exited THEN s ELSE F(s)

OptionalParen(s) ==
  IF Top(s).stage # "OP_PAREN1" THEN s
  ELSE SetStage(s, IF Here(s).type = "PAREN_OPEN" THEN "PAREN1" ELSE "BRACE2")

\* A statement at this stage that does not go on with pc is closed, and so are
\* those around it.
CloseAll(s, stage) ==
  LET turns[n \in 0 .. Len(s.frm.stack)] ==
        IF n = 0 THEN s
        ELSE LET t == turns[n - 1]
             IN  IF Top(t).stage # stage THEN t ELSE Then(t, LAMBDA u : CloseStatement(PopEntry(u)))
  IN  turns[Len(s.frm.stack)]

\* The two loops for else after if, and catch or finally after try or catch.
AfterIf(s) ==
  CASE Top(s).stage # "ELSE"  -> Return(s, FALSE)
    [] Top(s).stage = "ELSE" /\ Here(s).type = "ELSE" -> Return(Swap(s, "ELSE", "ELSEIF"), TRUE)
    [] OTHER -> CloseAll(s, "ELSE")

AfterTry(s) ==
  CASE Top(s).stage # "CATCH" -> Return(s, FALSE)
    [] Top(s).stage = "CATCH" /\ Here(s).type = "CATCH" ->
         Return(Swap(s, "CATCH", "PAREN1"), TRUE)
    [] Top(s).stage = "CATCH" /\ Here(s).type = "FINALLY" ->
         Return(Swap(s, "FINALLY", "BRACE2"), TRUE)
    [] OTHER -> CloseAll(s, "CATCH")

\* 'else if' becomes one ELSEIF (indent_else_if is off).
AfterElse(s) ==
  IF Top(s).stage # "ELSEIF" THEN Return(s, FALSE)
  ELSE IF Here(s).type = "IF"
       THEN Return(Swap(SetHere(s, [Here(s) EXCEPT !.type = "ELSEIF"]), "ELSEIF", "PAREN1"), TRUE)
  ELSE Return(SetStage(s, "BRACE2"), FALSE)

AfterDo(s) ==
  CASE Top(s).stage # "WHILE" -> Return(s, FALSE)
    [] Top(s).stage = "WHILE" /\ Here(s).type = "WHILE" ->
         Return(Swap(SetHere(s, [Here(s) EXCEPT !.type = "WHILE_OF_DO"]),
                     "WHILE_OF_DO", "WOD_PAREN"), TRUE)
    [] OTHER -> Return(Stop(s), TRUE)

\* Mutant: a do needs no braces.
NeedsVBraceNotAfterDo(s) ==
  /\ Here(s).type # "BRACE_OPEN" /\ ~Here(s).in_preproc
  /\ Top(s).stage = "BRACE2"

\* Not in a preprocessor.
NeedsVBrace(s) ==
  /\ Here(s).type # "BRACE_OPEN" /\ ~Here(s).in_preproc
  /\ Top(s).stage \in {"BRACE2", "BRACE_DO"}

PushVBrace(s) ==
  PushEntry(DeeperBrace(Deeper(s, 1), 1), "VBRACE_OPEN", "NONE", Top(s).open)

\* Mark as a start of a statement.
StartHere(s) == Fresh(SetHere(s, [Here(s) EXCEPT !.start = TRUE]), FALSE)

\* Mutant: the chunk in the virtual brace keeps its level.
OpenVBraceKeepsLevel(s) ==
  IF NeedsVBrace(s) THEN StartHere(PushVBrace(InsertOpenBefore(s))) ELSE s

OpenVBrace(s) ==
  IF NeedsVBrace(s) THEN StartHere(LevelHere(PushVBrace(InsertOpenBefore(s)))) ELSE s

\* 'if constexpr' and 'else if constexpr'
Constexpr(s) ==
  Here(s).type = "CONSTEXPR" /\ Top(s).stage = "PAREN1" /\ Top(s).open \in {"IF", "ELSEIF"}

\* Verify the open parenthesis of a complex statement.
NeedParen(s) ==
  IF /\ Here(s).type # "PAREN_OPEN" /\ ~Constexpr(s)
     /\ Top(s).stage \in {"PAREN1", "WOD_PAREN"}
  THEN Return(Stop(s), TRUE) ELSE Return(s, FALSE)

CheckComplexStatements(s) ==
  LET Braces(t) == NeedParen(OpenVBrace(t))
  IN  IF Top(s).stage = "NONE" THEN Return(s, FALSE)
      ELSE Then(Then(Then(Then(AfterIf(OptionalParen(s)), AfterElse), AfterTry), AfterDo), Braces)

-----------------------------------------------------------------------------
(* parse_cleanup()                                                         *)

MarkStart(s) ==
  LET c == Here(s)
      start == s.frm.fresh /\ c.type \notin Closers \cup {"SEMICOLON"}
      in    == s.frm.sparen_count > 0
      stack == s.frm.stack
      for   == in /\ c.type = "SEMICOLON" /\ Len(stack) > 2 /\ Second(stack).open = "FOR"
      s1 == SetHere(s, [c EXCEPT !.start = start, !.in_sparen = in,
                                 !.parent = IF for THEN "FOR" ELSE @])
  IN  Fresh(s1, FALSE)

\* A semicolon ends the statement in a virtual brace.
EndVBrace(s) ==
  IF Top(s).open = "VBRACE_OPEN" /\ Here(s).type = "SEMICOLON"
  THEN CloseStatement([s EXCEPT !.consumed = TRUE]) ELSE s

Matching(open) == CASE open = "PAREN_OPEN"  -> "PAREN_CLOSE"
                    [] open = "SPAREN_OPEN" -> "SPAREN_CLOSE"
                    [] open = "BRACE_OPEN"  -> "BRACE_CLOSE"
                    [] open = "VBRACE_OPEN" -> "VBRACE_CLOSE"
                    [] open = "SQUARE_OPEN" -> "SQUARE_CLOSE"
                    [] OTHER                -> "NONE"

SParenClose(s) ==
  IF Here(s).type = "PAREN_CLOSE" /\ Top(s).open = "SPAREN_OPEN"
  THEN [SetHere(s, [Here(s) EXCEPT !.type = "SPAREN_CLOSE", !.in_sparen = FALSE])
          EXCEPT !.frm.sparen_count = s.frm.sparen_count - 1]
  ELSE s

\* Copy the parent, update the parenthesis and brace levels.
CloseLevels(s) ==
  LET brace == IF Here(s).type \in BraceClosers /\ s.frm.brace_level > 0 THEN -1 ELSE 0
  IN  LevelHere(DeeperBrace(Deeper(SetHere(s, [Here(s) EXCEPT !.parent = Top(s).parent]), -1), brace))

\* A closer that does not match ends the process, unless it is in a directive
\* or there is nothing to match.
CloseMatching(s) ==
  CASE Here(s).type = Matching(Top(s).open) ->
         EndStatement(PopEntry(CloseLevels([s EXCEPT !.consumed = TRUE])))
    [] Here(s).type # Matching(Top(s).open) /\ ~Here(s).in_preproc
         /\ Top(s).open \notin {"EOF", "PP_DEFINE"} -> Stop(s)
    [] OTHER -> s

CloseParen(s) == IF Here(s).type \in Closers THEN CloseMatching(SParenClose(s)) ELSE s

\* The semicolon after the while of a do.
EndWhileOfDo(s) ==
  IF Top(s).stage # "WOD_SEMI" \/ s.consumed THEN s
  ELSE IF Here(s).type = "SEMICOLON"
       THEN HandleComplexClose(SetHere([s EXCEPT !.consumed = TRUE],
                                       [Here(s) EXCEPT !.parent = "WHILE_OF_DO"]))
  ELSE Stop(s)

SParenKeywords == {"IF", "CONSTEXPR", "ELSEIF", "WHILE", "WHILE_OF_DO", "DO", "FOR", "SWITCH", "CATCH"}

PushOpen(s, type, parent) ==
  PushEntry(Deeper(SetHere(s, [Here(s) EXCEPT !.type = type, !.parent = parent]), 1),
            type, "NONE", parent)

Open(s) ==
  LET sparen == PrevNcNnl(s).type \in SParenKeywords
  IN  CASE Here(s).type = "PAREN_OPEN" /\ sparen ->
             [PushOpen(s, "SPAREN_OPEN", Top(s).open) EXCEPT
                !.frm.sparen_count = s.frm.sparen_count + 1]
        [] Here(s).type = "PAREN_OPEN" /\ ~sparen -> PushOpen(s, "PAREN_OPEN", "NONE")
        [] Here(s).type = "SQUARE_OPEN" -> PushOpen(s, "SQUARE_OPEN", "NONE")
        [] Here(s).type = "BRACE_OPEN" ->
             PushOpen(DeeperBrace(s, 1), "BRACE_OPEN",
                      IF Top(s).stage # "NONE" THEN Top(s).open ELSE "NONE")
        [] OTHER -> s

\* Is a while, that no do on the stack waits for, the while of a do?  The loop
\* that is to go back over the directive never runs: it asks for no chunk.
MaybeWhileOfDo(s) ==
  LET prev == PrevNcNnl(s)
  IN  prev.in_preproc /\ prev.type \in BraceClosers /\ prev.parent = "DO"

\* Create a stack entry for complex statements.
Keyword(s) ==
  LET c == Here(s)
      push(t, stage) == PushEntry(t, Here(t).type, stage, "NONE")
      wod == SetHere(s, [c EXCEPT !.type = "WHILE_OF_DO"])
  IN  CASE c.type = "DO"                            -> push(s, "BRACE_DO")
        [] c.type \in {"TRY", "FINALLY"}            -> push(s, "BRACE2")
        [] c.type = "WHILE" /\ MaybeWhileOfDo(s)    -> push(wod, "WOD_PAREN")
        [] c.type = "WHILE" /\ ~MaybeWhileOfDo(s)   -> push(s, "PAREN1")
        [] c.type \in {"IF", "ELSEIF", "SWITCH", "FOR"} -> push(s, "PAREN1")
        [] c.type = "CATCH"                         -> push(s, "OP_PAREN1")
        [] c.type = "ELSE"                          -> push(s, "ELSEIF")
        [] OTHER                                    -> s

\* Statements start after a brace, a '[', a ':', the '(' of a for, and after a ';'
\* that is not in parentheses.
NextStart(s) ==
  LET c == Here(s)
  IN  IF \/ c.type \in {"BRACE_OPEN", "SQUARE_OPEN", "COLON", "MACRO"} \cup BraceClosers
         \/ c.type = "SPAREN_OPEN" /\ c.parent = "FOR"
         \/ c.type = "SEMICOLON" /\ Top(s).open \notin {"PAREN_OPEN", "SPAREN_OPEN"}
      THEN Fresh(s, TRUE) ELSE s

ParseCleanup(s) ==
  LET begun == [MarkStart(s) EXCEPT !.consumed = FALSE, !.result = FALSE]
      Ends(t)   == Return(EndWhileOfDo(CloseParen(EndVBrace(t))), FALSE)
      Begins(t) == NextStart(Keyword(Open(t)))
  IN  Then(Then(CheckComplexStatements(begun), Ends), Begins)

-----------------------------------------------------------------------------
(* brace_cleanup()                                                         *)

Init ==
  \E input \in Inputs :
    /\ st = [chunks |-> [i \in DOMAIN input.given |->
                           LET c == input.given[i] IN Chunk(c.type, c.directive, c.in_preproc)],
             pc |-> 1, frm |-> NewFrame, frames |-> <<>>, pp_level |-> 0, out_level |-> 0,
             in_preproc |-> "NONE", consumed |-> FALSE, result |-> FALSE, exited |-> FALSE,
             strict |-> FALSE]
    /\ braced = input.braced

Running == ~st.exited /\ st.pc <= Len(st.chunks)

\* Mutant: only a #define ends.
LeavePreprocStuck(s) ==
  IF s.in_preproc # "PP_DEFINE" \/ Here(s).in_preproc THEN s
  ELSE [LeaveDefine(s) EXCEPT !.in_preproc = "NONE"]

\* Past the end of a directive: restore the frame a #define body interrupted.
LeavePreproc(s) ==
  IF s.in_preproc = "NONE" \/ Here(s).in_preproc THEN s
  ELSE [(IF s.in_preproc = "PP_DEFINE" THEN LeaveDefine(s) ELSE s) EXCEPT !.in_preproc = "NONE"]

\* Mutant: #else goes on with the frame of the #if block.
PreprocStartNoElse(s) ==
  LET s1 == [s EXCEPT !.in_preproc = Here(s).directive, !.out_level = s.pp_level]
  IN  CASE Here(s).directive = "PP_DEFINE" -> EnterDefine(s1, DefineFrame)
        [] Here(s).directive = "PP_IF"     -> CheckIf(s1)
        [] Here(s).directive = "PP_ENDIF"  -> CheckEndif(s1)
        [] OTHER                           -> s1

\* preproc_start()
PreprocStart(s) ==
  LET s1 == [s EXCEPT !.in_preproc = Here(s).directive, !.out_level = s.pp_level]
  IN  CASE Here(s).directive = "PP_DEFINE" -> EnterDefine(s1, DefineFrame)
        [] Here(s).directive = "PP_IF"     -> CheckIf(s1)
        [] Here(s).directive = "PP_ELSE"   -> CheckElse(s1)
        [] Here(s).directive = "PP_ENDIF"  -> CheckEndif(s1)
        [] OTHER                           -> s1

SetLevels(s, pp_level) ==
  LevelHere(SetHere(s, [Here(s) EXCEPT !.pp_level = pp_level]))

\* Everything is parsed that is in no directive, or in a #define.
Parse(s, pp_level) ==
  IF s.in_preproc \in {"NONE", "PP_DEFINE"}
  THEN ParseCleanup(SetLevels(s, pp_level)) ELSE SetLevels(s, pp_level)

\* F(s), unless the process has ended.
Alive(s, F(_)) == IF s.exited THEN s ELSE F(s)

\* To the next chunk.
Advance(s) == IF s.exited THEN s ELSE [s EXCEPT !.pc = s.pc + 1]

\* A comment or newline only gets its levels.
Layout ==
  /\ Running /\ IsLayout(Here(st))
  /\ st' = Advance(Alive(LeavePreproc(st), LAMBDA s : SetLevels(s, s.pp_level)))
  /\ UNCHANGED braced

\* The '#' of a directive; that of a #define is parsed with its body.
Preproc ==
  LET Directive(s) == Parse(s, s.out_level)
  IN  /\ Running /\ Here(st).type = "PREPROC"
      /\ st' = Advance(Alive(Alive(LeavePreproc(st), PreprocStart), Directive))
      /\ UNCHANGED braced

Token ==
  /\ Running /\ ~IsLayout(Here(st)) /\ Here(st).type # "PREPROC"
  /\ st' = Advance(Alive(LeavePreproc(st), LAMBDA s : Parse(s, s.pp_level)))
  /\ UNCHANGED braced

Next == Layout \/ Preproc \/ Token

Spec == Init /\ [][Next]_vars

-----------------------------------------------------------------------------
(* Properties                                                              *)

Finished == ~st.exited /\ st.pc > Len(st.chunks)

\* The code of the result, without layout, as the reference has it.
Code == SelectSeq(st.chunks, LAMBDA c : ~IsLayout(c))
AsReference(c) == [type |-> c.type, parent |-> c.parent, start |-> c.start, in_sparen |-> c.in_sparen]

IsDirective(c) == c.type = "PREPROC"

NotDirective(s) == SelectSeq(s, LAMBDA c : ~IsDirective(c))

AsReferences(s) == [i \in 1 .. Len(s) |-> AsReference(s[i])]

\* A simple conditional was put into the source; the reference is without it.
Interrupted == NotDirective(Code) # Code /\ NotDirective(braced) = braced

\* Every body without braces gets a pair of virtual ones, an else goes with the
\* if the grammar gives it to, every brace and parenthesis knows its keyword, and
\* exactly the first chunks of statements are marked: across vbraces that close
\* in a row, else if chains and the branches of conditionals.
Braced == Finished => Interrupted \/ AsReferences(Code) = braced

\* "a simple #if / #endif does not affect program flow": without the directives
\* the result is what the reference makes of the source without them.
FlowUnaffected == Finished => ~Interrupted \/ AsReferences(NotDirective(Code)) = braced

\* "Scan backwards to see if we find a brace/vbrace with the parent set to
\* CT_DO", "Find the chunk before the preprocessor": a while that follows the
\* body of a do, with directives in between, is the while of the do.
WhileOfDoFound ==
  Finished =>
    \A i \in 2 .. Len(Code) :
      LET before == {j \in 1 .. i - 1 : Code[j].type # "PREPROC"}
      IN  /\ Code[i].type = "WHILE" /\ Code[i - 1].type = "PREPROC" /\ before # {}
          => LET prev == Code[Max(before)] IN ~(prev.type \in BraceClosers /\ prev.parent = "DO")

\* The nesting of chunk c, after what comes before it: a branch of a conditional
\* starts from the nesting at the #if, what follows from that of the first
\* branch; a #define body is on its own.
Start == [paren |-> 0, brace |-> 0, open |-> <<>>, outside |-> <<>>, levels |-> <<>>]
Nest(n, c) ==
  LET m    == IF n.outside # <<>> /\ ~c.in_preproc
              THEN [n EXCEPT !.paren = n.outside[1], !.brace = n.outside[2], !.outside = <<>>] ELSE n
      here == <<m.paren, m.brace>>
      o    == m.open
      k    == CASE c.directive = "PP_DEFINE" ->
                     [m EXCEPT !.outside = here, !.paren = 1, !.brace = 1]
                [] c.directive = "PP_IF" -> [m EXCEPT !.open = Append(o, <<here>>)]
                [] c.directive = "PP_ELSE" ->
                     [m EXCEPT !.open = Append(Front(o), IF Len(Last(o)) = 1 THEN Append(Last(o), here) ELSE Last(o)),
                               !.paren = Last(o)[1][1], !.brace = Last(o)[1][2]]
                [] c.directive = "PP_ENDIF" ->
                     [m EXCEPT !.open = Front(o), !.paren = Last(Last(o))[1], !.brace = Last(Last(o))[2]]
                [] c.type \in Closers ->
                     [m EXCEPT !.paren = @ - 1, !.brace = @ - (IF c.type \in BraceClosers THEN 1 ELSE 0)]
                [] OTHER -> m
      next == [k EXCEPT !.levels = Append(@, <<k.paren, k.brace>>)]
  IN  IF c.type \in {"PAREN_OPEN", "SPAREN_OPEN", "BRACE_OPEN", "VBRACE_OPEN", "SQUARE_OPEN"}
      THEN [next EXCEPT !.paren = @ + 1,
                        !.brace = @ + (IF c.type \in {"BRACE_OPEN", "VBRACE_OPEN"} THEN 1 ELSE 0)]
      ELSE next

\* The levels of all chunks are their nesting in the braces, parentheses and square
\* brackets of the result, virtual braces included: the frame counts up and down in seven
\* places, and is copied and restored around directives.  At the end nothing is left on
\* either stack.
LevelsMatchNesting ==
  Finished => /\ [i \in 1 .. Len(Code) |-> <<Code[i].level, Code[i].brace_level>>]
                   = FoldLeft(Nest, Start, Code).levels
              /\ st.frames = <<>> /\ st.frm.stack = <<Bottom>>
              /\ st.frm.paren_level = 0 /\ st.frm.brace_level = 0 /\ st.frm.sparen_count = 0

\* A frame that waits for an else or a catch gets it: the look ahead when the
\* body is closed and the parse of the next chunk must agree, or the statements
\* around it stay open.
ElseExpected ==
  (Running /\ Top(st).stage \in {"ELSE", "CATCH"}) =>
    LET code == {i \in st.pc .. Len(st.chunks) : ~IsLayout(st.chunks[i])}
    IN  /\ code # {}
        /\ st.chunks[Min(code)].type \in
             (IF Top(st).stage = "ELSE" THEN {"ELSE"} ELSE {"CATCH", "FINALLY"})

\* No legal source ends the process: the frames of all its directives and the
\* stages of all its statements fit the chunks that come.
Accepted == ~st.exited

\* The loop comes to an end, although it goes on with the closing brace it has
\* put in, which may close another statement and put in one more: each turn leaves
\* less of the source to parse, or the paren stack shorter.
Unparsed(s) == Cardinality({i \in s.pc .. Len(s.chunks) : s.chunks[i].type # "VBRACE_CLOSE"})
Advances ==
  [][\/ st'.exited
     \/ Unparsed(st') < Unparsed(st)
     \/ /\ Unparsed(st') = Unparsed(st)
        /\ Len(st'.frm.stack) < Len(st.frm.stack)]_vars
=============================================================================
