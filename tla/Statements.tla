----------------------------- MODULE Statements -----------------------------
(***************************************************************************)
(* The statements of C, and where their virtual braces belong: the         *)
(* reference BraceCleanup is checked against.  A statement is built from    *)
(* its parts together with what brace_cleanup() is to make of it.          *)
(*                                                                         *)
(*   in     its chunks                                                     *)
(*   out    the code with virtual braces, for the statement on its own     *)
(*   sort   "block", "if", "cond", "split", "after" or "plain"                               *)
(*   alt    of a block: what is between its braces; of an if: out when it  *)
(*          follows an else; of the others: their parts                    *)
(*   open   would an else after it belong to it?                           *)
(***************************************************************************)
EXTENDS Integers, SequencesExt

R(type, parent, start, in_sparen) ==
  [type |-> type, parent |-> parent, start |-> start, in_sparen |-> in_sparen]
Lexed(type, directive, in_preproc) ==
  [type |-> type, directive |-> directive, in_preproc |-> in_preproc]
C(type) == Lexed(type, "NONE", FALSE)
Cs(types) == [i \in 1 .. Len(types) |-> C(types[i])]

Plain(in, out, open) == [in |-> in, out |-> out, sort |-> "plain", alt |-> <<>>, open |-> open]

Newline == <<"NEWLINE">>
Directive(dir) == Cs(Newline) \o <<Lexed("PREPROC", dir, TRUE)>> \o Cs(Newline)
Sharp == <<R("PREPROC", "NONE", FALSE, FALSE)>>

-----------------------------------------------------------------------------
\* An expression statement, after some layout.
Simple(gap) ==
  Plain(Cs(gap) \o Cs(<<"WORD", "SEMICOLON">>),
        <<R("WORD", "NONE", TRUE, FALSE), R("SEMICOLON", "NONE", FALSE, FALSE)>>, FALSE)

\* a[i];
Index ==
  Plain(Cs(<<"WORD", "SQUARE_OPEN", "WORD", "SQUARE_CLOSE", "SEMICOLON">>),
        <<R("WORD", "NONE", TRUE, FALSE), R("SQUARE_OPEN", "NONE", FALSE, FALSE),
          R("WORD", "NONE", TRUE, FALSE), R("SQUARE_CLOSE", "NONE", FALSE, FALSE),
          R("SEMICOLON", "NONE", FALSE, FALSE)>>, FALSE)

\* A label and a statement that is no block.
Label(s) ==
  Plain(Cs(<<"WORD", "COLON">>) \o s.in,
        <<R("WORD", "NONE", TRUE, FALSE), R("COLON", "NONE", FALSE, FALSE)>> \o s.out, s.open)

\* f([a]() { s });
Lambda(s) ==
  LET head == <<"WORD", "PAREN_OPEN", "SQUARE_OPEN", "WORD", "SQUARE_CLOSE", "PAREN_OPEN", "PAREN_CLOSE", "BRACE_OPEN">>
      tail == <<"BRACE_CLOSE", "PAREN_CLOSE", "SEMICOLON">>
      out(types, starts) == [i \in DOMAIN types |-> R(types[i], "NONE", i \in starts, FALSE)]
  IN  Plain(Cs(head) \o s.in \o Cs(tail), out(head, {1, 4}) \o s.out \o out(tail, {}), FALSE)

Block(list) ==
  LET in    == FlattenSeq([i \in 1 .. Len(list) |-> list[i].in])
      inner == FlattenSeq([i \in 1 .. Len(list) |-> list[i].out])
  IN  [in |-> <<C("BRACE_OPEN")>> \o in \o <<C("BRACE_CLOSE")>>,
       out |-> <<R("BRACE_OPEN", "NONE", TRUE, FALSE)>> \o inner
               \o <<R("BRACE_CLOSE", "NONE", FALSE, FALSE)>>,
       sort |-> "block", alt |-> inner, open |-> FALSE]

\* Statement s as the body of keyword k.
RECURSIVE Body(_, _)
Body(k, s) ==
  CASE s.sort = "block" ->
         <<R("BRACE_OPEN", k, FALSE, FALSE)>> \o s.alt \o <<R("BRACE_CLOSE", k, FALSE, FALSE)>>
    [] s.sort = "if" /\ k = "ELSE" -> s.alt
    [] s.sort = "cond" -> Sharp \o Body(k, s.alt[1]) \o Sharp \o Body(k, s.alt[2]) \o Sharp
    [] s.sort = "split" ->
         LET open == <<R("VBRACE_OPEN", k, FALSE, FALSE)>>
         IN  Sharp \o open \o s.alt[1] \o Sharp \o open \o s.alt[2] \o Sharp \o s.alt[3]
             \o <<R("VBRACE_CLOSE", k, FALSE, FALSE)>>
    [] s.sort = "after" -> s.alt[1].out \o Body(k, s.alt[2])
    [] OTHER ->
         <<R("VBRACE_OPEN", k, FALSE, FALSE)>> \o s.out \o <<R("VBRACE_CLOSE", k, FALSE, FALSE)>>

\* The parentheses of keyword k.
Paren(k) ==
  <<R("SPAREN_OPEN", k, FALSE, FALSE)>>
  \o (IF k = "FOR" THEN <<R("WORD", "NONE", TRUE, TRUE), R("SEMICOLON", "FOR", FALSE, TRUE)>>
                   ELSE <<>>)
  \o <<R("WORD", "NONE", FALSE, TRUE), R("SPAREN_CLOSE", k, FALSE, FALSE)>>
ParenIn(k) ==
  Cs(IF k = "FOR" THEN <<"PAREN_OPEN", "WORD", "SEMICOLON", "WORD", "PAREN_CLOSE">>
                  ELSE <<"PAREN_OPEN", "WORD", "PAREN_CLOSE">>)

Loop(k, s) ==
  Plain(<<C(k)>> \o ParenIn(k) \o s.in, <<R(k, "NONE", TRUE, FALSE)>> \o Paren(k) \o Body(k, s), s.open)

Do(s) ==
  Plain(<<C("DO")>> \o s.in \o <<C("WHILE")>> \o ParenIn("WHILE") \o <<C("SEMICOLON")>>,
        <<R("DO", "NONE", TRUE, FALSE)>> \o Body("DO", s) \o <<R("WHILE_OF_DO", "NONE", TRUE, FALSE)>>
        \o Paren("WHILE_OF_DO") \o <<R("SEMICOLON", "WHILE_OF_DO", FALSE, FALSE)>>, FALSE)

\* A try block, and the keywords and blocks of its handlers.
Try(b, handlers) ==
  LET paren(k) == k = "CATCH"
      in(h)  == <<C(h[1])>> \o (IF paren(h[1]) THEN ParenIn(h[1]) ELSE <<>>) \o h[2].in
      out(h) == <<R(h[1], "NONE", TRUE, FALSE)>> \o (IF paren(h[1]) THEN Paren(h[1]) ELSE <<>>)
                \o Body(h[1], h[2])
  IN  Plain(<<C("TRY")>> \o b.in \o FlattenSeq([i \in 1 .. Len(handlers) |-> in(handlers[i])]),
            <<R("TRY", "NONE", TRUE, FALSE)>> \o Body("TRY", b)
            \o FlattenSeq([i \in 1 .. Len(handlers) |-> out(handlers[i])]), FALSE)

\* An if, or an else if: then the two words make one statement.
IfOut(k, start, s, else) ==
  <<R(k, "NONE", start, FALSE)>> \o Paren(k) \o Body(k, s) \o else
If(s) ==
  [in |-> <<C("IF")>> \o ParenIn("IF") \o s.in, out |-> IfOut("IF", TRUE, s, <<>>),
   sort |-> "if", alt |-> IfOut("ELSEIF", FALSE, s, <<>>), open |-> TRUE]
IfElse(s, e) ==
  LET else == <<R("ELSE", "NONE", TRUE, FALSE)>> \o Body("ELSE", e)
  IN  [in |-> <<C("IF")>> \o ParenIn("IF") \o s.in \o <<C("ELSE")>> \o e.in,
       out |-> IfOut("IF", TRUE, s, else), sort |-> "if",
       alt |-> IfOut("ELSEIF", FALSE, s, else), open |-> e.open]

\* The same with a constexpr after the if.
IfConstexpr(s, else) ==
  LET in   == <<C("IF"), C("CONSTEXPR")>> \o ParenIn("IF") \o s.in
      out(k, start) == <<R(k, "NONE", start, FALSE), R("CONSTEXPR", "NONE", FALSE, FALSE)>>
                       \o Paren(k) \o Body(k, s) \o else.out
  IN  [in |-> in \o else.in, out |-> out("IF", TRUE), sort |-> "if", alt |-> out("ELSEIF", FALSE),
       open |-> else.open]
NoElse  == [in |-> <<>>, out |-> <<>>, open |-> TRUE]
Else(e) == [in |-> <<C("ELSE")>> \o e.in, out |-> <<R("ELSE", "NONE", TRUE, FALSE)>> \o Body("ELSE", e),
            open |-> e.open]

-----------------------------------------------------------------------------
(* Directives                                                              *)

\* One statement or another.
Cond(s, e) ==
  [in |-> Directive("PP_IF") \o s.in \o Directive("PP_ELSE") \o e.in \o Directive("PP_ENDIF"),
   out |-> Sharp \o s.out \o Sharp \o e.out \o Sharp, sort |-> "cond", alt |-> <<s, e>>,
   open |-> TRUE]

\* An else in a conditional; not a body.
CondElse(s, e) ==
  Plain(If(s).in \o Directive("PP_IF") \o <<C("ELSE")>> \o e.in \o Directive("PP_ENDIF"),
        If(s).out \o Sharp \o <<R("ELSE", "NONE", TRUE, FALSE)>> \o Body("ELSE", e) \o Sharp, TRUE)

\* Two heads for one block: either may be in a virtual brace that ends after it.
\* Not after an else.
Split(k, l, s) ==
  LET head(t) == <<C(t)>> \o ParenIn(t) \o <<C("BRACE_OPEN")>>
      headOut(t) == <<R(t, "NONE", TRUE, FALSE)>> \o Paren(t) \o <<R("BRACE_OPEN", t, FALSE, FALSE)>>
      rest == s.out \o <<R("BRACE_CLOSE", k, FALSE, FALSE)>>
  IN  [in |-> Directive("PP_IF") \o head(k) \o Directive("PP_ELSE") \o head(l) \o Directive("PP_ENDIF")
              \o s.in \o <<C("BRACE_CLOSE")>>,
       out |-> Sharp \o headOut(k) \o Sharp \o headOut(l) \o Sharp \o rest,
       sort |-> "split", alt |-> <<headOut(k), headOut(l), rest>>, open |-> TRUE]

\* A macro and its body: no virtual braces, and no effect on what is around it.
Macro(body, bodyOut) ==
  Plain(Cs(Newline) \o <<Lexed("PREPROC", "PP_DEFINE", TRUE), Lexed("MACRO", "NONE", TRUE)>>
        \o [i \in 1 .. Len(body) |-> [body[i] EXCEPT !.in_preproc = TRUE]] \o Cs(Newline),
        <<R("PREPROC", "NONE", TRUE, FALSE), R("MACRO", "NONE", FALSE, FALSE)>> \o bodyOut, TRUE)

MacroIf == Macro(<<C("IF")>> \o ParenIn("IF") \o Simple(<<>>).in,
                 <<R("IF", "NONE", TRUE, FALSE)>> \o Paren("IF")
                 \o <<R("WORD", "NONE", FALSE, FALSE), R("SEMICOLON", "NONE", FALSE, FALSE)>>)
MacroDo == LET b == Block(<<Simple(<<>>)>>)
           IN  Macro(<<C("DO")>> \o b.in \o <<C("WHILE")>> \o ParenIn("WHILE"),
                     <<R("DO", "NONE", TRUE, FALSE)>> \o Body("DO", b)
                     \o <<R("WHILE_OF_DO", "NONE", TRUE, FALSE)>> \o Paren("WHILE_OF_DO"))
MacroOpen == Macro(Cs(<<"BRACE_OPEN", "WORD">>),
                   <<R("BRACE_OPEN", "NONE", TRUE, FALSE), R("WORD", "NONE", TRUE, FALSE)>>)

\* A macro in front of a statement.  The brace of a body comes after the macro.
After(macro, s) ==
  [in |-> macro.in \o s.in, out |-> macro.out \o s.out, sort |-> "after", alt |-> <<macro, s>>,
   open |-> s.open]
=============================================================================
