------------------------------ MODULE Programs ------------------------------
(***************************************************************************)
(* Programs as uncrustify_start() leaves them: chunks with their types,    *)
(* parents and levels, and virtual braces (BraceCleanup) around the bodies *)
(* that have none.  A statement is the sequence of its chunks, at level 0. *)
(***************************************************************************)
EXTENDS ChunkSeq

C(type, text)  == Chunk(type, text, "NONE")
P(type, text, parent) == Chunk(type, text, parent)
Newline        == [C("NEWLINE", "\n") EXCEPT !.nl = 1]
Blank          == [Newline EXCEPT !.nl = 2]
CppComment     == C("COMMENT_CPP", "//")
CComment       == C("COMMENT", "/**/")
Semi           == C("SEMICOLON", ";")

Deeper(s) == [i \in DOMAIN s |-> [s[i] EXCEPT !.level = @ + 1]]

nl == <<Newline>>
x  == <<C("WORD", "x"), Semi>>
y  == <<C("WORD", "y"), Semi>>
v  == <<C("VAR", "int"), Semi>>
Empty  == <<Semi>>
Break  == <<C("BREAK", "break"), Semi>>
Return == <<C("RETURN", "return"), Semi>>
ReturnX == <<C("RETURN", "return"), C("WORD", "x"), Semi>>
Label  == <<C("LABEL", "label"), C("LABEL_COLON", ":")>>

\* A statement and a comment on its line; over lines of their own.
Commented(s)    == s \o <<CppComment>> \o nl
Lines(list)     == nl \o FlattenSeq([i \in DOMAIN list |-> list[i] \o nl])

-----------------------------------------------------------------------------
\* Bodies of keyword k; in with braces: what is between them.
Braces(k, s)    == <<P("BRACE_OPEN", "{", k)>> \o Deeper(s) \o <<P("BRACE_CLOSE", "}", k)>>
Virtual(k, s)   == <<P("VBRACE_OPEN", "", k)>> \o Deeper(s) \o <<P("VBRACE_CLOSE", "", k)>>
Block(s)        == Braces("NONE", s)

\* A body: its form and the statement.
WithBraces(s)    == [form |-> "braces", of |-> s]
WithoutBraces(s) == [form |-> "virtual", of |-> s]
BodyAs(k, b)     == IF b.form = "braces" THEN Braces(k, b.of) ELSE Virtual(k, b.of)

\* The parentheses of keyword k, over lines.
Paren(k, cond) == <<P("SPAREN_OPEN", "(", k)>> \o Deeper(cond) \o <<P("SPAREN_CLOSE", ")", k)>>
Cond  == <<C("WORD", "c")>>
Long  == <<C("WORD", "c"), Newline>>
One   == <<C("NUMBER", "1")>>
True  == <<C("WORD", "true")>>
ForSemi == P("SEMICOLON", ";", "FOR")

IfCond(cond, b)  == <<C("IF", "if")>> \o Paren("IF", cond) \o BodyAs("IF", b)
If(b)            == IfCond(Cond, b)
Else(b)          == <<C("ELSE", "else")>> \o BodyAs("ELSE", b)
ElseIf(b)        == <<C("ELSE", "else"), C("ELSEIF", "if")>> \o Paren("ELSEIF", Cond) \o BodyAs("ELSEIF", b)
While(cond, b)   == <<C("WHILE", "while")>> \o Paren("WHILE", cond) \o BodyAs("WHILE", b)
Forever(b)       == <<C("FOR", "for")>> \o Paren("FOR", <<ForSemi, ForSemi>>) \o BodyAs("FOR", b)
For(b)           == <<C("FOR", "for")>>
                    \o Paren("FOR", <<C("WORD", "i"), ForSemi, C("WORD", "i"), ForSemi>>) \o BodyAs("FOR", b)
Do(b, cond)      == <<C("DO", "do")>> \o BodyAs("DO", b) \o <<C("WHILE_OF_DO", "while")>>
                    \o Paren("WHILE_OF_DO", cond) \o <<P("SEMICOLON", ";", "WHILE_OF_DO")>>
Switch(s)        == <<C("SWITCH", "switch")>> \o Paren("SWITCH", Cond) \o nl \o Braces("SWITCH", s)
Case(s)          == <<P("CASE", "case", "SWITCH"), C("NUMBER", "1"), C("CASE_COLON", ":")>> \o s
Default(s)       == <<P("CASE", "default", "SWITCH"), C("CASE_COLON", ":")>> \o s
CaseBlock(s)     == Braces("CASE", s)

\* A definition of a macro, on a line of its own.
Macro(s) ==
  LET text == <<C("PREPROC", "#"), C("PP_DEFINE", "define"), C("MACRO", "M")>> \o s
  IN  [i \in DOMAIN text |-> [text[i] EXCEPT !.pp = TRUE, !.level = @ + 1]] \o nl

Fun(s) ==
  <<C("FUNC_DEF", "f"), P("FPAREN_OPEN", "(", "FUNC_DEF"), P("FPAREN_CLOSE", ")", "FUNC_DEF"), Newline>>
  \o Braces("FUNC_DEF", s) \o nl

-----------------------------------------------------------------------------
\* The file: every chunk with an id and its line.
File(s) ==
  [i \in DOMAIN s |-> [s[i] EXCEPT !.id = i, !.line = 1 + MapThenSumSet(LAMBDA j : s[j].nl, 1 .. i - 1)]]
=============================================================================
