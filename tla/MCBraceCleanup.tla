--------------------------- MODULE MCBraceCleanup ---------------------------
(* Instances of BraceCleanup for TLC. *)
EXTENDS BraceCleanup, Statements

CONSTANT Family    \* which of the sets of inputs

AsInput(s) == [given |-> s.in, braced |-> s.out]
Closed(S)  == {s \in S : ~s.open}

\* One more level of nesting.
Nested(S) ==
  S \cup {If(s) : s \in S} \cup {IfElse(s, e) : s \in Closed(S), e \in S}
    \cup {Do(s) : s \in S} \cup {Loop("WHILE", s) : s \in S}
    \cup {Block(<<s>>) : s \in S}

x       == Simple(<<>>)
b       == Block(<<x>>)
Layouts == {x, Simple(<<"NEWLINE">>), Simple(<<"COMMENT", "NEWLINE">>), Simple(<<"NEWLINE", "COMMENT">>)}
Leaves  == Layouts \cup {Block(<<>>), Block(<<x, x>>), Loop("FOR", x), Loop("SWITCH", b),
                         Try(b, <<<<"CATCH", b>>, <<"CATCH", b>>>>), Try(b, <<<<"FINALLY", b>>>>),
                         Index, Label(x), Label(If(x)), Lambda(x), Lambda(If(x)),
                         IfConstexpr(x, NoElse), IfConstexpr(x, Else(IfConstexpr(b, Else(x))))}
Deep    == Nested(Nested({x}))
Splits  == {Split("IF", "WHILE", x), Split("WHILE", "IF", If(x))}

\* A simple #if and #endif in front of the chunks of these types.
Interrupt(s, types) ==
  LET conditional == Directive("PP_IF") \o Directive("PP_ENDIF")
  IN  {[given  |-> SubSeq(s.in, 1, i - 1) \o conditional \o SubSeq(s.in, i, Len(s.in)),
        braced |-> s.out] : i \in {j \in 2 .. Len(s.in) : s.in[j].type \in types}}

\* Every leaf as every body; bodies in bodies; and lists of two, in which the
\* first statement must end where it ends.
PlainInputs ==
  {AsInput(s) : s \in Nested(Leaves) \cup Nested(Deep)}
    \cup {AsInput(Block(<<s, e>>)) : s \in Nested({x, b}), e \in {x, If(x)}}

\* Conditionals and macros as every body.
PreprocInputs ==
  LET conds == {Cond(s, e) : s, e \in Nested({x}) \cup {Cond(x, x)}}
      lists == {Block(<<Split("IF", "WHILE", x)>>), Block(<<Cond(If(x), Loop("FOR", x)), x>>),
                Block(<<CondElse(x, x), x>>), Block(<<CondElse(Do(x), If(x))>>),
                Block(<<MacroIf, x>>), Block(<<If(x), MacroDo, If(x)>>), Block(<<MacroOpen, x>>)}
      macros == {After(m, s) : m \in {MacroIf, MacroDo, MacroOpen},
                               s \in {x, Simple(<<"NEWLINE">>)}}
  IN  {AsInput(s) : s \in Nested(conds \cup lists \cup macros \cup {x}) \cup Splits
                            \cup {If(s) : s \in Splits} \cup {Do(s) : s \in Splits}}

\* Everywhere but in front of an else or a parenthesis.
SimpleInputs ==
  UNION {Interrupt(s, {"IF", "DO", "WHILE", "FOR", "SWITCH", "TRY", "WORD", "SEMICOLON",
                       "BRACE_OPEN", "BRACE_CLOSE"}) : s \in Nested(Leaves) \cup Deep}

MCInputs ==
  CASE Family = "all"  -> PlainInputs \cup PreprocInputs \cup SimpleInputs
    [] Family = "else" -> UNION {Interrupt(s, {"ELSE"}) : s \in Deep}
    [] Family = "do" ->
         \* A do statement without its while, in a conditional.
         {[given |-> Directive("PP_IF") \o <<C("DO")>> \o s.in \o Directive("PP_ENDIF")
                     \o <<C("WHILE")>> \o ParenIn("WHILE") \o <<C("SEMICOLON")>>,
           braced |-> <<>>] : s \in {x, b}}
=============================================================================
