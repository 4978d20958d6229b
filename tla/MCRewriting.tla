---------------------------- MODULE MCRewriting ----------------------------
(***************************************************************************)
(* The files and options Rewriting is checked with.  Every program of a    *)
(* family meets every record of options of the family.                     *)
(***************************************************************************)
EXTENDS Rewriting

I == INSTANCE Programs

CONSTANT Families

Nothing == [k \in Keywords |-> "ignore"]
Ignored == [loop |-> 0, chain |-> 0, only |-> FALSE, full |-> Nothing, nl |-> 0, mlcond |-> FALSE,
            else_if |-> "ignore", leave |-> FALSE, case |-> "ignore", brk |-> FALSE, ret |-> FALSE,
            semi |-> FALSE, empty |-> FALSE]
All(av) == [k \in Keywords |-> av]

Of(statements, opts) == {[files |-> {I!File(I!Fun(I!Lines(<<s>>))) : s \in statements}, options |-> opts]}

-----------------------------------------------------------------------------
(* Braces of ifs, else ifs, elses and loops                                *)

Leaf    == {I!WithoutBraces(I!x), I!WithBraces(I!x), I!WithBraces(I!x \o I!y)}
Layouts == {I!WithoutBraces(I!nl \o I!x), I!WithBraces(I!Lines(<<I!x>>)), I!WithBraces(I!nl \o I!Commented(I!x)),
            I!WithBraces(<<I!Blank>> \o I!x \o I!nl), I!WithBraces(<<>>), I!WithBraces(I!Block(I!x))}
InBraces(statements)   == {I!WithBraces(s) : s \in statements}
InVBraces(statements) == {I!WithoutBraces(s) : s \in statements}

Ifs    == {I!If(b) : b \in Leaf}
Repeats == {I!While(I!Cond, b) : b \in Leaf} \cup {I!Do(b, I!Cond) : b \in Leaf}
Closed == Repeats \cup {I!If(b) \o I!Else(I!WithoutBraces(I!y)) : b \in Leaf}
Else   == I!Else(I!WithoutBraces(I!y))

\* No statement that ends with an if without else in a loop or in an else if: see Dangling.
Chains ==
  {I!If(a) \o I!Else(b) : a, b \in Leaf \cup Layouts}
  \cup {I!If(a) \o I!ElseIf(b) \o I!Else(c) : a, b, c \in Leaf}
  \cup {I!If(a) \o I!ElseIf(b) : a, b \in Leaf}
  \cup {I!If(b) \o Else : b \in InBraces(Ifs \cup Closed) \cup InVBraces(Closed)}
  \cup {I!If(a) \o I!Else(b) : a \in Leaf, b \in InBraces(Ifs \cup Closed) \cup InVBraces(Repeats)}
  \cup {I!If(I!WithBraces(I!nl \o I!Commented(I!x))) \o I!nl \o I!Else(b) : b \in Leaf}
  \cup {I!If(I!WithoutBraces(I!nl \o I!x)) \o <<I!CppComment>> \o I!nl \o I!Else(b) : b \in Leaf}
  \cup {I!IfCond(I!Long, b) : b \in Leaf \cup InBraces(Ifs)}

Loops ==
  {I!While(I!Cond, b) : b \in Leaf \cup Layouts \cup InBraces(Ifs) \cup InVBraces(Ifs)}
  \cup {I!For(b) : b \in Leaf \cup Layouts \cup InBraces(Closed)}
  \cup {I!Do(b, I!Cond) : b \in Leaf \cup Layouts \cup InBraces(Ifs)}

Nested == {I!If(I!WithBraces(I!While(I!Cond, b))) \o Else : b \in InBraces(Ifs)}
          \cup {I!If(a) \o I!ElseIf(b) \o Else : a \in Leaf, b \in InBraces(Ifs)}

ChainOptions ==
  {[Ignored EXCEPT !.chain = n, !.only = b, !.nl = m] : n \in 1 .. 3, b \in BOOLEAN, m \in {0, 1}}
  \cup {[Ignored EXCEPT !.only = TRUE], [Ignored EXCEPT !.chain = 1, !.full = [All("add") EXCEPT !.IF = "ignore"]]}
FullOptions ==
  {[Ignored EXCEPT !.full = All(av), !.nl = m, !.else_if = e] :
     av \in {"add", "remove", "force"}, m \in {0, 1}, e \in {"ignore", "add"}}
  \cup {[Ignored EXCEPT !.full = All("remove"), !.mlcond = TRUE], [Ignored EXCEPT !.full = All("add"), !.leave = TRUE]}

BraceInputs ==
  Of(Chains \cup Loops, ChainOptions \cup FullOptions) \cup Of(Nested, FullOptions)

-----------------------------------------------------------------------------
(* Infinite loops; Macro: the body of a definition                         *)

LoopBodies == Leaf \cup {I!WithoutBraces(I!nl \o I!x), I!WithBraces(I!Lines(<<I!x>>)), I!WithBraces(<<>>),
                         I!WithoutBraces(I!Empty)} \cup InVBraces(Ifs) \cup InBraces(Ifs)
Endless(b) == {I!While(I!One, b), I!While(I!True, b), I!Forever(b), I!Do(b, I!One), I!Do(b, I!True)}
LoopInputs ==
  Of(UNION {Endless(b) : b \in LoopBodies}
     \cup UNION {{I!If(I!WithBraces(l)) \o Else, I!While(I!Cond, I!WithoutBraces(l))} :
                   l \in UNION {Endless(b) : b \in Leaf \cup InBraces(Ifs)}}
     \cup {I!While(I!True, I!WithoutBraces(l)) : l \in Endless(I!WithoutBraces(I!x))},
     {[Ignored EXCEPT !.loop = n] : n \in 1 .. 5})

-----------------------------------------------------------------------------
(* Cases                                                                   *)

CaseBodies == {I!x \o I!Break, I!nl \o I!x \o I!nl \o I!Break, I!Break,
               I!CaseBlock(I!x) \o I!Break, I!CaseBlock(I!v \o I!x) \o I!Break, <<>>, I!Label, I!Label \o I!x,
               I!CaseBlock(I!Lines(<<I!x, I!Break>>)), I!CaseBlock(I!Lines(<<I!x>>)) \o I!nl \o I!Break,
               I!nl \o I!Commented(I!x), I!nl \o I!x \o I!nl \o <<I!CppComment>>,
               I!If(I!WithBraces(I!x)) \o I!Break, I!CaseBlock(I!x) \o I!y,
               I!CaseBlock(I!Lines(<<I!x>>)) \o I!nl \o I!ReturnX,
               I!CaseBlock(I!Lines(<<I!x>>)) \o I!nl \o I!Return}
Switches == {I!Switch(I!nl \o I!Case(a) \o I!nl \o I!Default(b) \o I!nl) : a \in CaseBodies, b \in CaseBodies \ {<<>>, I!Label}}
CaseOptions ==
  {[Ignored EXCEPT !.case = av, !.brk = b, !.ret = r] : av \in {"ignore", "add", "remove"}, b, r \in BOOLEAN}
\* Nothing is on a line after the return.
LastLine == {I!File(I!Fun(I!nl \o I!Switch(I!Case(I!CaseBlock(I!Lines(<<I!x>>)) \o I!nl \o I!ReturnX))))}
CaseInputs == Of(Switches, CaseOptions \ {Ignored})
              \cup {[files |-> LastLine, options |-> {o \in CaseOptions : o.ret}]}

-----------------------------------------------------------------------------
(* Semicolons and returns                                                  *)

Scrubbed == {I!x \o I!Empty, I!Empty \o I!x, I!x \o I!Empty \o I!Empty, I!If(I!WithBraces(I!x)) \o I!Empty,
             I!If(I!WithBraces(I!Empty)) \o Else, I!Forever(I!WithoutBraces(I!x)) \o I!Empty,
             I!For(I!WithBraces(I!x)) \o I!Empty, I!While(I!Cond, I!WithBraces(I!x)) \o I!Empty,
             I!Block(I!x) \o I!Empty, I!Do(I!WithBraces(I!x), I!Cond) \o I!Empty,
             I!Switch(I!Case(I!x \o I!Break) \o I!Case(I!Empty)) \o I!Empty, I!x \o I!Return,
             I!x \o I!nl \o I!Return, I!If(I!WithBraces(I!Return)) \o I!x, I!If(I!WithoutBraces(I!Return)) \o I!x,
             I!x \o I!ReturnX, I!Return, I!While(I!Cond, I!WithBraces(I!Lines(<<I!x, I!Return>>)))}
ScrubInputs == Of(Scrubbed, {[Ignored EXCEPT !.semi = TRUE], [Ignored EXCEPT !.empty = TRUE],
                             [Ignored EXCEPT !.semi = TRUE, !.empty = TRUE, !.full = All("remove")]})

-----------------------------------------------------------------------------
(* All passes, one after the other                                         *)

OneCase(s, end) == I!Switch(I!nl \o I!Case(s) \o I!nl \o I!Case(I!y \o I!Break) \o end)
Mixed ==
  {I!While(I!True, b) : b \in InBraces({OneCase(I!If(c) \o I!Empty \o I!Break, I!nl) : c \in Leaf})}
  \cup {I!If(I!WithBraces(l)) \o Else : l \in Endless(I!WithBraces(I!x \o I!Empty))}
  \cup {I!Do(I!WithBraces(I!Lines(<<OneCase(I!CaseBlock(I!Lines(<<s>>)) \o I!nl \o I!Break, I!nl)>>)), I!One) :
          s \in {I!x, I!If(I!WithBraces(I!x \o I!Empty)), I!Forever(I!WithoutBraces(I!x))}}
  \cup {I!For(I!WithBraces(I!If(b) \o I!Else(c) \o I!Return)) \o I!nl \o I!Return : b \in Leaf, c \in Leaf}

EveryPass ==
  {[Ignored EXCEPT !.loop = n, !.chain = m, !.full = All(av), !.case = c, !.brk = TRUE, !.ret = TRUE, !.semi = TRUE,
                   !.empty = TRUE] : n \in {1, 2, 3}, m \in {0, 2}, av \in {"add", "remove"}, c \in {"add", "remove"}}

-----------------------------------------------------------------------------
(* What the passes are known to get wrong                                  *)

\* Braces that keep an else from the if inside of them.
Dangling == Of({I!If(a) \o I!ElseIf(b) \o Else : a \in Leaf, b \in InBraces(Ifs)}
               \cup {I!If(I!WithBraces(I!While(I!Cond, b))) \o Else : b \in InVBraces(Ifs)},
               {[Ignored EXCEPT !.chain = 1], [Ignored EXCEPT !.chain = 3]})

\* A comment on the line of the last statement of a case.
LineOfCase == Of({I!Switch(I!nl \o I!Case(I!x \o <<I!CComment>>) \o I!Case(I!y \o I!Break) \o I!nl)},
                 {[Ignored EXCEPT !.case = "add"]})

\* A loop without a body in a definition: its body may be where the macro is used.
OpenMacro == {[files |-> {I!File(I!Macro(<<I!C("WHILE", "while")>> \o I!Paren("WHILE", I!One) \o Front(I!x))
                                 \o I!Fun(I!Lines(<<I!y>>)))},
               options |-> {[Ignored EXCEPT !.loop = 3]}]}

-----------------------------------------------------------------------------
MCInputs ==
  UNION {CASE f = "braces" -> BraceInputs
           [] f = "loops"  -> LoopInputs
           [] f = "cases"  -> CaseInputs
           [] f = "scrub"  -> ScrubInputs
           [] f = "all"    -> Of(Mixed, EveryPass)
           [] f = "dangling"     -> Dangling
           [] f = "line of case" -> LineOfCase
           [] f = "open macro"   -> OpenMacro : f \in Families}
=============================================================================
