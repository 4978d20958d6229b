------------------------------ MODULE Meaning ------------------------------
(***************************************************************************)
(* What the text of a program means: the reference the rewriting of braces, *)
(* loops, cases, semicolons and returns is checked against.  The text is   *)
(* read as a compiler reads it, without types, levels or virtual braces,   *)
(* and written down again in one form for all programs that do the same:   *)
(* with braces around every body and no others, one form of infinite loop, *)
(* no empty statements and no return at the end of a function.             *)
(***************************************************************************)
EXTENDS Integers, SequencesExt

\* Is there a chunk with that text in front of k on its line?
Behind(s, k, text) == \E i \in 1 .. k - 1 : s[i].text = text /\ \A j \in i .. k - 1 : s[j].text # "\n"

\* The tokens of a text; a // comment and a directive end with the line.
Tokens(s) ==
  LET words == {k \in DOMAIN s : s[k].text \notin {"", "\n", "//", "/**/"} /\ ~Behind(s, k, "//")}
      macro == {k \in words : s[k].text = "#" \/ Behind(s, k, "#")}
      texts(set) == LET order == SelectSeq([k \in DOMAIN s |-> k], LAMBDA k : k \in set)
                    IN  [i \in DOMAIN order |-> s[order[i]].text]
  IN  [code |-> texts(words \ macro), macros |-> texts(macro)]

-----------------------------------------------------------------------------
(* Statements.  A parser takes the tokens t from k on and returns the      *)
(* statements in their one form, and where they end; decl: is one of them  *)
(* a declaration?                                                          *)

Tok(t, k) == IF k <= Len(t) THEN t[k] ELSE "<end>"
Is(t, k, words) == \A i \in DOMAIN words : Tok(t, k + i - 1) = words[i]

Parsed(out, next) == [out |-> out, next |-> next, decl |-> FALSE]
Error(t)          == Parsed(<<"<error>">>, Len(t) + 1)

Names     == {"x", "y", "z", "return", "break"}
Infinite  == {"1", "true"}
Braced(out) == <<"{">> \o out \o <<"}">>

RECURSIVE Statement(_, _)
RECURSIVE Statements(_, _)

\* The statements of a body need no braces unless one is a declaration.
BodyOf(p) == Braced(p.out)

If(t, k) ==
  LET then == Statement(t, k + 4)
      else == Statement(t, then.next + 1)
      head == <<"if", Tok(t, k + 2)>> \o BodyOf(then)
  IN  IF ~Is(t, k + 1, <<"(">>) \/ Tok(t, k + 3) # ")" THEN Error(t)
      ELSE IF Tok(t, then.next) = "else" THEN Parsed(head \o <<"else">> \o BodyOf(else), else.next)
      ELSE Parsed(head, then.next)

While(t, k) ==
  LET body == Statement(t, k + 4)
      head == IF Tok(t, k + 2) \in Infinite THEN <<"loop">> ELSE <<"while", Tok(t, k + 2)>>
  IN  IF Tok(t, k + 1) # "(" \/ Tok(t, k + 3) # ")" THEN Error(t)
      ELSE Parsed(head \o BodyOf(body), body.next)

For(t, k) ==
  IF Is(t, k + 1, <<"(", ";", ";", ")">>)
  THEN LET body == Statement(t, k + 5) IN Parsed(<<"loop">> \o BodyOf(body), body.next)
  ELSE IF Is(t, k + 1, <<"(", "i", ";", "i", ";", ")">>)
  THEN LET body == Statement(t, k + 7) IN Parsed(<<"for">> \o BodyOf(body), body.next)
  ELSE Error(t)

Do(t, k) ==
  LET body == Statement(t, k + 1)
      w    == body.next
      cond == Tok(t, w + 2)
  IN  IF ~Is(t, w, <<"while", "(">>) \/ ~Is(t, w + 3, <<")", ";">>) THEN Error(t)
      ELSE IF cond \in Infinite THEN Parsed(<<"loop">> \o BodyOf(body), w + 5)
      ELSE Parsed(<<"do">> \o BodyOf(body) \o <<cond>>, w + 5)

Switch(t, k) ==
  LET body == Statement(t, k + 4)
  IN  IF Tok(t, k + 1) # "(" \/ Tok(t, k + 3) # ")" THEN Error(t)
      ELSE Parsed(<<"switch">> \o BodyOf(body), body.next)

\* A label or a case and the statement it belongs to.
Labelled(t, k, label) ==
  LET rest == Statement(t, k)
  IN  [rest EXCEPT !.out = label \o @]

Block(t, k) ==
  LET list == Statements(t, k + 1)
  IN  IF Tok(t, list.next) # "}" THEN Error(t)
      ELSE Parsed(IF list.decl THEN Braced(list.out) ELSE list.out, list.next + 1)

Statement(t, k) ==
  CASE Tok(t, k) = "{"      -> Block(t, k)
    [] Tok(t, k) = ";"      -> Parsed(<<>>, k + 1)
    [] Tok(t, k) = "if"     -> If(t, k)
    [] Tok(t, k) = "while"  -> While(t, k)
    [] Tok(t, k) = "for"    -> For(t, k)
    [] Tok(t, k) = "do"     -> Do(t, k)
    [] Tok(t, k) = "switch" -> Switch(t, k)
    [] Is(t, k, <<"case", "1", ":">>) -> Labelled(t, k + 3, <<"case">>)
    [] Is(t, k, <<"default", ":">>)   -> Labelled(t, k + 2, <<"default">>)
    [] Is(t, k, <<"label", ":">>)     -> Labelled(t, k + 2, <<"label">>)
    [] Is(t, k, <<"int", ";">>)       -> [Parsed(<<"int">>, k + 2) EXCEPT !.decl = TRUE]
    [] Is(t, k, <<"return", "x", ";">>) -> Parsed(<<"return x">>, k + 3)
    [] Tok(t, k) \in Names /\ Tok(t, k + 1) = ";" -> Parsed(<<Tok(t, k)>>, k + 2)
    [] OTHER -> Error(t)

Statements(t, k) ==
  IF Tok(t, k) \in {"}", "<end>"} THEN Parsed(<<>>, k)
  ELSE LET one  == Statement(t, k)
           rest == Statements(t, one.next)
       IN  [out |-> one.out \o rest.out, next |-> rest.next, decl |-> one.decl \/ rest.decl]

\* A return at the end of a function does nothing.
Function(t, k) ==
  LET list == Statements(t, k + 4)
      out  == IF list.out # <<>> /\ Last(list.out) = "return" THEN Front(list.out) ELSE list.out
  IN  IF ~Is(t, k, <<"f", "(", ")", "{">>) \/ Tok(t, list.next) # "}" THEN Error(t)
      ELSE Parsed(Braced(out), list.next + 1)

RECURSIVE Functions(_, _)
Functions(t, k) ==
  IF k > Len(t) THEN <<>> ELSE LET f == Function(t, k) IN f.out \o Functions(t, f.next)

\* What the chunks s are written out as, in its one form.
MeaningOf(s) ==
  LET r == Tokens(s) IN [functions |-> Functions(r.code, 1), macros |-> r.macros]
=============================================================================
