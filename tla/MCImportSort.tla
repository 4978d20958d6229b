---------------------------- MODULE MCImportSort ----------------------------
(* Files of up to four lines for TLC. *)
EXTENDS ImportSort

CONSTANTS
  Family,  \* "includes" or "packages"
  Length   \* the number of lines

\* 1 and 2 start alike, 3 does not; 2 has the name of the file.
MCKind == (1 :> "a") @@ (2 :> "a") @@ (3 :> "b")
MCOwnName == {2}

Content(kind, text, comment) == [kind |-> kind, text |-> text, comment |-> comment]

Contents ==
  CASE Family = "includes" ->
         {Content("import", <<n>>, FALSE) : n \in 1 .. 3}
         \cup {Content("import", <<1>>, TRUE), Content("code", <<>>, FALSE)}
    [] Family = "packages" ->
         {Content("import", t, FALSE) : t \in {<<1>>, <<1, 2>>, <<1, 3>>, <<2>>}}

\* The newlines after each line, the last of which may be missing.
Newlines(n) == {nl \in [1 .. n -> 0 .. 2] : nl[n] < 2 /\ \A i \in 1 .. n - 1 : nl[i] > 0}

\* How many more lines the file had than newlines are left, before line 3.
NoGap(n) == [i \in 1 .. n |-> 0]
Gaps(n) == {[i \in 1 .. n |-> IF i < 3 THEN 0 ELSE d] :
              d \in IF Family = "includes" THEN {0, MaxGap, MaxLines} ELSE {0}}

File(contents, nl, gap) ==
  LET f == Numbered([i \in DOMAIN contents |->
             [kind |-> contents[i].kind, text |-> contents[i].text,
              comment |-> contents[i].comment, nl |-> nl[i], orig |-> 0]])
  IN  [i \in DOMAIN f |-> [f[i] EXCEPT !.orig = @ + gap[i]]]

\* The gap matters between two imports only.
MCInputs ==
  {File(t[1], t[2], t[3]) :
     t \in {t \in [1 .. Length -> Contents] \X Newlines(Length) \X Gaps(Length) :
              t[3] = NoGap(Length) \/ (t[1][2].kind = "import" /\ t[1][3].kind = "import")}}
=============================================================================
