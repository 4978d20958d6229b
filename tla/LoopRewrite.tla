---------------------------- MODULE LoopRewrite ----------------------------
(***************************************************************************)
(* mod_infinite_loop (src/rewrite_infinite_loops.cpp): an infinite loop is *)
(* rewritten from one syntax to another, its tokens moved between the top  *)
(* and the bottom of the loop.  o.loop is the option, 1 to 5.              *)
(***************************************************************************)
EXTENDS ChunkSeq

DesiredType(o) == CASE o.loop = 1 -> "FOR" [] o.loop \in {2, 4} -> "WHILE" [] OTHER -> "WHILE_OF_DO"
DesiredCondition(o) == IF o.loop \in {2, 3} THEN "true" ELSE "1"

TypesAre(s, k, types) ==
  k + Len(types) - 1 <= Len(s) /\ \A i \in DOMAIN types : s[k + i - 1].type = types[i]

for_needs_rewrite(s, k, o) ==
  /\ DesiredType(o) # "FOR"
  /\ TypesAre(s, k, <<"FOR", "SPAREN_OPEN", "SEMICOLON", "SEMICOLON", "SPAREN_CLOSE">>)

\* Nothing but the tokens a loop needs: a comment among them stays where it is.
while_needs_rewrite(s, k, o) ==
  /\ At(s, k + 1).type = "SPAREN_OPEN"
  /\ At(s, k + 2).text \in {"true", "1"}
  /\ At(s, k + 3).type = "SPAREN_CLOSE"
  /\ s[k].type = "WHILE_OF_DO" => At(s, k + 4).type = "SEMICOLON"
  /\ s[k].type # DesiredType(o) \/ s[k + 2].text # DesiredCondition(o)

\* The code looks on for ever where no brace follows at all: only a loop in the body of a macro,
\* which gets no virtual braces, could have none.
find_start_brace(s, k) == IF IsBraceOpen(s[k]) THEN k ELSE GetNext(s, k, IsBraceOpen)

KeywordText == [DO |-> "do", WHILE |-> "while", WHILE_OF_DO |-> "while", FOR |-> "for"]

rewrite_loop_keyword(s, id, type) ==
  [s EXCEPT ![Pos(s, id)].type = type, ![Pos(s, id)].text = KeywordText[type]]

Moved(c, o) == [c EXCEPT !.parent = DesiredType(o)]

\* The condition in its desired form, twice for a for.
Condition(s, word, o) ==
  LET semicolon == [word EXCEPT !.type = "SEMICOLON", !.text = ";"]
  IN  IF DesiredType(o) = "FOR" THEN <<semicolon, [semicolon EXCEPT !.id = Fresh(s)]>>
      ELSE <<[word EXCEPT !.type = "WORD", !.text = DesiredCondition(o)]>>

Splice(s, chunks, dest) ==
  LET at == Pos(s, dest) IN SubSeq(s, 1, at) \o chunks \o SubSeq(s, at + 1, Len(s))

\* '(', a condition, ')' and perhaps a second ';' are at k; they go after the chunk dest.
rewrite_loop_condition(s, k, dest, o) ==
  LET second == IF s[k + 2].type = "SEMICOLON" THEN 1 ELSE 0
      gone   == {s[j].id : j \in k .. k + 2 + second}
  IN  Splice(SelectSeq(s, LAMBDA c : c.id \notin gone),
             <<Moved(s[k], o)>> \o Condition(s, Moved(s[k + 1], o), o) \o <<Moved(s[k + 2 + second], o)>>, dest)

SetParents(s, ids, parent) ==
  [i \in DOMAIN s |-> IF s[i].id \in ids THEN [s[i] EXCEPT !.parent = parent] ELSE s[i]]

-----------------------------------------------------------------------------
LoopEnd(s, k) == GetClosingParen(s, find_start_brace(s, k))

WhileOfDo(s, k) == GetNext(s, LoopEnd(s, k), NcNnl)

NeedsRewrite(s, k, while, o) ==
  \/ s[k].type = "DO" /\ At(s, while).type = "WHILE_OF_DO" /\ while_needs_rewrite(s, while, o)
  \/ s[k].type = "WHILE" /\ while_needs_rewrite(s, k, o)
  \/ s[k].type = "FOR" /\ for_needs_rewrite(s, k, o)

\* The loop at k is one that rewrite_infinite_loops() rewrites.
ToRewrite(s, k, o) == NeedsRewrite(s, k, WhileOfDo(s, k), o)

\* Only the keyword at k and its condition change.
InPlace(s, k, o) ==
  rewrite_loop_condition(rewrite_loop_keyword(s, s[k].id, DesiredType(o)), k + 1, s[k].id, o)

\* From do: the condition moves to the top, the while and the last semicolon go.
BottomToTop(s, k, while, o) ==
  Delete(Delete(rewrite_loop_condition(rewrite_loop_keyword(s, s[k].id, DesiredType(o)), while + 1, s[k].id, o),
                s[while].id),
         s[while + 4].id)

\* To do: the keyword at k becomes a do, its condition moves behind the new chunk while, and a semicolon
\* ends it.
EndWith(s, end) == CopyAndAddAfter(s, [s[end] EXCEPT !.type = "SEMICOLON", !.text = ";"], s[end].id)
MoveCondition(s, k, while, o) ==
  LET moved == rewrite_loop_condition(rewrite_loop_keyword(s, s[k].id, "DO"), k + 1, while, o)
  IN  EndWith(moved, Pos(moved, while) + 3)
\* Mutant: the copy keeps the type of the keyword.
AddWhile_copy(s, k, close, o) == MoveCondition(CopyAndAddAfter(s, s[k], close), k, Fresh(s), o)
AddWhile(s, k, close, o) ==
  MoveCondition(rewrite_loop_keyword(CopyAndAddAfter(s, s[k], close), Fresh(s), "WHILE_OF_DO"), k, Fresh(s), o)

\* The while is after the '}' close, on a line of its own after a virtual brace.
TopToBottom(s, k, close, o) ==
  AddWhile(IF close.type = "VBRACE_CLOSE" THEN newline_add_before(s, close.id) ELSE s, k, close.id, o)

Rewritten(s, k, end, while, o) ==
  CASE s[k].type = "DO" /\ DesiredType(o) = "WHILE_OF_DO" -> InPlace(s, while, o)
    [] s[k].type = "DO" /\ DesiredType(o) # "WHILE_OF_DO" -> BottomToTop(s, k, while, o)
    [] s[k].type # "DO" /\ DesiredType(o) = "WHILE_OF_DO" -> TopToBottom(s, k, s[end], o)
    [] OTHER                                              -> InPlace(s, k, o)

rewrite_loop(s, k, o) ==
  SetParents(Rewritten(s, k, LoopEnd(s, k), WhileOfDo(s, k), o),
             {s[find_start_brace(s, k)].id, s[LoopEnd(s, k)].id},
             IF DesiredType(o) = "WHILE_OF_DO" THEN "DO" ELSE DesiredType(o))
=============================================================================
