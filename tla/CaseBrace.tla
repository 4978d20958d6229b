---------------------------- MODULE CaseBrace ----------------------------
(***************************************************************************)
(* Braces of cases: mod_case_brace, mod_move_case_break and                *)
(* mod_move_case_return (src/braces.cpp,                                   *)
(* src/calculate_closing_brace_position.cpp).  A case whose last chunk is  *)
(* in a directive is left out.                                             *)
(***************************************************************************)
EXTENDS ChunkSeq

-----------------------------------------------------------------------------
(* mod_case_brace=remove                                                   *)

CaseClose(s, k) == GetNextPP(s, k, LAMBDA c : c.type = "BRACE_CLOSE" /\ c.level = s[k].level)

\* Between the braces at k and after them nothing needs the braces.
CaseBraceRemovable(s, k) ==
  LET close == CaseClose(s, k)
  IN  /\ s[k].type = "BRACE_OPEN" /\ s[k].parent = "CASE"
      /\ close # 0
      /\ At(s, GetNextPP(s, close, NcNnl)).type \in {"BREAK", "RETURN", "CASE", "GOTO", "BRACE_CLOSE"}
      \* VAR: a word with PCF_VAR_DEF
      /\ \A i \in k .. close : ~(s[i].type = "VAR" /\ s[i].level = s[k].level + 1)

\* Layout keeps its level.
mod_case_brace_remove(s, k) ==
  LET close == CaseClose(s, k)
      lower(i) == i \in k .. close - 1 /\ NcNnl(s[i]) /\ s[i].pp = s[k].pp
      t == [i \in DOMAIN s |-> IF lower(i) THEN [s[i] EXCEPT !.level = @ - 1] ELSE s[i]]
  IN  Delete(Delete(t, s[k].id), s[close].id)

-----------------------------------------------------------------------------
(* mod_case_brace=add                                                      *)

\* Is c the '}' of the switch of the case whose colon is at k?
ClosesSwitch(s, k, c) ==
  /\ c.type = "BRACE_CLOSE" /\ c.level = s[k].level - 1
  /\ \E case \in {GetPrevType(s, k, "CASE", s[k].level)} :
     \E switch \in {GetPrevType(s, case, "SWITCH", s[k].level - 1)} :
     \E open \in {GetNextType(s, switch, "BRACE_OPEN", At(s, switch).level)} :
       c.id = At(s, GetClosingParen(s, open)).id

\* The next case of the switch, or its end.
CaseEnd(s, k) ==
  GetNextPP(s, k, LAMBDA c : \/ c.type = "CASE" /\ c.level = s[k].level
                             \/ ClosesSwitch(s, k, c))

\* The colon at k is followed by statements and not by braces.
CaseBraceMissing(s, k) ==
  /\ s[k].type = "CASE_COLON"
  /\ CaseEnd(s, k) # 0
  /\ s[GetNextPP(s, k, NcNnl)].type \notin {"BRACE_OPEN", "BRACE_CLOSE", "CASE"}

\* Looking back from the end of the case for its last semicolon or brace: 0 is fatal.
LastOfCase(s, k) ==
  Max({0} \cup {i \in k + 1 .. CaseEnd(s, k) - 1 :
                  s[i].level = s[k].level /\ (IsBraceClose(s[i]) \/ s[i].type = "SEMICOLON")})

CommentsOfCase(s, k, found, end) == {i \in found + 1 .. end - 1 : IsComment(s[i]) /\ s[i].level = s[k].level}

BehindLineComment(s, k) == IF s[k].type = "COMMENT_CPP" THEN k + 1 ELSE k

\* Mutant: the comment behind the statement may be a // comment.
calculate_closing_brace_position_comment(s, k, found, end) ==
  IF CommentsOfCase(s, k, found, end) = {} THEN GetPrev(s, end, NcNnl)
  ELSE Min(CommentsOfCase(s, k, found, end))

\* What the '}' of the case at k goes after; found ends its last statement, end the case.  The
\* comment nearest to the statement counts.
calculate_closing_brace_position(s, k, found, end) ==
  LET comments == CommentsOfCase(s, k, found, end)
      comment  == Min(comments)
  IN  BehindLineComment(s,
        CASE comments = {}                   -> GetPrev(s, end, NcNnl)
          [] s[comment].line # s[found].line -> GetPrev(s, end, NcNnl)
          [] s[k].line = s[comment].line     -> comment + 1
          [] OTHER                           -> comment)

NewBrace(s, k, end) ==
  [Chunk("BRACE_OPEN", "{", "CASE") EXCEPT
    !.id = Fresh(s), !.line = s[k].line, !.level = s[k].level, !.pp = s[end].pp]

\* Mutant: the levels between the braces are left alone.
Enclose_level(s, k, last, open) ==
  SubSeq(s, 1, k) \o <<open>> \o SubSeq(s, k + 1, last)
  \o <<[open EXCEPT !.type = "BRACE_CLOSE", !.text = "}", !.id = @ + 1, !.line = s[last].line]>>
  \o SubSeq(s, last + 1, Len(s))

\* A pair of braces like open around what is after k up to last.
Enclose(s, k, last, open) ==
  SubSeq(s, 1, k) \o <<open>>
  \o [i \in 1 .. last - k |-> IF s[k + i].pp = open.pp THEN [s[k + i] EXCEPT !.level = @ + 1] ELSE s[k + i]]
  \o <<[open EXCEPT !.type = "BRACE_CLOSE", !.text = "}", !.id = @ + 1, !.line = s[last].line]>>
  \o SubSeq(s, last + 1, Len(s))

EncloseUpTo(s, k, end) ==
  Enclose(s, k, calculate_closing_brace_position(s, k, LastOfCase(s, k), end), NewBrace(s, k, end))

mod_case_brace_add(s, k) == EncloseUpTo(s, k, CaseEnd(s, k))

-----------------------------------------------------------------------------
(* mod_move_case_break, mod_move_case_return                               *)

\* A word after the '}' of a case, each on a line of its own.
AfterCaseBrace(s, k, type) ==
  LET brace == GetPrev(s, k, NcNnl)
  IN  /\ s[k].type = type
      /\ At(s, brace).type = "BRACE_CLOSE" /\ s[brace].parent = "CASE"
      /\ IsNewline(s[k - 1]) /\ IsNewline(s[brace - 1])

move_case_break(s, k) == SwapLines(s, GetPrev(s, k, NcNnl), k)

\* What follows the line on which the return statement at k ends: 0 if the statement does not
\* end before the case does, or nothing follows.  The search in the code does not end at the end
\* of the file; after the return of a case there is always the '}' of its switch.
AfterReturn(s, k) ==
  LET end == GetNext(s, k, LAMBDA c : c.type \in {"SEMICOLON", "CASE", "BRACE_CLOSE"})
  IN  IF At(s, end).type = "SEMICOLON" THEN GetNext(s, GetNext(s, end, Nl), NcNnl) ELSE 0

RECURSIVE LinesBefore(_, _, _)
LinesBefore(s, brace, stop) ==
  LET curr == GetNext(s, Pos(s, brace), NcNnl)
  IN  IF s[curr].id = stop THEN s ELSE LinesBefore(SwapLines(s, Pos(s, brace), curr), brace, stop)

move_case_return(s, k) == LinesBefore(s, s[GetPrev(s, k, NcNnl)].id, s[AfterReturn(s, k)].id)
=============================================================================
