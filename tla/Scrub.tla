------------------------------- MODULE Scrub -------------------------------
(***************************************************************************)
(* mod_remove_extra_semicolon (src/semicolons.cpp) and                     *)
(* mod_remove_empty_return (src/remove_extra_returns.cpp).  The semicolons *)
(* of D and Java are left out.                                             *)
(***************************************************************************)
EXTENDS ChunkSeq

\* An initializer may stand in front of the '{', and a semicolon is needed after the '}'.
check_unknown_brace_close(s, brace) ==
  LET before == GetPrev(s, GetPrevType(s, brace, "BRACE_OPEN", s[brace].level), NcNnl)
  IN  /\ before # 0
      /\ s[before].type \notin {"ANGLE_CLOSE", "COND_COLON", "RETURN", "SQUARE_CLOSE", "TSQUARE", "TYPE",
                                "WORD", "PAREN_CLOSE", "SPAREN_CLOSE", "FPAREN_CLOSE"}

BlockParents == {"ELSE", "ELSEIF", "FOR", "FUNC_CLASS_DEF", "FUNC_DEF", "IF", "NAMESPACE", "SWITCH", "WHILE"}

CodeBlock(s, brace) == At(s, GetPrev(s, GetOpeningParen(s, brace), NcNnl)).type # "ASSIGN"

\* Mutant: the semicolons of a for are like others.
ExtraSemicolonFor(s, k) ==
  LET prev == GetPrev(s, k, NcNnl)
      type == At(s, prev).type
  IN  /\ s[k].type = "SEMICOLON" /\ s[k].parent # "TYPEDEF" /\ ~s[k].pp /\ prev # 0
      /\ \/ type = "BRACE_CLOSE" /\ s[prev].parent \in BlockParents /\ CodeBlock(s, prev)
         \/ type = "BRACE_CLOSE" /\ s[prev].parent = "NONE" /\ check_unknown_brace_close(s, prev)
         \/ type = "SEMICOLON"
         \/ type = "BRACE_OPEN"

ExtraSemicolon(s, k) ==
  LET prev == GetPrev(s, k, NcNnl)
      type == At(s, prev).type
  IN  /\ s[k].type = "SEMICOLON" /\ s[k].parent # "TYPEDEF" /\ ~s[k].pp /\ prev # 0
      /\ \/ type = "BRACE_CLOSE" /\ s[prev].parent \in BlockParents /\ CodeBlock(s, prev)
         \/ type = "BRACE_CLOSE" /\ s[prev].parent = "NONE" /\ check_unknown_brace_close(s, prev)
         \/ type = "SEMICOLON" /\ s[prev].parent # "FOR"
         \/ type = "BRACE_OPEN"

-----------------------------------------------------------------------------
\* A '}' at level 1 is that of a function in a class or of a block; if there is none
\* up to the end of the file, the next at level 0 counts.
ClosingBrace(s, k) ==
  LET inner == GetNextType(s, k, "BRACE_CLOSE", 1)
  IN  IF inner # 0 THEN inner ELSE GetNextType(s, k, "BRACE_CLOSE", 0)

ExtraReturn(s, k) ==
  /\ s[k].type = "RETURN" /\ ~s[k].pp
  /\ At(s, ClosingBrace(s, k)).parent = "FUNC_DEF"
  /\ s[k].level < 2
  /\ At(s, GetNext(s, k, NcNnl)).type = "SEMICOLON"

remove_extra_return(s, k) == Delete(Delete(s, s[GetNext(s, k, NcNnl)].id), s[k].id)
=============================================================================
