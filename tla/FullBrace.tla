----------------------------- MODULE FullBrace -----------------------------
(***************************************************************************)
(* The mod_full_brace_* options (src/braces.cpp): braces around a single   *)
(* statement are added and removed by exchanging real and virtual braces.  *)
(* s is the chunk list, k a position, o the options:                       *)
(*                                                                         *)
(*   o.chain, o.only    mod_full_brace_if_chain, mod_full_brace_if_chain_only *)
(*   o.full[keyword]    mod_full_brace_if, _do, _for, _while               *)
(*   o.nl, o.mlcond     mod_full_brace_nl, mod_full_brace_nl_block_rem_mlcond *)
(*   o.else_if          nl_else_if                                         *)
(*   o.leave            nl_if_leave_one_liners                             *)
(***************************************************************************)
EXTENDS ChunkSeq

Adds(av)    == av \in {"add", "force"}      \* av & IARF_ADD
Removes(av) == av \in {"remove", "force"}   \* av & IARF_REMOVE

Newlines(s, body) == MapThenSumSet(LAMBDA i : s[i].nl, ToSet(body))

\* The option for the braces of keyword parent.
FullOption(o, parent) ==
  CASE parent \in {"IF", "ELSE", "ELSEIF"}   -> o.full.IF
    [] parent \in {"DO", "FOR", "WHILE"}     -> o.full[parent]
    [] OTHER                                 -> "ignore"

-----------------------------------------------------------------------------
(* What may be converted                                                   *)

paren_multiline_before_brace(s, k) ==
  LET close == GetPrevType(s, k, "SPAREN_CLOSE", s[k].level)
      open  == GetOpeningParen(s, close)
  IN  /\ s[k].type \in {"BRACE_OPEN", "BRACE_CLOSE"}
      /\ s[k].parent \in {"IF", "ELSEIF", "FOR", "WHILE"}
      /\ close # 0 /\ open # 0
      /\ \E j \in open .. close : IsNewline(s[j])

\* Is what is in the braces at k, the positions in body, at most one statement?  Every word that
\* starts one counts, and a semicolon has to be the end.
OneStatement(s, k, body, starts) ==
  LET top == {i \in DOMAIN body : s[body[i]].level = s[k].level + 1 /\ ~IsNewline(s[body[i]])}
  IN  /\ \A i \in top : s[body[i]].type # "ELSE"
      /\ \A i, j \in top : s[body[i]].type \in starts /\ s[body[j]].type \in starts => i = j
      /\ \A i, j \in top : s[body[i]].type = "SEMICOLON" => j <= i

FewNewlines(s, body, o) == o.nl > 0 => Newlines(s, body) <= o.nl

Starts == {"SEMICOLON", "IF", "ELSEIF", "FOR", "DO", "WHILE"}

Positions(s, from, to, Wanted(_)) == SelectSeq([i \in 1 .. to - from + 1 |-> from + i - 1], LAMBDA i : Wanted(s[i]))

\* Mutant: there may be an else after the block.
can_remove_braces_else(s, k, o) ==
  LET end  == GetNext(s, k, LAMBDA c : Nc(c) /\ c.level <= s[k].level)
      body == Positions(s, k + 1, end - 1, Nc)
  IN  /\ end # 0
      /\ ~s[k].pp
      /\ At(s, GetNextPP(s, k, NcNnl)).type # "BRACE_CLOSE"
      /\ \A i \in DOMAIN body : ~s[body[i]].pp
      /\ FewNewlines(s, body, o)
      /\ OneStatement(s, k, body, Starts)
      /\ \A i \in DOMAIN body : s[body[i]].type = "BRACE_CLOSE" => s[body[i]].level > s[k].level + 1
      /\ s[end].type = "BRACE_CLOSE"

can_remove_braces(s, k, o) ==
  LET end  == GetNext(s, k, LAMBDA c : Nc(c) /\ c.level <= s[k].level)
      body == Positions(s, k + 1, end - 1, Nc)
      last == At(s, GetPrevPP(s, end, NcNnl))
  IN  /\ end # 0
      /\ ~s[k].pp
      /\ At(s, GetNextPP(s, k, NcNnl)).type # "BRACE_CLOSE"
      /\ \A i \in DOMAIN body : ~s[body[i]].pp
      /\ FewNewlines(s, body, o)
      /\ OneStatement(s, k, body, Starts)
      \* a block of its own counts as a statement that has to be the last, and is not
      /\ \A i \in DOMAIN body : s[body[i]].type = "BRACE_CLOSE" => s[body[i]].level > s[k].level + 1
      /\ s[end].type = "BRACE_CLOSE"
      /\ ~ /\ s[end].parent = "IF"
           /\ At(s, GetNextPP(s, end, NcNnl)).type = "ELSE"
           /\ IsBraceClose(last) /\ last.parent = "IF"

should_add_braces(s, k, o) ==
  LET end == GetNextPP(s, k, LAMBDA c : Nc(c) /\ c.level <= s[k].level)
  IN  /\ o.nl > 0 /\ end # 0
      /\ Newlines(s, Positions(s, k + 1, end - 1, LAMBDA c : ~c.pp)) > o.nl

-----------------------------------------------------------------------------
(* Conversions; the chunk is given by its id                               *)

convert_brace(s, id) ==
  LET k    == Pos(s, id)
      open == s[k].type = "BRACE_OPEN"
      t    == [s EXCEPT ![k].type = IF open THEN "VBRACE_OPEN" ELSE "VBRACE_CLOSE", ![k].text = ""]
      n    == IF open THEN k - 1 ELSE GetNext(t, k, Every)
      paired == GetOpeningParen(t, k)
      start  == IF paired # 0 THEN paired ELSE GetPrevType(t, k, "BRACE_OPEN", t[k].level)
  IN  IF s[k].keep \/ IsVBrace(s[k]) THEN s
      ELSE IF ~IsNewline(At(t, n)) THEN t
      ELSE IF t[n].nl > 1 THEN [t EXCEPT ![n].nl = IF t[k].one THEN @ ELSE @ - 1]
      ELSE IF (open \/ At(t, start).line < t[n].line) /\ SafeToDeleteNl(t, n) THEN Delete(t, t[n].id)
      ELSE t

convert_vbrace_open(s, id) ==
  LET k == Pos(s, id)
      t == [s EXCEPT ![k].type = "BRACE_OPEN", ![k].text = "{"]
  IN  IF At(s, k + 1).type # "PREPROC" THEN t
      ELSE newline_add_after(MoveAfter(t, id, t[GetNextPP(t, k, Every)].id), id)

\* Mutant: the brace comes behind the comment, the newline does not matter.
convert_vbrace_close_comment(s, id, o) ==
  LET k == Pos(s, id)
      t == [s EXCEPT ![k].type = "BRACE_CLOSE", ![k].text = "}"]
  IN  IF IsComment(At(s, k + 1)) THEN MoveAfter(t, id, t[k + 1].id) ELSE t

\* A comment behind the statement stays on its line, in front of the brace.
convert_vbrace_close(s, id, o) ==
  LET k == Pos(s, id)
      t == [s EXCEPT ![k].type = "BRACE_CLOSE", ![k].text = "}"]
  IN  IF /\ IsComment(At(t, GetNext(t, k, Every))) /\ (~t[k].one \/ ~o.leave)
         /\ IsNewline(At(t, GetNext(t, k + 1, Every)))
      THEN newline_add_after(MoveAfter(t, id, t[k + 2].id), id)
      ELSE t

convert_vbrace(s, id, o) ==
  CASE s[Pos(s, id)].type = "VBRACE_OPEN"  -> convert_vbrace_open(s, id)
    [] s[Pos(s, id)].type = "VBRACE_CLOSE" -> convert_vbrace_close(s, id, o)
    [] OTHER -> s

-----------------------------------------------------------------------------
(* The passes over the braces                                              *)

\* The first part of do_braces(): a pair of braces on one line, and all between them.
MarkOneLiners(s) ==
  LET closes(k, c) == c.type = Partner[s[k].type] /\ c.level = s[k].level
      scanned(k) == GetNext(s, k, LAMBDA c : Nc(c) /\ (IsNewline(c) \/ closes(k, c)))
      pairs == {<<k, scanned(k)>> : k \in {i \in DOMAIN s : IsBraceOpen(s[i])}}
      lines == {p \in pairs : p[2] # 0 /\ IsBraceClose(At(s, p[2]))}
  IN  [i \in DOMAIN s |-> [s[i] EXCEPT !.one = \E p \in lines : i \in p[1] .. p[2]]]

\* The '{' of the blocks of the chain that starts at k, virtual ones too.
RECURSIVE Blocks(_, _)
Blocks(s, k) ==
  LET close == GetClosingParenPP(s, k)
      else  == GetNextPP(s, close, NcNnl)
      word  == GetNextPP(s, else, NcNnl)
      open  == IF At(s, word).type = "ELSEIF" THEN GetNextPP(s, word, IsBraceOpen) ELSE word
  IN  IF At(s, else).type = "ELSE" /\ IsBraceOpen(At(s, open)) THEN <<k>> \o Blocks(s, open) ELSE <<k>>

\* Is the block at k followed by an else?
HasElse(s, k) == At(s, GetNextPP(s, GetClosingParenPP(s, k), NcNnl)).type = "ELSE"

must_have_braces(s, blocks, o) ==
  \/ \E i \in DOMAIN blocks :
       \/ s[blocks[i]].type = "BRACE_OPEN" /\ (o.chain = 2 \/ ~can_remove_braces(s, blocks[i], o))
       \/ s[blocks[i]].type = "VBRACE_OPEN" /\ should_add_braces(s, blocks[i], o)
       \/ o.only /\ HasElse(s, blocks[i])
  \/ o.chain = 3 /\ s[blocks[1]].type = "BRACE_OPEN"

\* Mutant: the last block is left out when there is more than one.
BracesOf_last(s, blocks) ==
  FlattenSeq([i \in 1 .. (IF Len(blocks) = 1 THEN 1 ELSE Len(blocks) - 1) |->
                <<s[blocks[i]].id, s[GetClosingParenPP(s, blocks[i])].id>>])

\* The braces of the blocks, in their order.
BracesOf(s, blocks) ==
  FlattenSeq([i \in DOMAIN blocks |-> <<s[blocks[i]].id, s[GetClosingParenPP(s, blocks[i])].id>>])

KeepBraces(s, braces, o) ==
  FoldLeft(LAMBDA t, id : convert_vbrace([t EXCEPT ![Pos(t, id)].keep = TRUE], id, o), s, Reverse(braces))

RemoveBraces(s, braces, o) ==
  FoldLeft(LAMBDA t, id : IF o.mlcond /\ paren_multiline_before_brace(t, Pos(t, id)) THEN t
                          ELSE convert_brace(t, id), s, braces)

ProcessBlocks(s, blocks, o) ==
  IF must_have_braces(s, blocks, o) THEN KeepBraces(s, BracesOf(s, blocks), o)
  ELSE IF o.chain # 0 THEN RemoveBraces(s, BracesOf(s, blocks), o)
  ELSE s

process_if_chain(s, k, o) == ProcessBlocks(s, Blocks(s, k), o)

\* What ends the block at k: comments in front of it are not looked at.
BlockEnd(s, k) == GetNext(s, GetNext(s, k, Nc) - 1, LAMBDA c : c.level <= s[k].level)

\* Braces around the if of an else.
AroundElseIf(s, k) == s[k].parent = "ELSE" /\ At(s, GetNext(s, k, NcNnl)).type = "IF"

\* Is there one statement in the braces at k, which is not an if for the else after them?  The chains keep
\* their braces (convert_brace), but not those around the if of an else.
ToRemove(s, k, o) ==
  LET first == GetNext(s, k, Nc)
      end   == BlockEnd(s, k)
      body  == Positions(s, first, end - 1, Every)
      starts == Starts \cup {"SWITCH"}
      follower == At(s, GetNext(s, end, LAMBDA c : NcNnl(c) /\ c.type # "VBRACE_CLOSE"))
      types == {s[body[i]].type : i \in DOMAIN body}
  IN  /\ FullOption(o, s[k].parent) = "remove" /\ ~s[k].pp
      /\ ~s[k].keep \/ AroundElseIf(s, k)
      /\ ~(o.mlcond /\ paren_multiline_before_brace(s, k))
      /\ end # 0 /\ s[end].type = "BRACE_CLOSE"
      /\ \A i \in DOMAIN body : ~s[body[i]].pp
      /\ FewNewlines(s, body, o)
      /\ OneStatement(s, k, body, starts)
      /\ \E i \in DOMAIN body : s[body[i]].type \in starts /\ s[body[i]].level = s[k].level + 1
      /\ types \cap {"IF", "ELSEIF"} # {} => follower.type \notin {"ELSE", "ELSEIF"}

\* examine_brace(), for braces that are to go; those around an else's if go for good.
examine_brace(s, k, o) ==
  LET open  == s[k].id
      close == s[BlockEnd(s, k)].id
      else  == s[GetPrev(s, k, NcNnl)].id
      word  == s[GetNext(s, k, NcNnl)]
      joined == newline_del_between(Delete(Delete(s, open), close), else, word.id)
  IN  IF AroundElseIf(s, k)
      THEN IF Adds(o.else_if) THEN newline_add_between(joined, else, word.id) ELSE joined
      ELSE convert_brace(convert_brace(s, open), close)

\* The '}' for the virtual '{' at k.
MatchingVBrace(s, k) ==
  LET left  == IF s[k].pp THEN GetNext(s, k, LAMBDA c : ~c.pp) ELSE 0
      close == GetNext(s, k, LAMBDA c : /\ c.type = "VBRACE_CLOSE" /\ c.level = s[k].level
                                     /\ c.parent = s[k].parent /\ c.pp = s[k].pp)
  IN  IF left # 0 /\ left < close THEN 0 ELSE close

ToAdd(s, k, o) ==
  /\ s[k].type = "VBRACE_OPEN"
  /\ Adds(FullOption(o, s[k].parent))
  /\ s[k].parent \in {"IF", "ELSE", "ELSEIF"} => o.chain = 0
  /\ MatchingVBrace(s, k) # 0

convert_vbrace_to_brace(s, k, o) ==
  convert_vbrace(convert_vbrace(s, s[k].id, o), s[MatchingVBrace(s, k)].id, o)
=============================================================================
