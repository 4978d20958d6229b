----------------------------- MODULE ChunkSeq -----------------------------
(***************************************************************************)
(* The chunk list as the passes of uncrustify_file() take it: a sequence   *)
(* (ChunkList shows that the pointers are one), with the searches and the  *)
(* edits of class Chunk (src/chunk.cpp, src/chunk.h) and of                *)
(* src/newlines/.  A position is an index, 0 the null chunk; an id stands  *)
(* for a pointer to the object and survives the edits around it.           *)
(***************************************************************************)
EXTENDS Integers, SequencesExt

\* text is what is written out; one and keep are PCF_ONE_LINER and PCF_KEEP_BRACE,
\* pp is PCF_IN_PREPROC; nl counts the newlines of a newline chunk.
Chunk(type, text, parent) ==
  [id |-> 0, type |-> type, text |-> text, parent |-> parent, level |-> 0, line |-> 0,
   nl |-> 0, pp |-> FALSE, one |-> FALSE, keep |-> FALSE]

NullChunk == Chunk("NULL", "", "NONE")
At(s, k)  == IF k \in DOMAIN s THEN s[k] ELSE NullChunk
Pos(s, id) == SelectInSeq(s, LAMBDA c : c.id = id)

IsNewline(c)    == c.type = "NEWLINE"
IsComment(c)    == c.type \in {"COMMENT", "COMMENT_CPP"}
IsBraceOpen(c)  == c.type \in {"BRACE_OPEN", "VBRACE_OPEN"}
IsBraceClose(c) == c.type \in {"BRACE_CLOSE", "VBRACE_CLOSE"}
IsVBrace(c)     == c.type \in {"VBRACE_OPEN", "VBRACE_CLOSE"}

Every(c) == TRUE
Nl(c)   == IsNewline(c)
Nnl(c)  == ~IsNewline(c)
Nc(c)   == ~IsComment(c)
NcNnl(c) == ~IsComment(c) /\ ~IsNewline(c)
Nvb(c)  == ~IsVBrace(c)

-----------------------------------------------------------------------------
(* Searches                                                                *)

GetNext(s, k, Wanted(_)) ==
  IF k = 0 THEN 0 ELSE SelectInSubSeq(s, k + 1, Len(s), Wanted)

GetPrev(s, k, Wanted(_)) ==
  IF k = 0 THEN 0 ELSE SelectLastInSubSeq(s, 1, k - 1, Wanted)

\* With E_Scope::PREPROC: a search that starts outside of a directive passes over
\* directives, one that starts in a directive ends with it.
InScope(s, k, c, Wanted(_)) == IF At(s, k).pp THEN ~c.pp \/ Wanted(c) ELSE ~c.pp /\ Wanted(c)

GetNextPP(s, k, Wanted(_)) ==
  LET n == GetNext(s, k, LAMBDA c : InScope(s, k, c, Wanted)) IN IF At(s, n).pp = At(s, k).pp THEN n ELSE 0

GetPrevPP(s, k, Wanted(_)) ==
  LET n == GetPrev(s, k, LAMBDA c : InScope(s, k, c, Wanted)) IN IF At(s, n).pp = At(s, k).pp THEN n ELSE 0

Partner == [BRACE_OPEN |-> "BRACE_CLOSE", VBRACE_OPEN |-> "VBRACE_CLOSE", SPAREN_OPEN |-> "SPAREN_CLOSE",
            BRACE_CLOSE |-> "BRACE_OPEN", VBRACE_CLOSE |-> "VBRACE_OPEN", SPAREN_CLOSE |-> "SPAREN_OPEN"]

GetNextType(s, k, type, level) == GetNext(s, k, LAMBDA c : c.type = type /\ c.level = level)
GetPrevType(s, k, type, level) == GetPrev(s, k, LAMBDA c : c.type = type /\ c.level = level)

GetClosingParen(s, k) == IF k = 0 THEN 0 ELSE GetNextType(s, k, Partner[s[k].type], s[k].level)
GetOpeningParen(s, k) == IF k = 0 THEN 0 ELSE GetPrevType(s, k, Partner[s[k].type], s[k].level)
GetClosingParenPP(s, k) ==
  GetNextPP(s, k, LAMBDA c : c.type = Partner[s[k].type] /\ c.level = s[k].level)

GetFirstChunkOnLine(s, k) == GetPrev(s, k, Nl) + 1

-----------------------------------------------------------------------------
(* Edits                                                                   *)

Fresh(s) == 1 + Max({s[i].id : i \in DOMAIN s})

Delete(s, id) == SelectSeq(s, LAMBDA c : c.id # id)
AddAfter(s, c, id) == InsertAt(s, Pos(s, id) + 1, c)
AddBefore(s, c, id) == InsertAt(s, Pos(s, id), c)
CopyAndAddAfter(s, c, id)  == AddAfter(s, [c EXCEPT !.id = Fresh(s)], id)
CopyAndAddBefore(s, c, id) == AddBefore(s, [c EXCEPT !.id = Fresh(s)], id)

MoveAfter(s, id, ref) ==
  IF id = ref THEN s ELSE AddAfter(Delete(s, id), s[Pos(s, id)], ref)

\* The last newline after a // comment must stay; and a directive ends with one.
SafeToDeleteNl(s, k) ==
  /\ {k - 1, k + 1} \subseteq DOMAIN s
  /\ s[k - 1].type # "COMMENT_CPP"
  /\ s[k - 1].pp = s[k + 1].pp

undo_one_liner(s, k) ==
  LET joined(j) == \A i \in (IF j < k THEN j .. k ELSE k .. j) : s[i].one
  IN  IF k = 0 THEN s ELSE [j \in DOMAIN s |-> [s[j] EXCEPT !.one = @ /\ ~joined(j)]]

setup_newline_add(prev) ==
  [Chunk("NEWLINE", "\n", "NONE") EXCEPT !.level = prev.level, !.line = prev.line, !.nl = 1]

newline_add_after(s, id) ==
  LET k == Pos(s, id)
  IN  IF IsNewline(At(s, GetNext(s, k, Nvb))) THEN s
      ELSE CopyAndAddAfter(undo_one_liner(s, k), setup_newline_add(s[k]), id)

newline_add_before(s, id) ==
  LET k == GetPrev(s, Pos(s, id), Nvb)
  IN  IF IsNewline(At(s, k)) THEN s
      ELSE CopyAndAddBefore(undo_one_liner(s, k), setup_newline_add(At(s, k)), id)

\* start and end are not newlines and end is not a '{'.
newline_del_between(s, start, end) ==
  LET from == Pos(s, start)
      to   == Pos(s, end)
      del(t, c) ==
        LET k == Pos(t, c.id)
            bare == \/ ~IsComment(At(t, k - 1)) /\ ~IsComment(t[k + 1])
                    \/ IsNewline(At(t, k - 1))
                    \/ IsNewline(t[k + 1])
        IN  IF ~IsNewline(c) THEN t
            ELSE IF bare THEN IF SafeToDeleteNl(t, k) THEN Delete(t, c.id) ELSE t
            ELSE [t EXCEPT ![k].nl = 1]
  IN  IF s[from].pp # s[to].pp THEN s ELSE FoldLeft(del, s, SubSeq(s, from, to))

\* Not after a one-liner, and not in front of a '{'.
newline_add_between(s, start, end) ==
  IF \E k \in Pos(s, start) .. Pos(s, end) : IsNewline(s[k]) THEN s
  ELSE newline_add_before(s, end)

\* The line of the chunk at j and the later one of the chunk at k change places; their newlines
\* stay where they are and keep their counts.
SwapLines(s, j, k) ==
  LET first(p) == GetFirstChunkOnLine(s, p)
      last(p)  == GetNext(s, p, Nl) - 1
  IN  IF first(j) = first(k) THEN s
      ELSE SubSeq(s, 1, first(j) - 1) \o SubSeq(s, first(k), last(k))
           \o SubSeq(s, last(j) + 1, first(k) - 1) \o SubSeq(s, first(j), last(j))
           \o SubSeq(s, last(k) + 1, Len(s))
=============================================================================
