---------------------------- MODULE AlignStack ----------------------------
(***************************************************************************)
(* class AlignStack (src/align/stack.cpp), with the ChunkStack it is made   *)
(* of (src/ChunkStack.cpp): the alignment passes hand it one chunk of a     *)
(* line at a time, tell it of the newlines between them, and it decides     *)
(* which lines form a group and moves the chunks of a group to one column.  *)
(*                                                                         *)
(* Add(), ReAddSkipped(), NewLines() and Flush() call one another.  calls   *)
(* is the call stack, as far as it is needed: a loop of ReAddSkipped() with *)
(* its index, and the two halves of the Flush() that drops its first item.  *)
(* The four stacks of chunks are members, so a call made deep down the      *)
(* stack changes what the loops above it go on with.                       *)
(*                                                                         *)
(* Abstractions.  A chunk is the number of the item on its way in; there is *)
(* one on a line.  tight is the column Add() gives it when it takes out the *)
(* spaces before it, room the columns between it and the chunk before it    *)
(* then, len its own length.  The style of '*' and '&' is SS_IGNORE, so the *)
(* chunk that is aligned is the chunk that is added.                        *)
(***************************************************************************)
EXTENDS Integers, Sequences, FiniteSets

CONSTANTS
  Configs,     \* the ways a pass may Start() a stack, the chunks it may find and
               \* how many (the bound limit)
  Blank,       \* bound: the newlines between two lines
  Infinity     \* numeric_limits<size_t>::max()

\* A chunk that may be added.
Shapes == [tight : Nat \ {0}, room : Nat, len : Nat, typedef : BOOLEAN]

ASSUME BoundsAssumption == Blank \in Nat /\ Infinity \in Nat
ASSUME ConfigsAssumption ==
  \A c \in Configs :
    /\ c.span \in Nat /\ c.thresh \in Nat /\ c.gap \in Nat /\ c.tab \in Nat /\ c.limit \in Nat
    /\ {c.absolute, c.right, c.skip_first} \subseteq BOOLEAN
    /\ c.shapes \subseteq Shapes
    /\ c.skip_first => c.thresh = 0    \* align_oc_msg_colon() gives no threshold
    /\ \A s \in c.shapes : s.tight + c.gap < Infinity

VARIABLES
  config,      \* what Start() was called with
  items,       \* the chunks added so far
  column,      \* the column of each of them
  aligned,     \* m_aligned, of [pc, seqnum]
  skipped,     \* m_skipped
  scratch,     \* m_scratch
  max_col, min_col, seqnum, nl_seqnum, gap, skip_first,   \* the members m_...
  calls,       \* the calls that have not returned
  place,       \* where the pass is: on a line with or without an item, or done
  groups       \* history: the groups that were aligned, first item first

stacks == <<aligned, skipped, scratch>>
vars == <<config, items, column, stacks, max_col, min_col, seqnum, nl_seqnum, gap,
          skip_first, calls, place, groups>>

Ids == 1 .. Len(items)
Entry(pc, n) == [pc |-> pc, seqnum |-> n]
IdsOf(stack) == {stack[k].pc : k \in DOMAIN stack}
MaxOf(S) == CHOOSE m \in S : \A n \in S : n <= m

Frames  == [fn : {"ReAddSkipped", "Flush", "Restore"}, idx : Nat]

Loop(k) == [fn |-> "ReAddSkipped", idx |-> k]
Rest    == [fn |-> "Flush", idx |-> 0]      \* the Flush() behind Pop_Front()
Restore == [fn |-> "Restore", idx |-> 0]    \* m_skip_first = true behind it
Front(s) == SubSeq(s, 1, Len(s) - 1)
Running(fn) == calls # <<>> /\ calls[Len(calls)].fn = fn

\* Start(), on the members of a fresh object.
Init ==
  /\ config \in Configs
  /\ items = <<>> /\ column = <<>>
  /\ aligned = <<>> /\ skipped = <<>> /\ scratch = <<>>
  /\ max_col = 0 /\ min_col = Infinity
  /\ seqnum = 0 /\ nl_seqnum = 0
  /\ gap = config.gap
  /\ skip_first = FALSE
  /\ calls = <<>>
  /\ place = "empty"
  /\ groups = {}

-----------------------------------------------------------------------------
(* The parts the four methods share.  frames is the call stack under the   *)
(* call that is made, without it.                                          *)

\* Columns the chunk is pushed out by, to leave the gap of the options.
Bump(item) == IF item.room < gap THEN gap - item.room ELSE 0

\* Mutant: an absolute threshold counts from the last column, too.
WithinThresholdOfMax(item) ==
  \/ max_col = 0
  \/ config.thresh = 0
  \/ /\ item.tight + gap <= config.thresh + max_col
     /\ item.tight + gap + config.thresh >= max_col \/ item.tight >= min_col

WithinThreshold(item) ==
  \/ max_col = 0
  \/ config.thresh = 0
  \/ /\ item.tight + gap <= config.thresh + (IF config.absolute THEN min_col ELSE max_col)
     /\ item.tight + gap + config.thresh >= max_col \/ item.tight >= min_col

\* Mutant: the items that are put back stay among the skipped.
ReAddSkippedKeeps(entries, frames) ==
  IF entries = <<>> THEN skipped' = <<>> /\ calls' = frames /\ UNCHANGED scratch
  ELSE /\ scratch' = entries
       /\ skipped' = entries
       /\ calls' = Append(frames, Loop(1))

\* Mutant: the entries are put behind the ones of the last call.
ReAddSkippedAppends(entries, frames) ==
  IF entries = <<>> THEN skipped' = <<>> /\ calls' = frames /\ UNCHANGED scratch
  ELSE /\ scratch' = scratch \o entries
       /\ skipped' = <<>>
       /\ calls' = Append(frames, Loop(1))

\* ReAddSkipped() is entered: m_scratch.Set(m_skipped), m_skipped.Reset().
ReAddSkipped(entries, frames) ==
  IF entries = <<>> THEN skipped' = <<>> /\ calls' = frames /\ UNCHANGED scratch
  ELSE /\ scratch' = entries
       /\ skipped' = <<>>
       /\ calls' = Append(frames, Loop(1))

\* Add() of a chunk that is within the threshold, or that comes first.
Accept(pc, item, n, frames) ==
  LET endcol == item.tight + Bump(item) IN
  /\ nl_seqnum' = MaxOf({nl_seqnum, n})
  /\ aligned' = Append(aligned, Entry(pc, n))
  /\ min_col' = IF endcol < min_col THEN endcol ELSE min_col
  /\ max_col' = MaxOf({max_col, endcol})
  /\ IF endcol > max_col /\ skipped # <<>>
       THEN ReAddSkipped(skipped, frames)
       ELSE calls' = frames /\ UNCHANGED <<skipped, scratch>>

Skip(pc, n, frames) ==
  /\ skipped' = Append(skipped, Entry(pc, n))
  /\ calls' = frames
  /\ UNCHANGED <<aligned, scratch, max_col, min_col, nl_seqnum>>

\* Add(): the spaces before the chunk are taken out in either case.
Add(pc, item, n, frames) ==
  LET number == IF n = 0 THEN seqnum ELSE n IN
  /\ column' = [k \in DOMAIN column \cup {pc} |-> IF k = pc THEN item.tight ELSE column[k]]
  /\ IF WithinThreshold(item) THEN Accept(pc, item, number, frames)
                              ELSE Skip(pc, number, frames)

-----------------------------------------------------------------------------
(* Flush()                                                                 *)

\* A lone typedef: "reset the gap only for *this* stack".
GapOfFlush == IF Len(aligned) = 1 /\ items[aligned[1].pc].typedef THEN 1 ELSE gap

Adjust(pc) == IF config.right THEN items[pc].len ELSE 0

\* align_tab_column()
TabColumn(col) ==
  IF config.tab = 0 \/ Len(aligned) = 1 \/ col % config.tab = 1 THEN col
  ELSE config.tab * ((col - 1) \div config.tab + 1) + 1

\* Mutant: what the gap adds is forgotten when the column is computed again.
TargetColumnNoGap == TabColumn(MaxOf({column[pc] + Adjust(pc) : pc \in IdsOf(aligned)}))

\* The column is computed again from where the chunks are, with gap'.
TargetColumn ==
  TabColumn(MaxOf({column[pc] + Adjust(pc)
                    + (IF items[pc].room < gap' THEN gap' - items[pc].room ELSE 0) :
                      pc \in IdsOf(aligned)}))

\* Zap() and Collapse(): the skipped items from the end of the group on.
StillCandidates(last) ==
  LET kept   == {k \in DOMAIN skipped : skipped[k].seqnum >= last}
      Nth(i) == CHOOSE k \in kept : Cardinality({j \in kept : j <= k}) = i
  IN [i \in 1 .. Cardinality(kept) |-> skipped[Nth(i)]]

\* Mutant: nothing is dropped before the recursion.
DropFirstKeeps(col, frames) ==
  /\ max_col' = col
  /\ calls' = Append(frames, Rest)
  /\ UNCHANGED <<column, stacks, skip_first, min_col, nl_seqnum, groups>>

\* The first item would have to move, and must not: the rest is flushed.
DropFirst(col, frames) ==
  /\ skip_first' = FALSE
  /\ max_col' = col
  /\ aligned' = Tail(aligned)
  /\ calls' = frames \o <<Restore, Rest>>
  /\ UNCHANGED <<column, skipped, scratch, min_col, nl_seqnum, groups>>

MoveToColumn(col, number, frames) ==
  /\ column' = [k \in DOMAIN column |-> IF k \in IdsOf(aligned) THEN col - Adjust(k) ELSE column[k]]
  /\ groups' = groups \cup {aligned}
  /\ aligned' = <<>>
  /\ min_col' = Infinity
  /\ max_col' = 0
  /\ IF skipped = <<>>
       THEN nl_seqnum' = number /\ calls' = frames /\ UNCHANGED <<skipped, scratch>>
       ELSE /\ ReAddSkipped(StillCandidates(aligned[Len(aligned)].seqnum), frames)
            /\ UNCHANGED nl_seqnum
  /\ UNCHANGED skip_first

\* Flush(), when there is something in m_aligned; number is m_seqnum.
Flush(number, frames) ==
  /\ gap' = GapOfFlush
  /\ \E col \in {TargetColumn} :
       IF skip_first /\ column[aligned[1].pc] # col - Adjust(aligned[1].pc)
         THEN DropFirst(col, frames)
         ELSE MoveToColumn(col, number, frames)

Unflushed(frames) ==
  /\ calls' = frames
  /\ UNCHANGED <<column, stacks, max_col, min_col, nl_seqnum, gap, skip_first, groups>>

NewLines(count, frames) ==
  IF aligned = <<>> THEN Unflushed(frames) /\ UNCHANGED seqnum
  ELSE /\ seqnum' = seqnum + count
       /\ IF seqnum' > nl_seqnum + config.span THEN Flush(seqnum', frames)
                                               ELSE Unflushed(frames)

-----------------------------------------------------------------------------
(* The pass that uses the stack                                            *)

\* A chunk of the kind that is aligned, the first one on its line.
AddItem ==
  /\ calls = <<>> /\ place = "empty"
  /\ Len(items) < config.limit
  /\ \E item \in config.shapes :
       /\ items' = Append(items, item)
       /\ Add(Len(items) + 1, item, 0, <<>>)
  /\ place' = "full"
  /\ UNCHANGED <<config, seqnum, gap, skip_first, groups>>

\* A newline chunk stands for one or more newlines.
EndLine ==
  /\ calls = <<>> /\ place \in {"empty", "full"}
  /\ \E count \in 1 .. Blank : NewLines(count, <<>>)
  /\ place' = "empty"
  /\ UNCHANGED <<config, items>>

\* The message passes set m_skip_first just before End().
LastLine ==
  /\ calls = <<>> /\ place \in {"empty", "full"}
  /\ place' = "end"
  /\ skip_first' = config.skip_first
  /\ UNCHANGED <<config, items, column, stacks, max_col, min_col, seqnum, nl_seqnum, gap, calls, groups>>

End ==
  /\ calls = <<>> /\ place = "end"
  /\ place' = "flushed"
  /\ IF aligned = <<>> THEN Unflushed(<<>>) ELSE Flush(seqnum, <<>>)
  /\ UNCHANGED <<config, items, seqnum>>

\* The Reset() of both stacks that ends End().
EndReset ==
  /\ calls = <<>> /\ place = "flushed"
  /\ place' = "done"
  /\ aligned' = <<>> /\ skipped' = <<>>
  /\ UNCHANGED <<config, items, column, scratch, max_col, min_col, seqnum, nl_seqnum, gap,
                 skip_first, calls, groups>>

-----------------------------------------------------------------------------
(* The calls that go on                                                    *)

Caller == Front(calls)
Index == calls[Len(calls)].idx

\* One turn of the loop of ReAddSkipped().
ReAddOne ==
  /\ Running("ReAddSkipped") /\ Index <= Len(scratch)
  /\ Add(scratch[Index].pc, items[scratch[Index].pc], scratch[Index].seqnum,
         Append(Caller, Loop(Index + 1)))
  /\ UNCHANGED <<config, items, seqnum, gap, skip_first, place, groups>>

\* Mutant: the group is not flushed until the next newline.
ReAddDoneNoCheck ==
  /\ Running("ReAddSkipped") /\ Index > Len(scratch)
  /\ Unflushed(Caller)
  /\ UNCHANGED <<config, items, seqnum, place>>

\* The loop is over: "Check to see if we need to flush right away".
ReAddDone ==
  /\ Running("ReAddSkipped") /\ Index > Len(scratch)
  /\ NewLines(0, Caller)
  /\ UNCHANGED <<config, items, place>>

FlushRest ==
  /\ Running("Flush")
  /\ IF aligned = <<>> THEN Unflushed(Caller) ELSE Flush(seqnum, Caller)
  /\ UNCHANGED <<config, items, seqnum, place>>

RestoreSkipFirst ==
  /\ Running("Restore")
  /\ skip_first' = TRUE
  /\ calls' = Caller
  /\ UNCHANGED <<config, items, column, stacks, max_col, min_col, seqnum, nl_seqnum, gap, place, groups>>

Return == ReAddOne \/ ReAddDone \/ FlushRest \/ RestoreSkipFirst

Next == AddItem \/ EndLine \/ LastLine \/ End \/ EndReset \/ Return

\* One thread: a call that has been made goes on until it returns.
Spec == Init /\ [][Next]_vars /\ WF_vars(Return)

-----------------------------------------------------------------------------
(* Properties                                                              *)

\* The entries of m_scratch the running loop has not come to yet, and the items
\* of the groups that were aligned.
Waiting == IF Running("ReAddSkipped") THEN {scratch[k].pc : k \in Index .. Len(scratch)} ELSE {}
Grouped == UNION {IdsOf(g) : g \in groups}
Tight(pc) == items[pc].tight

\* However deep Add() and Flush() call one another, an item is in one place: it
\* is aligned with one group and once, and not taken for a candidate again,
\* which would put it back to its tight column.
InOnePlace ==
  /\ \A s \in {aligned, skipped} \cup groups : Cardinality(IdsOf(s)) = Len(s)
  /\ IdsOf(aligned) \cap IdsOf(skipped) = {}
  /\ (IdsOf(aligned) \cup IdsOf(skipped)) \cap Waiting = {}
  /\ (IdsOf(aligned) \cup IdsOf(skipped) \cup Waiting) \cap Grouped = {}
  /\ \A g, h \in groups : g # h => IdsOf(g) \cap IdsOf(h) = {}

\* A loop of ReAddSkipped() whose m_scratch a call from within it replaced is
\* over: it never goes on with the entries of another one.
LoopsInOrder ==
  \A k \in 1 .. Len(calls) - 1 : calls[k].fn = "ReAddSkipped" => calls[k].idx > Len(scratch)

\* What was aligned stays aligned until the pass ends: the chunks of a group
\* share the column of their start or of their end, and each has the gap the
\* options ask for (unless a lone typedef has changed the gap of the stack).
OneColumn ==
  \A g \in groups : \A p, q \in IdsOf(g) :
    /\ column[p] + Adjust(p) = column[q] + Adjust(q)
    /\ column[p] >= Tight(p)
    /\ gap = config.gap => column[p] - Tight(p) + items[p].room >= gap

\* The numbers of the lines on which something was aligned.
Placed == UNION {{g[k].seqnum : k \in DOMAIN g} : g \in groups}

\* From one item of a group to the next there are never more newlines than the
\* span without an item that is aligned, although the group may have been closed
\* and its candidates put back in between.
SpanKept ==
  \A g \in groups : \A j, k \in DOMAIN g :
    \A n \in g[j].seqnum .. g[k].seqnum - 1 : \E m \in Placed : n < m /\ m <= n + config.span

\* With an item of the same group, that is.  This does not hold, see Apart in
\* MCAlignStack: two candidates that are put back are no longer kept apart by the
\* lines between them, which went with the group before.
SpanOfGroupKept ==
  \A g \in groups : \A j, k \in DOMAIN g :
    \A n \in g[j].seqnum .. g[k].seqnum - 1 :
      \E i \in DOMAIN g : n < g[i].seqnum /\ g[i].seqnum <= n + config.span

\* No item joins a group from beyond the threshold.  Relative to the others: it
\* is within the threshold of an item further right.  Absolute: of all of them.
\* The gap is the one of the options, or what a lone typedef has made of it.
ThresholdKept ==
  config.thresh > 0 =>
    \A g \in groups : \A p \in IdsOf(g) :
      LET right == {q \in IdsOf(g) : Tight(q) > Tight(p)}
          near  == {q \in right : Tight(q) - Tight(p) <= config.thresh + MaxOf({config.gap, gap})}
      IN /\ right # {} => near # {}
         /\ config.absolute => near = right

\* The calls return, although Flush() calls ReAddSkipped() and that Flush().
CallsReturn == calls # <<>> ~> calls = <<>>

\* "Calls Add on all the skipped items" (stack.h:140): as long as a loop of
\* ReAddSkipped() has an item to come to, it is not forgotten.  This does not hold, see
\* Sparse in MCAlignStack: a loop within it replaces m_scratch.
AllAddedAgain ==
  [][ReAddOne => \A k \in Index + 1 .. Len(scratch) : scratch[k].pc \in Waiting']_vars

=============================================================================
