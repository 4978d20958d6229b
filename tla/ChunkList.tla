----------------------------- MODULE ChunkList -----------------------------
(***************************************************************************)
(* The chunk list and the calls of class Chunk that edit it (src/chunk.cpp, *)
(* src/chunk.h): every pass reads the program through these pointers and   *)
(* may make any of the calls at any chunk, in any order.                   *)
(*                                                                         *)
(* order is a history variable: the same edits made to a plain sequence,   *)
(* which is what the passes take the list for.                             *)
(***************************************************************************)
EXTENDS ListManager, SequencesExt

VARIABLES
  list,    \* gChunkList
  order    \* history: the chunks as a sequence

vars == <<list, order>>

Positions == 1 .. Len(order)

\* Objects that are not part of the program: not allocated, or deleted.
Unused == Chunks \ ToSet(order)

Init == list = EmptyList /\ order = <<>>

\* pc is a copy, its pointers cleared by CopyFrom().
CopyAndAddAfter(pc, k) ==
  /\ pc \in Unused /\ k \in Positions
  /\ list' = AddAfter(list, pc, order[k])
  /\ order' = InsertAt(order, k + 1, pc)

CopyAndAddBefore(pc, k) ==
  /\ pc \in Unused /\ k \in Positions
  /\ list' = AddBefore(list, pc, order[k])
  /\ order' = InsertAt(order, k, pc)

\* CopyAndAddAfter(Null): the front of the list.
CopyAndAddHead(pc) ==
  /\ pc \in Unused
  /\ list' = AddHead(list, pc)
  /\ order' = InsertAt(order, 1, pc)

\* CopyAndAddBefore(Null): the tokenizer adds every chunk at the end.
CopyAndAddTail(pc) ==
  /\ pc \in Unused
  /\ list' = AddTail(list, pc)
  /\ order' = InsertAt(order, Len(order) + 1, pc)

Delete(k) ==
  /\ k \in Positions
  /\ list' = Unlink(list, order[k])
  /\ order' = RemoveAt(order, k)

\* Mutant: the chunk is not taken from its old place.
MoveAfterLeaves(k, r) ==
  /\ k \in Positions /\ r \in Positions
  /\ r # k
  /\ list' = AddAfter(list, order[k], order[r])
  /\ order' = IF k < r THEN InsertAt(RemoveAt(order, k), r, order[k])
              ELSE InsertAt(RemoveAt(order, k), r + 1, order[k])

\* The reference is a chunk of the list, never the null chunk (AddAfter() would
\* lose the chunk); a move after itself returns early.
MoveAfter(k, r) ==
  /\ k \in Positions /\ r \in Positions
  /\ r # k
  /\ list' = AddAfter(Unlink(list, order[k]), order[k], order[r])
  /\ order' = IF k < r THEN InsertAt(RemoveAt(order, k), r, order[k])
              ELSE InsertAt(RemoveAt(order, k), r + 1, order[k])

\* The calls there are: a colon with the newline next to it or beyond a
\* comment, and the newlines at the end of two lines.  Either the two are
\* neighbours or neither of them is the first chunk; Swap() would lose the first
\* chunk if its new place were not next to it, having no chunk to put it after.
Swappable(j, k) == j - k \in {-1, 1} \/ (j # 1 /\ k # 1)

SwapChunks(j, k) ==
  /\ j \in Positions /\ k \in Positions
  /\ j # k
  /\ Swappable(j, k)
  /\ list' = Swap(list, order[j], order[k])
  /\ order' = [order EXCEPT ![j] = order[k], ![k] = order[j]]

Next ==
  \/ \E pc \in Chunks : CopyAndAddHead(pc) \/ CopyAndAddTail(pc)
  \/ \E pc \in Chunks, k \in Positions : CopyAndAddAfter(pc, k) \/ CopyAndAddBefore(pc, k)
  \/ \E k \in Positions : Delete(k)
  \/ \E j, k \in Positions : MoveAfter(j, k) \/ SwapChunks(j, k)

Spec == Init /\ [][Next]_vars

-----------------------------------------------------------------------------

TypeOK == list \in Links /\ order \in Seq(Chunks)

\* After any sequence of edits the pointers are the sequence the passes take
\* them for: forwards, backwards and at both ends, with no chunk lost, doubled
\* or still pointing into the list after it was taken out.
ListIsOrder == Linked(list, order)

=============================================================================
