---------------------------- MODULE ListManager ----------------------------
(***************************************************************************)
(* class ChunkListManager (src/ListManager.h): the doubly linked list all  *)
(* passes edit.  A list is a record of the pointers: next and prev of      *)
(* every chunk, head and tail.  An operator is a method: the list it       *)
(* leaves behind, pointer by pointer.                                      *)
(***************************************************************************)
EXTENDS Integers, Sequences

CONSTANTS
  Chunks,   \* the chunk objects there can be
  Null      \* Chunk::NullChunkPtr

ASSUME NullAssumption == Null \notin Chunks

Links == [next : [Chunks -> Chunks \cup {Null}],
          prev : [Chunks -> Chunks \cup {Null}],
          head : Chunks \cup {Null},
          tail : Chunks \cup {Null}]

EmptyList == [next |-> [c \in Chunks |-> Null], prev |-> [c \in Chunks |-> Null],
              head |-> Null, tail |-> Null]

\* p -> field = value, for a pointer that may be the null chunk.
Store(field, p, value) == IF p = Null THEN field ELSE [field EXCEPT ![p] = value]

\* Remove().
Unlink(l, obj) ==
  [next |-> [Store(l.next, l.prev[obj], l.next[obj]) EXCEPT ![obj] = Null],
   prev |-> [Store(l.prev, l.next[obj], l.prev[obj]) EXCEPT ![obj] = Null],
   head |-> IF l.head = obj THEN l.next[obj] ELSE l.head,
   tail |-> IF l.tail = obj THEN l.prev[obj] ELSE l.tail]

\* Nothing happens when the reference is the null chunk.
AddAfter(l, obj, ref) ==
  IF ref = Null THEN l
  ELSE [next |-> [l.next EXCEPT ![obj] = l.next[ref], ![ref] = obj],
        prev |-> [Store(l.prev, l.next[ref], obj) EXCEPT ![obj] = ref],
        head |-> l.head,
        tail |-> IF l.next[ref] = Null THEN obj ELSE l.tail]

LinkBefore(l, obj, ref) ==
  [next |-> [Store(l.next, l.prev[ref], obj) EXCEPT ![obj] = ref],
   prev |-> [l.prev EXCEPT ![obj] = l.prev[ref], ![ref] = obj],
   head |-> IF l.prev[ref] = Null THEN obj ELSE l.head,
   tail |-> l.tail]

\* Unlike AddAfter(), AddBefore() takes the chunk out of the list first.
AddBefore(l, obj, ref) ==
  IF ref = Null THEN l ELSE LinkBefore(Unlink(l, obj), obj, ref)

AddTail(l, obj) ==
  [next |-> [Store(l.next, l.tail, obj) EXCEPT ![obj] = Null],
   prev |-> [l.prev EXCEPT ![obj] = l.tail],
   head |-> IF l.tail = Null THEN obj ELSE l.head,
   tail |-> obj]

AddHead(l, obj) ==
  [next |-> [l.next EXCEPT ![obj] = l.head],
   prev |-> [Store(l.prev, l.head, obj) EXCEPT ![obj] = Null],
   head |-> obj,
   tail |-> IF l.head = Null THEN obj ELSE l.tail]

\* The places are remembered by the chunk before them: prev1, and prev2 once
\* obj1 is out.
SwapApart(l, obj1, obj2) ==
  LET without1 == Unlink(l, obj1)
      prev2    == without1.prev[obj2]
  IN AddAfter(AddAfter(Unlink(without1, obj2), obj1, prev2), obj2, l.prev[obj1])

Swap(l, obj1, obj2) ==
  IF l.prev[obj1] = obj2 THEN AddBefore(Unlink(l, obj1), obj1, obj2)
  ELSE IF l.prev[obj2] = obj1 THEN AddBefore(Unlink(l, obj2), obj2, obj1)
  ELSE SwapApart(l, obj1, obj2)

-----------------------------------------------------------------------------

(***************************************************************************)
(* What the pointers should say: they link the chunks of s, in that order, *)
(* both ways, and no other chunk.                                          *)
(***************************************************************************)
Distinct(s) == \A i, j \in 1 .. Len(s) : s[i] = s[j] => i = j

At(s, i) == IF i \in 1 .. Len(s) THEN s[i] ELSE Null

Linked(l, s) ==
  /\ Distinct(s)
  /\ l.head = At(s, 1)
  /\ l.tail = At(s, Len(s))
  /\ \A i \in 1 .. Len(s) : /\ l.next[s[i]] = At(s, i + 1)
                            /\ l.prev[s[i]] = At(s, i - 1)
  /\ \A c \in Chunks :
       (\A i \in 1 .. Len(s) : s[i] # c) => l.next[c] = Null /\ l.prev[c] = Null

=============================================================================
