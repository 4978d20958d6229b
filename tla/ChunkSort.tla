----------------------------- MODULE ChunkSort -----------------------------
(***************************************************************************)
(* do_the_sort() in src/sorting.cpp: the imports of one group are put in   *)
(* order by exchanging their lines, two at a time, along the cycles of the *)
(* permutation std::sort() computed.                                       *)
(*                                                                         *)
(* The array chunks[] and the chunk list are two copies of one order: the  *)
(* loop exchanges the entries of the one and the lines of the other, and   *)
(* nothing but the loop keeps them alike.  rows is the list, as the import *)
(* that stands on each line of the group.                                  *)
(***************************************************************************)
EXTENDS Integers, FiniteSets

CONSTANTS
  Chunks,   \* the import chunks of the group
  N,        \* num_chunks
  Less      \* the pairs compare_chunks() puts in this order

ASSUME NAssumption == N \in Nat \ {0}
ASSUME ChunksAssumption == IsFiniteSet(Chunks) /\ Less \subseteq Chunks \X Chunks

\* std::sort() asks for a strict weak ordering: with anything else its result
\* is undefined.  With mod_sort_incl_import_ignore_extension compare_chunks() is
\* not one: the names are compared without the extension, their lengths with it.
ASSUME LessAssumption ==
  /\ \A a \in Chunks : <<a, a>> \notin Less
  /\ \A a, b, c \in Chunks :
       /\ <<a, b>> \in Less /\ <<b, c>> \in Less => <<a, c>> \in Less
       /\ <<a, c>> \in Less => <<a, b>> \in Less \/ <<b, c>> \in Less

VARIABLES
  chunks,     \* the array of the caller
  positions,  \* chunk_positions
  idx,        \* the loop counter of the second loop
  rows,       \* the chunk list: the import on each line of the group
  swaps       \* history: the calls of SwapLines() so far, counted up to N

vars == <<chunks, positions, idx, rows, swaps>>

Index == 0 .. N - 1

Injective(f) == \A i, j \in Index : f[i] = f[j] => i = j

\* The chunks s names are in order: no later one belongs before an earlier one.
Ordered(s) == \A i, j \in Index : i < j => <<s[j], s[i]>> \notin Less

\* What the array is going to be: chunk_positions, read through.
Sorted == [i \in Index |-> chunks[positions[i]]]

\* The list holds the imports in the order they were collected in, and
\* std::sort(), which is not stable, returns one of the orders that fit.
Init ==
  /\ chunks \in [Index -> Chunks]
  /\ Injective(chunks)
  /\ positions \in [Index -> Index]
  /\ Injective(positions)
  /\ Ordered(Sorted)
  /\ rows = chunks
  /\ idx = 0
  /\ swaps = 0

\* The count of calls stops at N, one more than there may be.
Tick(n) == IF n < N THEN n + 1 ELSE n

\* SwapLines(): the lines of two chunks change places in the list.
SwapLines(list, one, other) ==
  [i \in Index |-> CASE list[i] = one   -> other
                     [] list[i] = other -> one
                     [] OTHER           -> list[i]]

\* chunk_positions[idx] == idx: the line is where it belongs.
Settled ==
  /\ idx < N
  /\ positions[idx] = idx
  /\ idx' = idx + 1
  /\ UNCHANGED <<chunks, positions, rows, swaps>>

\* Mutant: the two stores to chunk_positions change places.
ExchangeStoresSwapped ==
  /\ idx < N
  /\ positions[idx] # idx
  /\ LET from == positions[idx]
         to   == positions[from]
     IN /\ rows' = SwapLines(rows, chunks[from], chunks[to])
        /\ chunks' = [chunks EXCEPT ![from] = chunks[to], ![to] = chunks[from]]
        /\ positions' = [positions EXCEPT ![from] = to, ![idx] = from]
  /\ swaps' = Tick(swaps)
  /\ UNCHANGED idx

\* Mutant: the array is left as it was.
ExchangeLinesOnly ==
  /\ idx < N
  /\ positions[idx] # idx
  /\ LET from == positions[idx]
         to   == positions[from]
     IN /\ rows' = SwapLines(rows, chunks[from], chunks[to])
        /\ positions' = [positions EXCEPT ![from] = from, ![idx] = to]
  /\ swaps' = Tick(swaps)
  /\ UNCHANGED <<idx, chunks>>

\* Mutant: the loop goes on to the next index.
ExchangeAdvances ==
  /\ idx < N
  /\ positions[idx] # idx
  /\ LET from == positions[idx]
         to   == positions[from]
     IN /\ rows' = SwapLines(rows, chunks[from], chunks[to])
        /\ chunks' = [chunks EXCEPT ![from] = chunks[to], ![to] = chunks[from]]
        /\ positions' = [positions EXCEPT ![from] = from, ![idx] = to]
  /\ swaps' = Tick(swaps)
  /\ idx' = idx + 1

\* The chunk that belongs at from is brought there from to; the index stays
\* (idx-- and the idx++ of the loop cancel, wrapping around at zero).
Exchange ==
  /\ idx < N
  /\ positions[idx] # idx
  /\ LET from == positions[idx]
         to   == positions[from]
     IN /\ rows' = SwapLines(rows, chunks[from], chunks[to])
        /\ chunks' = [chunks EXCEPT ![from] = chunks[to], ![to] = chunks[from]]
        /\ positions' = [positions EXCEPT ![from] = from, ![idx] = to]
  /\ swaps' = Tick(swaps)
  /\ UNCHANGED idx

Next == Settled \/ Exchange

\* A loop of one thread: it takes its next step whenever it has one.
Spec == Init /\ [][Next]_vars /\ WF_vars(Next)

-----------------------------------------------------------------------------

TypeOK ==
  /\ chunks \in [Index -> Chunks]
  /\ rows \in [Index -> Chunks]
  /\ positions \in [Index -> Index]
  /\ idx \in 0 .. N
  /\ swaps \in 0 .. N

\* The array names the lines of the list in their order, and each chunk once:
\* what the callers do next with chunks[i] (grouping, removing duplicates) is
\* done to the line they take it for.
InStep == rows = chunks /\ Injective(chunks)

\* Whatever is exchanged, chunk_positions goes on describing a way to the order
\* std::sort() found: each place is filled once, and read through the array of
\* this moment it names the imports in that order.
OnCourse == Injective(positions) /\ Ordered(Sorted)

\* When the loop ends the lines of the list are in the order asked for.
SortedAtEnd == idx = N => Ordered(rows)

\* 'a maximum of O(n) swaps': no line but the last of a cycle is moved twice.
FewSwaps == swaps < N

\* No exchange takes a line away from where the sort wants it.
NeverUnsettles ==
  [][\A i \in Index : positions[i] = i => positions'[i] = i /\ rows'[i] = rows[i]]_vars

\* The loop ends, although an exchange takes the index back.
Terminates == <>(idx = N)

=============================================================================
