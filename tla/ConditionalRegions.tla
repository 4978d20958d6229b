------------------------- MODULE ConditionalRegions -------------------------
(***************************************************************************)
(* What conditional compilation means for a parse, as brace_cleanup.cpp    *)
(* puts it: "a simple #if / #endif does not affect program flow", "#if /   *)
(* #else / #endif continues from the #if clause", and a #define body is    *)
(* parsed on its own.                                                      *)
(*                                                                         *)
(* The state of the parse is an element of States, of which only the brace *)
(* level is known.  A region is an open #if: the state it started from and *)
(* the state its first branch ended in, once that is known.                *)
(***************************************************************************)
EXTENDS Integers, Sequences

CONSTANTS
  States,   \* the states of a parse
  Level,    \* the brace level of each
  Empty,    \* the state at the start of a file
  Blank,    \* the state a #define body starts from
  Unknown,  \* the result of a first branch that has not ended
  MaxNest   \* bound: how deep the regions nest

VARIABLES
  cur,      \* the state of the parse
  regions,  \* the open #ifs, outermost first
  saved,    \* the state a #define body interrupts, Unknown outside of one
  mark,     \* the nesting level given to the last directive
  stopped,  \* has the input been rejected?
  strict    \* must every branch end on the brace level the first one has?

vars == <<cur, regions, saved, mark, stopped, strict>>

Init ==
  /\ cur = Empty
  /\ regions = <<>>
  /\ saved = Unknown
  /\ mark = 0
  /\ stopped = FALSE
  /\ strict \in BOOLEAN

Inner == regions[Len(regions)]
Outer == SubSeq(regions, 1, Len(regions) - 1)

\* What the parse goes on with after the region.
Result(r) == IF r.result = Unknown THEN r.base ELSE r.result

Parse ==
  /\ ~stopped
  /\ cur' \in States
  /\ UNCHANGED <<regions, saved, mark, stopped, strict>>

If ==
  /\ ~stopped /\ saved = Unknown /\ Len(regions) < MaxNest
  /\ regions' = Append(regions, [base |-> cur, result |-> Unknown])
  /\ mark' = Len(regions)
  /\ UNCHANGED <<cur, saved, stopped, strict>>

\* #else or #elif: the branch that ends must be balanced, if strict.
Else ==
  /\ ~stopped /\ saved = Unknown /\ regions # <<>>
  /\ strict => Level[cur] = Level[Result(Inner)]
  /\ regions' = Append(Outer,
       [Inner EXCEPT !.result = IF Inner.result = Unknown THEN cur ELSE Inner.result])
  /\ cur' = Inner.base
  /\ mark' = Len(Outer)
  /\ UNCHANGED <<saved, stopped, strict>>

Endif ==
  /\ ~stopped /\ saved = Unknown /\ regions # <<>>
  /\ strict => Level[cur] = Level[Result(Inner)]
  /\ cur' = Result(Inner)
  /\ regions' = Outer
  /\ mark' = Len(Outer)
  /\ UNCHANGED <<saved, stopped, strict>>

Define ==
  /\ ~stopped /\ saved = Unknown
  /\ saved' = cur
  /\ cur' = Blank
  /\ mark' = Len(regions)
  /\ UNCHANGED <<regions, stopped, strict>>

EndDefine ==
  /\ ~stopped /\ saved # Unknown
  /\ strict => Level[cur] = Level[Blank]
  /\ cur' = saved
  /\ saved' = Unknown
  /\ UNCHANGED <<regions, mark, stopped, strict>>

\* A stray #else or #endif, or an unbalanced block: exit(EX_SOFTWARE).
Reject ==
  /\ ~stopped
  /\ \/ saved = Unknown /\ regions = <<>>
     \/ saved = Unknown /\ regions # <<>> /\ strict /\ Level[cur] # Level[Result(Inner)]
     \/ saved # Unknown /\ strict /\ Level[cur] # Level[Blank]
  /\ stopped' = TRUE
  /\ UNCHANGED <<cur, regions, saved, mark, strict>>

Next == Parse \/ If \/ Else \/ Endif \/ Define \/ EndDefine \/ Reject

Spec == Init /\ [][Next]_vars
=============================================================================
