---------------------------- MODULE MCAlignStack ----------------------------
(* Instances of AlignStack for TLC: the ways the alignment passes start a stack, *)
(* each with the chunks that make its options matter.                        *)
EXTENDS AlignStack

Chunks(tights, rooms, lens, typedefs) ==
  [tight : tights, room : rooms, len : lens, typedef : typedefs]

Plain(tights) ==
  [span |-> 1, thresh |-> 0, absolute |-> FALSE, gap |-> 0, right |-> FALSE, tab |-> 0,
   skip_first |-> FALSE, limit |-> 4, shapes |-> Chunks(tights, {1}, {1}, {FALSE})]

\* align_assign_thresh and the like, relative and absolute
Near == {2, 4, 5, 7}
Thresholds ==
  {[Plain({2, 4, 5}) EXCEPT !.thresh = 2, !.limit = 5],
   [Plain(Near) EXCEPT !.thresh = 2, !.span = 3],
   [Plain({2, 5, 7}) EXCEPT !.thresh = 3, !.absolute = TRUE, !.limit = 5]}

\* assignments that end in one column, a gap, tab stops, Objective-C messages,
\* typedefs
Others ==
  {[Plain({}) EXCEPT !.right = TRUE, !.thresh = 4, !.shapes = Chunks({2, 6}, {1}, {1, 2}, {FALSE})],
   [Plain({}) EXCEPT !.gap = 2, !.thresh = 2, !.shapes = Chunks({2, 5}, {0, 1}, {1}, {FALSE})],
   [Plain({2, 5, 8}) EXCEPT !.tab = 4, !.thresh = 3],
   [Plain({2, 5, 8}) EXCEPT !.skip_first = TRUE, !.tab = 4],
   [Plain({}) EXCEPT !.gap = 3, !.thresh = 2, !.shapes = Chunks({2, 5}, {1}, {1}, BOOLEAN)]}

MCConfigs == Thresholds \cup Others

\* Lines far enough apart for a third to fit in between: with these configurations
\* TLC finds AllAddedAgain violated.
Sparse == {[Plain(Near) EXCEPT !.thresh = 2, !.span = 4, !.limit = 5]}

\* A candidate that is put back while another one is not yet near enough: TLC
\* finds SpanOfGroupKept violated, and all the other properties hold.
Apart == {[Plain({2, 4, 6, 11}) EXCEPT !.thresh = 2, !.span = 3, !.limit = 5]}
=============================================================================
