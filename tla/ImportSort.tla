----------------------------- MODULE ImportSort -----------------------------
(***************************************************************************)
(* sort_imports() in src/sorting.cpp: the imports of a file are collected  *)
(* line by line, and a group of them is sorted, set apart by blank lines   *)
(* and freed of duplicates as soon as the line is seen that ends it.  The  *)
(* lines after it are scanned in the list the group has been changed in.   *)
(*                                                                         *)
(* A file is a sequence of lines                                           *)
(*   kind     "import" for an import, include or using that is sorted,     *)
(*            "comment" for a line with nothing but a comment, or "code"   *)
(*   text     the chunks of the import; numbers in the order compare_      *)
(*            chunks() has, with all the preferences the options ask for,  *)
(*            above 0, which is the semicolon                              *)
(*   comment  does a comment follow the import?                            *)
(*   nl       the count of the newline that ends the line, 0 without one   *)
(*   orig     its line number in the file that was read                    *)
(* The order the lines of a group are exchanged in is that of ChunkSort.   *)
(***************************************************************************)
EXTENDS Integers, Sequences, FiniteSets, SequencesExt

CONSTANTS
  Inputs,     \* the files to start with
  Kind,       \* the first character, extension and category of a text
  OwnName,    \* the texts that contain the name of the file
  MaxNumber,  \* max_number_to_sort
  MaxLines,   \* max_lines_to_check_for_sort_after_include
  MaxGap,     \* max_gap_threshold_between_include_to_sort
  None        \* the null chunk

VARIABLES
  lines,    \* the chunk list
  at,       \* the line that is scanned
  pending,  \* num_chunks: the imports collected, those before line 'at'
  last,     \* p_imp_last: its original line, or None
  running,
  exited,   \* has exit(EX_SOFTWARE) been called?
  grouping, \* mod_sort_incl_import_grouping_enabled
  given     \* history: the file each run so far was given

vars == <<lines, at, pending, last, running, exited, grouping, given>>

src == given[Len(given)]

IsImport(line) == line.kind = "import"

Line ==
  [kind : {"import", "comment", "code"}, text : Seq(Nat \ {0}), comment : BOOLEAN, nl : Nat, orig : Int]

Files == {f \in Seq(Line) : \A i \in DOMAIN f : IsImport(f[i]) => f[i].text # <<>>}

\* Only the last line of a file may be without a newline.
Terminated(f) == \A i \in 1 .. Len(f) - 1 : f[i].nl > 0

ASSUME InputsAssumption == Inputs \subseteq {f \in Files : Terminated(f)}
ASSUME BoundsAssumption ==
  MaxNumber \in Nat /\ MaxLines \in Nat /\ MaxGap \in Nat /\ MaxGap <= MaxLines
ASSUME NoneAssumption == None \notin Int

\* What compare_chunks() looks at: the chunks up to the newline, of which the
\* semicolon comes before any name and a comment after it is one more chunk.
Key(line) == Append(line.text, 0) \o (IF line.comment THEN <<0>> ELSE <<>>)

Before(a, b) ==
  \E i \in 1 .. Len(b) :
    /\ i - 1 <= Len(a)
    /\ SubSeq(a, 1, i - 1) = SubSeq(b, 1, i - 1)
    /\ i > Len(a) \/ a[i] < b[i]

Init ==
  /\ lines \in Inputs
  /\ given = <<lines>>
  /\ grouping \in BOOLEAN
  /\ at = 1
  /\ pending = 0
  /\ last = None
  /\ running = TRUE
  /\ exited = FALSE

-----------------------------------------------------------------------------
(* What is done to the lines of a group                                    *)

\* do_the_sort(): any order that fits; the newlines stay where they are.
Sortings(g) ==
  {[i \in DOMAIN g |-> [g[p[i]] EXCEPT !.nl = g[i].nl]] :
     p \in {p \in [DOMAIN g -> DOMAIN g] :
              /\ \A i, j \in DOMAIN g : p[i] = p[j] => i = j
              /\ \A i, j \in DOMAIN g : i < j => ~Before(Key(g[p[j]]), Key(g[p[i]]))}}

\* remove_blank_lines_between_imports()
Joined(g) == [i \in DOMAIN g |-> IF i < Len(g) THEN [g[i] EXCEPT !.nl = 1] ELSE g[i]]

Apart(a, b) == Kind[a[1]] # Kind[b[1]] \/ (a[1] \in OwnName /\ b[1] \notin OwnName)

\* group_imports_by_adding_newlines()
Grouped(g) ==
  [i \in DOMAIN g |->
     IF i < Len(g) /\ g[i].nl < 2 /\ Apart(g[i].text, g[i + 1].text)
     THEN [g[i] EXCEPT !.nl = 2] ELSE g[i]]

\* dedupe_imports(): of each run of imports that start with the same chunk the
\* last one stays.
Same(a, b) == a.text[1] = b.text[1]

\* delete_chunks_on_line_having_chunk(): up to the comment, if there is one.
DeleteChunksOnLine(line) ==
  IF line.comment THEN <<[line EXCEPT !.kind = "comment", !.text = <<>>]>> ELSE <<>>

Deduped(g) ==
  FlattenSeq([i \in DOMAIN g |-> IF i < Len(g) /\ Same(g[i], g[i + 1])
                                 THEN DeleteChunksOnLine(g[i]) ELSE <<g[i]>>])

\* Mutant: the blank lines are put in before the sort.
FlushedGroupedFirst(g) ==
  IF Len(g) < 2 THEN {g}
  ELSE IF grouping THEN {Deduped(s) : s \in Sortings(Grouped(Joined(g)))}
  ELSE Sortings(g)

Flushed(g) ==
  IF Len(g) < 2 THEN {g}
  ELSE IF grouping THEN {Deduped(Grouped(s)) : s \in Sortings(Joined(g))}
  ELSE Sortings(g)

-----------------------------------------------------------------------------
(* The scan                                                                *)

Beyond(n) == last # None /\ lines[at].orig - last > n

HasNewline == at <= Len(lines) /\ lines[at].nl > 0

\* Lines this far behind the last import are not looked at any more.
TooFar == grouping /\ Beyond(MaxLines)

\* Mutant: the last line of the file is like any other.
EndsGroupButNotAtEnd ==
  \/ ~IsImport(lines[at])
  \/ ~grouping /\ lines[at].nl > 1
  \/ grouping /\ Beyond(MaxGap)

\* Mutant: blank lines are not looked at.
EndsGroupAtCode ==
  \/ ~IsImport(lines[at])
  \/ grouping /\ Beyond(MaxGap)
  \/ at = Len(lines)

\* Does the newline of this line end the group?
EndsGroup ==
  \/ ~IsImport(lines[at])
  \/ ~grouping /\ lines[at].nl > 1
  \/ grouping /\ Beyond(MaxGap)
  \/ at = Len(lines)

\* The chunk p_imp_last points to may have been a duplicate.  What is read
\* from it then may be anything: as far behind as asked for, near, or null.
LastSeen(body) ==
  IF ~IsImport(lines[at]) THEN {None}
  ELSE IF \E i \in DOMAIN body : IsImport(body[i]) /\ body[i].orig = lines[at].orig
  THEN {lines[at].orig}
  ELSE {None, lines[at].orig, -MaxGap, -MaxLines}

\* The newline of a line that goes on with the group.
Collect ==
  /\ running /\ HasNewline /\ ~TooFar
  /\ IsImport(lines[at]) /\ pending < MaxNumber
  /\ ~EndsGroup
  /\ pending' = pending + 1
  /\ at' = at + 1
  /\ last' = lines[at].orig
  /\ UNCHANGED <<lines, running, exited, grouping, given>>

\* The newline of a line that ends it, with the line itself if that is an
\* import.  'next' is the line after it, wherever that is now.
Flush ==
  /\ running /\ HasNewline /\ ~TooFar
  /\ IsImport(lines[at]) => pending < MaxNumber
  /\ EndsGroup
  /\ LET end == IF IsImport(lines[at]) THEN at ELSE at - 1
     IN \E body \in Flushed(SubSeq(lines, at - pending, end)) :
          /\ lines' = SubSeq(lines, 1, at - pending - 1) \o body \o SubSeq(lines, end + 1, Len(lines))
          /\ at' = at - pending + Len(body) + (IF IsImport(lines[at]) THEN 0 ELSE 1)
          /\ last' \in LastSeen(body)
  /\ pending' = 0
  /\ UNCHANGED <<running, exited, grouping, given>>

\* "Number of 'import' to be sorted is too big"
TooMany ==
  /\ running /\ HasNewline /\ ~TooFar
  /\ IsImport(lines[at]) /\ pending >= MaxNumber
  /\ running' = FALSE /\ exited' = TRUE
  /\ UNCHANGED <<lines, at, pending, last, grouping, given>>

\* The end of the list, or the line that is too far from the last import: a
\* group that has been begun stays as it is.
Finish ==
  /\ running
  /\ HasNewline => TooFar
  /\ running' = FALSE
  /\ UNCHANGED <<lines, at, pending, last, exited, grouping, given>>

\* The line numbers of the lines of a file.
Numbered(file) ==
  LET number[i \in 1 .. Len(file)] == IF i = 1 THEN 1 ELSE number[i - 1] + file[i - 1].nl
  IN  [i \in DOMAIN file |-> [file[i] EXCEPT !.orig = number[i]]]

\* The output is given to the program once more.
Again ==
  /\ ~running /\ ~exited /\ Len(given) = 1
  /\ lines' = Numbered(lines)
  /\ given' = Append(given, lines')
  /\ at' = 1 /\ pending' = 0 /\ last' = None /\ running' = TRUE
  /\ UNCHANGED <<exited, grouping>>

Next == Collect \/ Flush \/ TooMany \/ Finish \/ Again

Spec == Init /\ [][Next]_vars

-----------------------------------------------------------------------------
(* Properties                                                              *)

TypeOK ==
  /\ lines \in Files
  /\ at \in 1 .. Len(lines) + 1
  /\ pending \in 0 .. at - 1
  /\ last \in Int \cup {None}
  /\ running \in BOOLEAN /\ exited \in BOOLEAN /\ grouping \in BOOLEAN
  /\ given \in Seq(Files) /\ Len(given) \in 1 .. 2

\* What no import may be taken across: code, and blank lines unless grouping
\* removes them.  Region(f, i) counts those before line i.
Region(f, i) ==
  Cardinality({j \in 1 .. i - 1 : f[j].kind = "code" \/ (~grouping /\ f[j].nl > 1)})

Imports(f, r)  == {i \in DOMAIN f : IsImport(f[i]) /\ Region(f, i) = r}
Comments(f, r) == {i \in DOMAIN f : f[i].comment /\ Region(f, i) = r}
Code(f, r)     == {i \in DOMAIN f : f[i].kind = "code" /\ Region(f, i) = r}

\* No step of the scan, with the list changing under it, loses an import or a
\* comment or takes it across code, and duplicates go only when grouping.
ImportsKept ==
  \A r \in 0 .. Len(src) :
       /\ {lines[i] : i \in Code(lines, r)} = {src[i] : i \in Code(src, r)}
       /\ {lines[i].text : i \in Imports(lines, r)} = {src[i].text : i \in Imports(src, r)}
       /\ Cardinality(Comments(lines, r)) = Cardinality(Comments(src, r))
       /\ ~grouping => Cardinality(Imports(lines, r)) = Cardinality(Imports(src, r))

\* No import is so far behind another that the scan gives up.
Narrow(f) == \A i \in 2 .. Len(f) : f[i].orig - f[i - 1].orig <= MaxGap

\* The scan is over, and the last line was seen by it.
Complete == ~running /\ ~exited /\ Narrow(src) /\ src[Len(src)].nl > 0

\* Lines i and i + 1 are of one group.
Together(i) == IsImport(lines[i]) /\ IsImport(lines[i + 1]) /\ (grouping \/ lines[i].nl = 1)

\* Every group is in order when the scan of a file that ends with a newline is over,
\* the one at the end of the file too, and with grouping holds nothing twice, with imports of one kind
\* following each other and those of different kinds a blank line apart,
\* whatever was deleted between them.
SortedAtEnd ==
  Complete => \A i \in 1 .. Len(lines) - 1 :
    Together(i) =>
      /\ ~Before(Key(lines[i + 1]), Key(lines[i]))
      /\ grouping => /\ lines[i].text # lines[i + 1].text
                     /\ lines[i].nl = 2 <=> Apart(lines[i].text, lines[i + 1].text)

\* The output is left alone by a second run, which the tests of the formatter
\* require of every one of their files (tests/test_uncrustify/test.py).
Layout(f) == [i \in DOMAIN f |-> <<f[i].kind, f[i].text, f[i].comment, f[i].nl>>]
Stable == [][Len(given) = 2 /\ Narrow(given[1]) => Layout(lines') = Layout(src)]_vars
=============================================================================
