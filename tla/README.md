# uncrustify: a verification project

uncrustify is a sequential program: one thread takes one file after another
through a pipeline of passes over one doubly linked list of chunks (tokens).
What is hard about it is not concurrency inside the process but

* state that is kept in two places and edited by hand in both (an array of
  chunks and the list, a frame and the stack it came from, a file and its
  digest),
* walks over a list that the walk itself changes,
* parses that are interrupted and resumed: preprocessor directives may stand
  anywhere in a statement,
* rewriting that must not change what a program means, each pass judging by
  the types, levels and marks the passes before it have set,
* guesses that are given up half way: the encoding of a file, the members of a
  group of aligned lines,
* the files it writes: the user, another process, a signal or a full disk can
  come between any two system calls.

Source references below are relative to the repository (`src/...`).

## 1. Inventory

The order is that of `uncrustify_start()` and `uncrustify_file()`.

| component | state it keeps | operations | what makes it correct | modelled |
|---|---|---|---|---|
| command line, file lists (`uncrustify.cpp` `main`, `args.cpp`) | the global `cpd` | one run per file, partial reset in `uncrustify_end()` | nothing of one file is left for the next | planned |
| options (`option.cpp`, `options.h`) | the option registry | load, save, override inside Qt macros | saved and restored in pairs | planned |
| file replacement and backups (`uncrustify.cpp` `do_source_file`, `backup.cpp`) | four files, locals of the run | open, write, digest, compare, rename | the source is replaced atomically; the text the user wrote survives in the backup | **SourceFile, AtomicRewrite** |
| digests (`md5.cpp`) | - | MD5 | RFC 1321 | taken as injective |
| character sets (`unicode.cpp`, `unc_text.cpp`) | `MemoryFile`, `cpd.encoding`, `cpd.hasBom` | find out the encoding, decode, choose the output's, encode | the text is read as what it is, its bytes are given back, a second run reads what the first wrote | **Unicode, UnicodeText** |
| tokenizer (`tokenizer/tokenize.cpp`) | `TokenContext` with save and restore | `parse_next` and helpers | no character is lost, context restored on a wrong guess | planned in part |
| token cleanup (`tokenizer/tokenize_cleanup.cpp` ...) | chunk types | local rewriting | - | no |
| chunk list (`ListManager.h`, `chunk.cpp`) | next, prev, head, tail | add, remove, move, swap | the pointers are one sequence, in both directions | **ListManager, ChunkList** |
| brace cleanup (`tokenizer/brace_cleanup.cpp`, `parsing_frame.cpp`) | `BraceState`, `ParsingFrame` | one step per chunk, insertion of virtual braces | braces and levels are where the grammar has them | **BraceCleanup, Statements** |
| frames of conditionals (`parsing_frame_stack.cpp`) | stack of frames, `pp_level` | `check()` per directive | the parse goes on from the `#if` branch | **ParsingFrames, FrameStack, ConditionalRegions** |
| marking of constructs (`tokenizer/combine*.cpp`, `EnumStructUnionParser.cpp`) | types and flags of chunks | heuristics | none stated but the test files | no |
| brace, loop and semicolon rewriting (`braces.cpp`, `rewrite_infinite_loops.cpp`, `semicolons.cpp`, `remove_extra_returns.cpp`) | the list; types, levels, parents and two flags of its chunks | convert, insert, remove, move | the program means what it meant; braces pair; a pass ends and leaves nothing to do | **Rewriting, FullBrace, LoopRewrite, CaseBrace, Scrub, ChunkSeq, Meaning** |
| parenthesis and type rewriting (`parens.cpp`, `change_int_types.cpp`) | the list | local rewriting | the program stays the same | no |
| newline passes (`newlines/*.cpp`), newline loop | newline counts, `cpd.changes` | add, remove, count | a fixpoint is reached in `pass_count` rounds | planned |
| import sorting (`sorting.cpp`) | array of import chunks, the list | collect, sort, group, remove duplicates | no import is lost or crosses code; a second run changes nothing | **ChunkSort, ImportSort** |
| space pass (`space.cpp`) | - | a table of rules on pairs | - | no |
| indentation (`indent.cpp`) | a second frame stack | push and pop per chunk | pushes and pops match | planned |
| alignment (`align/*.cpp`) | `AlignStack`: aligned, skipped and scratch chunks | add, add again, new line, flush | a chunk is in one group; a group is in one column, within span and threshold; the calls return | **AlignStack** (the passes that walk: no) |
| line splitting (`width.cpp`), second loop | candidate places, `cpd.changes` | split at the best place | each round makes progress | planned |
| output (`output.cpp`) | column, comment reflow state | write | columns are what the chunk says | planned in part |
| detection, logging, web build, Pawn | - | - | - | no |

The components interact by calls and through the list; the chunks are the only
data a pass hands to the next one. `cpd` carries the options of the run, the
counter of changes and the output file. `PROJECT.json` lists every component
with the reason why it is not modelled, and every hazard at its line.

## 2. Modules

```
AtomicRewrite      <= SourceFile        <- MCSourceFile, SourceFileProofs
ConditionalRegions <= FrameStack        <- MCFrameStack, FrameStackProofs
                       | ParsingFrames (operators, shared)
Statements        ... BraceCleanup      <- MCBraceCleanup, BraceCleanupProofs
                       ListManager (operators) - ChunkList <- ChunkListProofs
                       ChunkSort        <- MCChunkSort, ChunkSortProofs
                       ImportSort       <- MCImportSort, ImportSortProofs
                       AlignStack       <- MCAlignStack, AlignStackProofs
Meaning           ... Rewriting         <- MCRewriting (inputs: Programs)
                       | FullBrace, LoopRewrite, CaseBrace, Scrub (operators)
                       | ChunkSeq (operators, shared)
UnicodeText       ... Unicode           <- MCUnicode, UnicodeProofs
                       | UnicodeFiles (a text and its files, for both)
```
`<=`: the module on the right is shown to implement the one on the left.
`...`: the module on the left is the reference the one on the right is checked
against; it is written from the language or the standard, not from the code.

### SourceFile: `do_source_file()` and the backup protocol

`fs` maps the four paths of one file to their data: the source,
`<file>.uncrustify`, `<file>.unc-backup~`, `<file>.unc-backup.md5~`. Data is a
member of `Contents`, no file, or `Torn`. `pc` is the place in
`do_source_file()`; `raw`, `need_backup` and `dig` are its locals and those of
`backup_create_md5_file()`. There is one action per system call with an effect
another process can see: `OpenBackup` truncates, `WriteBackup` fills, and so on
down to `Rename`. `UserEdit` is the user saving the file, `Crash` the end of the
process anywhere. `Failures` says which of five kinds of failure happen. All
kinds of runs follow one another over the same four files; two histories tell
them apart: `quiet` while nothing has failed and nobody has edited during a run,
`dirty` while a run may have left `<file>.uncrustify` behind.

`AtomicRewrite` is what a user relies on: a run looks at the file once and
changes it at most once, into the formatting of the text it has seen.

### ParsingFrames, FrameStack: conditionals

`ParsingFrames` has `push`, `pop` and the three directives of `check()` as
operators on a record with the frame, the stack, `pp_level`, the level returned,
`exit()` and the option `pp_unbalanced_if_action`. `FrameStack` applies them to
any sequence of directives; between two of them a frame may become anything
(`ParseCleanup`), so what holds here holds for every source. `regions` is a
history of the open `#if`s. `ConditionalRegions` says what a conditional means
for a parse: every branch starts from the state before `#if`, the parse goes on
from the first branch, a `#define` body leaves no trace.

### BraceCleanup: the parse

`st` is the chunks, the position, the frame with its paren stack, the stack of
frames and what `parse_cleanup()` keeps between its parts. One action per turn
of the loop of `brace_cleanup()`: `Layout` (comments and newlines), `Preproc`
(a chunk of a directive) and `Token`. The insertion of virtual braces changes the
list the loop walks. Texts of chunks do not matter here, only types.
`close_statement()` and `handle_complex_close()` call each other and pop one entry
each time; here they are one step to the entry at which they stop (`Remaining`),
so that the module has no recursive operator. `Inputs` is any set of lists that
`tokenize()` can produce: no virtual braces, and a directive begins with its `#`,
behind a newline or at the start, and ends at the newline of its line
(`InputsAssumption`, `tokenize.cpp:2797-2905`).
`Statements` is the reference: it generates sources from a grammar of C
statements together with the places where the braces belong, and does not look
at the algorithm.

### ListManager, ChunkList: the list

`ListManager` translates each operation of the class, with the stores in the
order of the code; removal looks at the neighbours of the chunk, not at its place
in a sequence. `ChunkList` is every sequence of the edits `Chunk` makes. `order`
is the sequence the passes take the list for.

### ChunkSort, ImportSort: sorting of imports

`ChunkSort` is the loop of `do_the_sort()`, which follows the cycles of the
permutation `std::sort()` returned and exchanges lines and array entries two at
a time. `ImportSort` is `sort_imports()`: the scan collects imports, decides at
each newline whether the group ends, and sorts, groups and frees it of
duplicates in the list it goes on scanning. There a sorted group is any order
that fits, which is what `ChunkSort` shows. A group is a sequence of lines;
texts are numbers in the order of `compare_chunks()`. After the scan the program
is run once more on its own output.

### AlignStack: groups of lines

A pass hands the stack one chunk of a line (`AddItem`) and tells it of the
newlines (`EndLine`). `Add()` takes the chunk into the group or skips it;
a chunk that widens the group brings back the skipped ones (`ReAddSkipped()`,
one turn of its loop per step), a newline beyond the span closes the group
(`Flush()`), which moves its chunks to one column and adds the rest again. These
functions call one another, so `calls` is the call stack, as far as it is needed:
the loops with their index and the two halves of the `Flush()` that drops its
first item. The four stacks of chunks are members and are shared by all calls;
`scratch` is the one over which `ReAddSkipped()` loops. Abstractions: one chunk
per line, its tight column, the room before it and its length are data of the
input; the style of `*` and `&` is `SS_IGNORE`.

### Rewriting: braces, loops, cases, semicolons and returns

The list of chunks is a sequence here (`ChunkSeq`, with the searches and edits of
`Chunk`; that the pointers are one is ChunkList's). Each pass is a module of
operators from a list, a position and the options to a list: `FullBrace`
(`mod_full_brace_*`, the if chains), `LoopRewrite` (`mod_infinite_loop`),
`CaseBrace` (`mod_case_brace`, `mod_move_case_break`, `mod_move_case_return`),
`Scrub` (`mod_remove_extra_semicolon`, `mod_remove_empty_return`). `Rewriting`
composes them in the order of `uncrustify_file()` and `do_braces()`: one action per
kind of turn, at the next chunk on which the pass acts, and going on from the
chunk the code looked up, before or after its edit. The types, levels and parents
the edits set are part of the model, because later turns judge by them.

`Meaning` reads the text of the result as a compiler would: it knows no types,
levels or virtual braces, parses the tokens, and writes them down in a form in
which all programs that do the same are equal (all bodies in braces, one form of
infinite loop, no empty statements). A comment or a directive ends with its line,
so an edit that puts code behind one changes the meaning.

`Programs` builds the inputs as `uncrustify_start()` leaves them, with virtual
braces. Every program of the `rewriting` run, under every record of its options,
was also given to the program itself, built from this source, and the tokens it
wrote are those of the model.

### Unicode: reading and writing characters

`raw` is the bytes of a file. `DetectBom` and `Guess` choose a decoder, which goes
over the bytes one character at a time (`ReadUtf8`, `ReadUtf16`), and may give up
and hand over to the next one; `DecodeBytes` takes everything. `Begin` chooses
the encoding and the BOM of the output as the head of `uncrustify_file()` does,
`WriteChar` is one call of `write_char()`, and `RunAgain` gives the output to a
second run with the same options. Bytes and code points are numbers, a mask is an
interval and a shift a division. `UnicodeText` is UTF-8 and UTF-16 by their
definition, and `UnicodeFiles` says which files are files of a text. The passes in between are left out: the text that is written is the
text that was read, behind the file header the options ask for.

## 3. Runs

| run | question | bounds | result |
|---|---|---|---|
| `source` | is the source replaced atomically, and is what the user wrote backed up, run after run, under crashes, errors, rejected texts and edits at any step? | three texts (messy, its formatting, another), all options `main()` lets through | holds |
| `source_original` | is the text the user wrote still there after two runs? | no failure | **violated** |
| `frames` | do the frames do what conditionals mean, for any parse? | three states, two of one brace level; nesting to 3 | holds |
| `braces` | are braces and levels where the grammar puts them? | about 8,250 sources, see below | holds |
| `chunk_list` | do the pointers stay one sequence? | five chunks, any number of edits | holds |
| `chunk_sort` | does the exchange loop sort, and end? | five imports, two pairs equal, every permutation | holds |
| `imports` | is an import lost, left unsorted or unstable? | four lines, three names, comments, blank lines, gaps | holds |
| `imports_packages` | the same for imports of several chunks | three lines, four names | **violated** |
| `align` | are groups disjoint, in one column, within span and threshold, however deep the calls? | four or five chunks at two to four columns, eight settings of a stack | holds |
| `rewriting` | does the program mean what it meant after every turn of every pass? | 10,820 pairs of a program and options | holds |
| `rewriting_else` | the same for chains whose braces keep an else from an inner `if` | `mod_full_brace_if_chain` 1 and 3 | **violated** |
| `unicode` | is a file read as the text it is and given back, and is the output read as what it is? | 70,680 pairs of a file and options, run twice | holds |

Why the bounds are enough. `source`: the protocol compares texts for equality
only and keeps two besides the current one (backup and digest); the third text
is the edit between two runs. `frames`: `check()` looks at the two topmost
frames, so three levels have one it must not touch; two states of the same level
are told apart by the properties and not by the check. `chunk_list`: an operation
touches two chunks and their four neighbours, and head and tail coincide with any
of them on shorter lists. `chunk_sort`: cycles of length one to five and several
at a time. `imports`: a group of three (the limit `MaxNumber` here) followed by a
line that ends it; the constants 1024, 128 and 32 are 3, 4 and 2, and the gap of
the original lines is independent of the newlines left, as `nl_max` makes it.
`braces`: bodies nest to three, which covers a body that ends another that ends
another; every combination of `if`, `else`, `do`, `while` and block, plain bodies
of the other statements, `if constexpr`, labels, square brackets and a lambda with its block
inside of parentheses, and directives around, inside and across statements.
`align`: a call within a loop of `ReAddSkipped()` that itself adds again needs
one chunk that is taken, two that are skipped and one that widens the group; the
fifth closes the group. The settings are those with which the passes start a
stack: spans, relative and absolute thresholds, gaps, right alignment, tab stops,
messages with `m_skip_first`, typedefs. A newline chunk is one or two
newlines (`Blank`) and another may follow, so that the next chunk is within a
span, at it and beyond it.
`rewriting`: every statement with a body in every form of body (braces with one
and two statements, with a comment, a blank line, nothing, a nested block; none,
with and without a newline) and every pair that ends in an `if`, under every
value of the options of a pass and, in the family `all`, with all passes on.
`unicode`: texts of one and two characters at the first and last code point of
each length and next to the surrogates, longer ones for the guess of UTF-16, in
all encodings; and byte strings of up to six bytes around the same boundaries,
in no encoding or with a BOM that lies.

What the violated runs show (the `findings` of `PROJECT.json` quote the lines):

* `source_original`: `backup_create_md5_file()` is called before the rename and so
  takes the digest of the old text: the second run over a file overwrites its
  backup with uncrustify's own output.
* `imports_packages`: `dedupe_imports()` compares the first chunk of two imports
  and deletes the line of one.
* `rewriting_else`: `can_remove_braces()` looks for an else behind the braces only
  if their parent is `if`, not `else if` or a loop; the else ends up with another
  `if`.

### Properties

The comment above each property says what code behaviour it is about. In short:

* SourceFile: `SourceNeverTorn`, `NoLeftover`, `Atomic`, `UntouchedUnlessChanged`
  in every run; `BackedUp` as long as the runs are quiet; `OriginalKept` is what
  the comment of `backup.cpp` promises.
* FrameStack: `FramesMatchRegions` ties the stack to the open conditionals,
  `Transparent` is the refinement of ConditionalRegions.
* BraceCleanup: `Braced`, `FlowUnaffected`, `LevelsMatchNesting` (and both stacks
  are empty at the end), `ElseExpected`, `Accepted`, `Advances` (each turn of the
  loop, which goes on with chunks it inserted, gets closer to the end).
* ChunkList: `ListIsOrder`.
* ChunkSort: `InStep`, `SortedAtEnd`, `FewSwaps`, `NeverUnsettles`, and the
  liveness property `Terminates`.
* ImportSort: `ImportsKept`, `SortedAtEnd` (with the blank lines between groups),
  `Stable`. The last two leave out gaps of more than `MaxGap` lines, and
  `SortedAtEnd` files whose last line has no newline. The code gives such groups
  up, and with a gap a second run does sort the file otherwise.
* AlignStack: `InOnePlace` (a chunk is aligned once, and never a candidate again),
  `LoopsInOrder` (a loop whose `m_scratch` was replaced is over), `OneColumn`,
  `SpanKept` (two lines of a group further apart than the span have one between
  them on which something was aligned), `ThresholdKept` (no column of a group
  is further than the threshold from the next one, an absolute threshold from any), and the liveness property
  `CallsReturn`. `SpanOfGroupKept`, which asks for a line of the same group, does
  not hold and is checked by no run (section 6).
* Rewriting: `MeaningKept` after every turn; `BracesPair` (the search by type and
  level finds the partner of a brace), `ChainsAgree` (the blocks of a chain have
  braces or have none), `Settled` (a pass leaves nothing it would act on again),
  `Progress` (a turn leaves less to do).
* Unicode: `TextKept` against the standard; `SameBytes`, which holds for any bytes
  however wrong the guess, but for code points above U+10FFFF and overlong sequences
  of UTF-8; `OnlyIllegalLost`, which says exactly what becomes of those and that nothing
  else is lost; `ReadsBack` for a second run,
  if the encoding can hold the text (`Fits`).

### Fairness and deadlock

`Terminates` assumes weak fairness of the next step of `do_the_sort()`: it is a
loop of one thread without a call that blocks. `CallsReturn` assumes it of
`Return`, the steps of calls that are under way, for the same reason; nothing is
assumed of the pass, which may stop adding chunks. SourceFile states weak fairness of
the steps of a run, never of `Start`, `UserEdit` or `Crash`: a system call
returns, and nobody must start the program. The other specifications are safety
only. Deadlock is not checked where the program ends: after `exit()`, at the end
of the list, or when the loop is over.

## 4. Proofs

Proved by TLAPS for every value of the constants; the module of the proofs has
the name of the component with `Proofs`.

| theorem | assumptions | statement |
|---|---|---|
| SourceFileProofs `TypeCorrect` | those on the constants | `TypeOK` (with it, that the source file never disappears) |
| `NeverTorn` | `"diskFull" \notin Failures` | `SourceNeverTorn` |
| `NothingLeft` | - | `NoLeftover`, under every failure |
| `BackupHoldsText` | - | `BackedUp` (a property of what happens before the first failure) |
| `NothingTouched` | - | `UntouchedUnlessChanged`, under every failure |
| `Refinement` | `"diskFull" \notin Failures` | SourceFile implements AtomicRewrite |
| FrameStackProofs `TypeCorrect`, `FramesMatch` | - | `TypeOK`, `FramesMatchRegions` |
| `Refinement` | - | FrameStack implements ConditionalRegions |
| BraceCleanupProofs `InvAlways` | `InputsAssumption` | types, and the invariant below, for sources of any length, legal or not |
| `ElseGetsExpected`, `AlwaysAdvances` | the same | `ElseExpected`, `Advances` |
| ChunkListProofs `ListStaysLinked` | `Null \notin Chunks` | `ListIsOrder`, for any number of chunks |
| ChunkSortProofs `ArrayInStep`, `StaysOnCourse`, `Sorts`, `FewSwapsAlways`, `SettledStays` | `Less` is a strict weak order | the safety properties of ChunkSort, and `OnCourse` between them |
| AlignStackProofs `BaseIsInvariant` | those on the configurations | types of the stack and of the calls under way, for any chunks, options and depth of calls |
| `LoopsStayInOrder`, `StaysInOnePlace`, `StaysInColumn`, `SpanStaysKept`, `ThresholdStaysKept` | the same | `LoopsInOrder`, `InOnePlace`, `OneColumn`, `SpanKept`, `ThresholdKept` |
| ImportSortProofs `TypeCorrect` | those on the bounds and inputs: only the last line may lack its newline | `TypeOK`, and what is collected are imports of one region, for files of any length |
| `ImportsStayKept` | the same; no grouping, or no two imports that differ begin alike (`Unambiguous`) | `ImportsKept` |
| `SortedAtTheEnd` | the same | `SortedAtEnd` |
| `StaysStable` | the same | `Stable`, when no two imports have more than `MaxGap` - 1 blank lines between them |
| UnicodeProofs `TypeCorrect`, `BytesGivenBack`, `LossesKnown` | those on the inputs: bytes are bytes, a header is code points | `TypeOK`, `SameBytes`, `OnlyIllegalLost`, for files of any length |
| `ReadBack` | the same | `ReadsBack`: a second run over the output of any file reads its text and writes its bytes |
| `TextsKept` | the same; a file whose text is known is one of its files (`FilesOf`) | `TextKept`: texts of any length are read from their files, and written as the standard has it |

The arguments.

* SourceFile. `SourceNeverTorn` is not inductive: `Rename` copies
  `<file>.uncrustify`. The invariant adds that at the steps between `WriteOut`
  and `Rename` that file holds `Format[raw]`, and that `raw` and the source are
  complete texts. A crash forgets `pc`, so what it leaves needs no clause: no
  run reads the leftover before it has opened, and so truncated, it.
  `Refinement` is this invariant step by step: `Rename` is `Commit`, every other
  end of a run `GiveUp`, `LoadMemFile` is `Look`, `UserEdit` is `Edit`.
  `BackupHoldsText` rests on `QuietInv`: until something fails, the digest is that of
  the text in the backup whenever a run may look at it, as a run that writes the
  one goes on to write the other, over the same text; so a digest that matches
  is as good as a copy. `NothingTouched` needs that a run behind the dry run is not
  one of `--check` and has a text that is to change (`LookedInv`).
* FrameStack. `FramesMatchRegions` is inductive with the type invariant and the
  fact that inside a `#define` a frame is saved: for each
  open conditional the stack above the one outside of it is `[base]` in its first
  block and `[base][if]` later, and the ifdef type of the frame above says which.
  That is what `check()` relies on when it reads the stack by position, and what
  makes each directive a step of ConditionalRegions.
* BraceCleanup. `ElseExpected` is not inductive: a `#` is code that comes before the
  `else`, a frame may be put away while it waits and come back elsewhere, and what
  comes changes under the loop. The invariant (`Ruled`) says of the state between two
  turns that no saved frame waits and no entry for a virtual brace has a stage; that
  the frames are those of the open conditionals and of a `#define` body (`Framed`, `Shape`);
  that what comes is source, or one closing virtual brace and then source, and in
  that case the entry on top is the one it closes (`Coming`); that a frame in which something is
  open has code before it, and a newline if that code is in a directive that has
  ended, which is where `insert_vbrace()` finds a place (`Started`); and that an entry
  that waits has what it waits for in front of it and is parsed next (`Expected`).

  Most of the proof is that each function, whatever the stack holds, leaves the
  source behind the current chunk as it is (`Kept`), except that those which end a
  statement may put one closing virtual brace there (`CloserPut`), and then for the
  entry on top. A look ahead that sees an `else` stops at it or at a directive, so
  an entry is only left waiting when nothing but layout is in between (`Comes`); a
  directive in between makes `NextStage` close the statement. `AlwaysAdvances`
  follows from the same facts: a turn leaves what came behind its chunk, or that
  behind a closing brace, which `Unparsed` does not count, and a turn at such a brace
  takes its entry off the stack. No legality is assumed: where the code ends the
  process there is nothing to show.
* ChunkList. `Linked(l, s)` says head, tail and both pointers of every chunk
  from one sequence without repetition; a lemma for each operation of the list
  manager gives the sequence after it, also for `Swap()` of neighbours in either
  order, where the code reads the place of one chunk after the other is out.
* ChunkSort. The invariant has the settled part (`positions[i] = i` below `idx`),
  that `positions` stays a permutation and reads, through the array of the
  moment, the order of `std::sort()` (`OnCourse`, `Filled`); and that the calls so far are no more than
  the settled places, with one place to spare as long as a cycle is open (`Paid`).

* AlignStack. `LoopsInOrder` says nothing of the loop that runs, and of `skipped`,
  which becomes `scratch` when a loop starts. The invariant says that the index of
  every loop below the top of the call stack is beyond the length of `scratch` and
  of `skipped`: a loop is only left for a call after its `skipped` was emptied into
  `scratch`, so that what is skipped anew within the call is fewer than what the
  loop has gone over.

  The other theorems share this and `TypeInv` and `ModeInv` (what a place in the
  code says of the call at the top) as `BaseInv`, and the fact that a step adds a
  chunk, flushes, or does neither (`AddStep`, `FlushStep`, `QuietStep`; lemma
  `Steps`), from wherever in the calls it is made; each invariant then has one
  lemma per kind. `PlaceInv` counts as a place what the loops on the call stack
  still have before them (`WaitingIn`). `TightInv` says that what is in no
  group is in its tight column, so that the column found at the last addition
  is behind every text of the group when `Flush()` moves it. `SpanInv` follows
  `nl_seqnum`: each candidate has a chain of placed lines, no two further apart
  than the span, up to it (`Bridged`). `ThresholdInv` has the extreme columns, which is
  all the code keeps, attained by members of the group: an absolute threshold
  against them is one against all, and of a relative one the chunk that attains
  the maximum is the witness.
* Induction. The provers have no induction over data. Least elements of sets of
  numbers (`LeastNumber`, by well-founded induction on the naturals) give it where
  what is to be shown is membership in a set (`InductiveSet`), and functions defined
  step by step (`RecursiveValues`).
* ImportSort. Two files are `Alike` when every region has the same code, as many
  comments, the same import texts and, without grouping, as many imports. Putting
  the same lines before and behind keeps that, so of a flush only the group
  matters: sorting moves its lines by a bijection, and the removal of duplicates is
  followed line by line. For it the first chunks must tell imports apart, which
  is the hypothesis of `ImportsStayKept`; that it cannot be dropped is the run
  `imports_packages`. That the group is of one region is `Collected`.

  `SortedAtEnd` needs an invariant of the whole scan (`OrderInv`): what it has not
  seen is the end of the file as it was (`Remaining`), and the import it remembers is
  the line before (`Remembered`), so that it never takes two neighbours for far
  apart; behind it the groups are in order and no later line joins them (`Sorted`,
  `Closed`); and when it is over it was at the end (`Through`). Removal of duplicates keeps the last of the
  imports that start alike, so a line that stays differs from its neighbours.

  `Stable` is about two runs. The order of the keys is total and two lines with one
  key look the same (`BeforeTotal`, `KeyTells`), so a permutation of lines in order
  that is in order too puts a like line in each place (`OneOrder`), and with the
  blank lines and texts a grouped file has, grouping and the removal of duplicates
  do nothing (`FlushKeeps`). What the first run leaves is `Lasting`: in order up to
  some line, and behind it nothing but a group that no newline ends, which the first
  run did not flush. `Twice` carries this through the second run, with the line
  remembered being the line before, so that the second run does not flush that
  group either (`FlushedInOrder`). This last step needs the hypothesis: the newline
  counts, which other passes may have raised since the line numbers were taken,
  are the distances the second run sees. Lines B, A, C, with three newlines
  (more than `MaxGap`) between B and A and none behind C, are a group left alone by
  the first run and cut at the gap, sorted to A, B, by the second.
* Unicode. `SameBytes` relates the output to the bytes of the file through places
  the decoder no longer knows, so the invariant (`Reading`) says of every character
  read that it lies between two places of the file, that the encoding the
  decoder takes the file for can hold it, and that its encoding is the bytes
  between them unless they were more than it needs; `Places` says that a decoder
  that is through is at the end of the file and what the text of the output ends
  with. Then `WriteChar` appends the next bytes. The arithmetic is in the lemmas
  on sequences of one to four bytes and on pairs of surrogates: what
  `decode_utf8()` and `decode_utf16()` compute, `encode_utf8()` and
  `write_utf16()` undo. For `OnlyIllegalLost` the places of the characters are in
  order one behind another, so that each character has bytes of its own to be
  compared with; what can be read up to U+10FFFF has at least one byte in every
  encoding the output may have, its own or UTF-8, and what is above has none; and an
  overlong sequence is not what `encode_utf8()` makes of the character
  (`NotShortest`, `TooLarge`).

  `ReadsBack` is about two runs, and its invariant (`TwoRuns`) has a part for each.
  `Outputting`: what is written lies behind the BOM character by character, each
  at the place where the one before ends (`Laid`); the text and the encoding say
  what it is (`OneOutput`). `FirstRun`: where `decode_utf8()` gives up the file is
  `Stuck`, and a header of ASCII in front moves that place and nothing else
  (`StuckBehind`). `SecondRun` says for each decoder how far it has come in the
  text of the first run (`SoFar`), by the lemmas `DecodesUtf8` and
  `DecodesUtf16`: what `encode_utf8()` and `write_utf16()` compute is decoded
  to the same character. The rest is that the second run takes the same turns: the
  BOM is found (`BomFound`) or none is (`NoBomOfUtf8`), the bytes are not guessed to
  be UTF-16, as they have no zero before the end (`ZerosOfUtf8`, `NoGuess`); a
  text in UTF-8 that looks like ASCII is (`AsciiOfUtf8`) and is written as the
  same bytes; and the options lead from the encoding of the output back to it
  (`Chosen`).

  `TextKept` compares with the standard, whose encoding of a text is a fold of
  the community modules. Character by character it is what the program writes
  (`StandardUtf8`, by the number of limits the character has passed, and
  `StandardUtf16`), and by induction over the number of characters put
  together so is the whole text (`Flattened`, `StandardEncoded`,
  `StandardWithBom`): every file of a text is an output of it, and the lemmas
  of the second run say how it is read. `KnownRun` says where the decoder is in
  it. New is UTF-16 without a BOM: every character is a word with a zero in it, so
  half of the bytes are zeros (`PlainWords`, `ZerosOfWords`, which counts them by a
  bijection), and the places of the first three tell the order of the bytes
  (`GuessIsRight`).

What stays with TLC.

* Liveness under fairness: `Terminates` and `CallsReturn`.
* Agreement with a grammar. `Braced`, `FlowUnaffected` and `LevelsMatchNesting` compare the
  result of BraceCleanup with the sources of `Statements` or fold over it, and
  `Accepted` is about legal sources only, which a recursive grammar
  generates: an argument by induction over programs, which the provers
  lack.
* Rewriting: `Meaning` is recursive, as are the searches of the passes, and what is
  asked is again about every program. A module that reaches a recursive operator
  is out of the provers' reach.

## 5. What is left out, and why

* SourceFile: a full disk under `WriteOut`. The code does not look at the result
  of `fputc()` or `fclose()` and then renames a cut file over the source;
  nothing can be promised, so the passing runs and the theorems exclude it.
  Digests are taken as injective. The text of a rejected file is not modelled.
* AlignStack: the styles of `*` and `&`, and the shift of the rest of the line in
  `align_to_column()`. The passes that walk the list are any sequence of chunks and
  newlines.
* Rewriting: the braces of functions and of C# `using`, comments that name what a
  brace closes (`mod_add_long_*`), cases that end in a directive, and the
  semicolons of D, Java and Objective-C. Two searches in the code do not come back
  from the end of the list: `find_start_brace()` when no brace follows (section 6),
  and the one for the end of a `return` (`braces.cpp:1269-1280`), which in a `switch`
  always meets a `}`; in the model both return 0. Inputs on which a pass is known to change
  the meaning are in families of their own in MCRewriting (section 6).
* Unicode: `ReadsBack` leaves out a text that begins with a BOM of its own,
  characters the encoding of the output cannot hold, and a header with a 0 in it or,
  in front of a file of ASCII or of bytes in no encoding, with other characters
  than ASCII (`Fits`): the first run looks at the bytes and for zeros in the file
  only, and the next one finds the header there. `TextKept` asks for the standard's
  bytes only if the header is characters, those of Latin-1 for an output in ASCII. An empty file never gets to the decoder. `UncText`, the text with its UTF-8 form, is data of the passes.
* FrameStack: `indent_text()` uses the same stack in the same way; only the
  client `brace_cleanup()` is modelled.
* BraceCleanup: the branches for Pawn, D, C#, Vala and Objective-C, namespaces
  and classes, angle brackets, and the pointers from `case`, `default` and
  `break` to their `switch`. `pp_unbalanced_if_action` has its default. No directive
  of the inputs has a body of one chunk (`CT_PREPROC_BODY`: `#pragma`, or one the
  tokenizer does not know), for which `insert_vbrace()` puts the brace before the
  directive (`brace_cleanup.cpp:1371-1378`).
* ChunkList: `Swap()` of the first chunk with one that is not its neighbour loses
  the first chunk, as there is none to put it after; no caller does that (the
  comment at `Swappable`).
* ImportSort: the preferences of `compare_chunks()` are an order of numbers. With
  `mod_sort_incl_import_ignore_extension` the code's comparison is not a strict
  weak order and the result of `std::sort()` is undefined.

* Most of the source is neither: the passes over newlines, spaces and columns, the
  marking of constructs and the tokenizer are some seventy thousand lines of rules
  on neighbouring chunks under eight hundred options. They keep hardly any state
  from one chunk to the next, and their only specification is the test files. A
  model of a table of rules would be the table.

## 6. Known divergences

Besides the findings, where the code and what is said of it disagree. Those marked
(T) can be had from TLC by the change of a configuration that is named, those
marked (P) were seen with the program.

* (T, P) `ReAddSkipped()` forgets the rest of its entries when `Add()` widens the
  group within the loop and calls it again (`align/stack.cpp:80`, against
  `align/stack.h:140` and `stack.cpp:578`): with `align_assign_span=4` and
  `align_assign_thresh=2` the fourth of `a`, `aaaaaa`, `aaaa`, `bbbb`, `aaa`, each
  assigned to in lines far enough apart, stays unaligned. MCAlignStack with
  `Configs <- Sparse` violates `AllAddedAgain`.
* (T, P) `align_assign_span` does not hold within a group: candidates that are put back
  when a group is closed are kept apart no longer by the lines between them, which
  went with that group. With `align_assign_span=3`, `align_assign_thresh=2` the third
  and the last of `a`, `bbbbb`, `cccccccccc`, `ddd`, two blank lines, `eeeeeeeeeeee`,
  each assigned to, are aligned, four newlines apart and with no line of theirs in
  between. MCAlignStack with `Configs <- Apart` violates `SpanOfGroupKept`.
* A lone typedef sets `m_gap` to 1 and nothing sets it back (`stack.cpp:420`,
  `options.h:3822-3824`); `Flush()` keeps skipped items by the number of the last
  entry (`stack.h:112-113`), so that groups may interleave.
* (T) A simple conditional in front of an `else` does affect program flow:
  `handle_complex_close()` looks for the else with a function that stops at a
  directive (`brace_cleanup.cpp:1183`, against `:349`). MCBraceCleanup with
  `Family = "else"` violates `FlowUnaffected`.
* (T) The loop of `maybe_while_of_do()` that is to step over a directive never runs
  (`brace_cleanup.cpp:285`). `Family = "do"` violates `WhileOfDoFound`.
* (P) `mod_infinite_loop=2` turns `if (a) do if (b) x(); while (1); else y();` into
  loops whose body ends in an `if` that takes the else (`options.h:4480-4493`).
* (P) `mod_infinite_loop=1` does not end for `#define M while (1) x()` in a file with no
  brace behind the macro: `find_start_brace()` goes on at the null chunk
  (`rewrite_infinite_loops.cpp:204`).
* (T, P) `mod_infinite_loop=3` with `#define M while (1) x()` puts the `while` into the
  function behind the macro (`Families = {"open macro"}`).
* (T, P) `mod_case_brace=add` puts a brace behind a comment and into the next case for
  `case 1: x(); /* c */ case 2:` (`Families = {"line of case"}`); it gives up on
  `case 1: lbl: case 2:`, which is legal; `remove` on an empty last case leaves a
  label without a statement.
* (P) `mod_remove_empty_return` removes a `return;` that is not the last statement
  (`options.h:4471`).
* (P) `mod_full_brace_if_chain=3` does not do what `options.h:4300-4304` says;
  `=1` with `mod_full_brace_if=remove` leaves a chain with and without braces; the
  pass over the chains is not idempotent, and conditions over several lines are
  judged per brace.
* The result of `fclose()` on the backup is not looked at (`backup.cpp:101`, against
  `backup.h:38-39`).
* (P) A file header in UTF-8 (`cmt_insert_file_header`) put into a source that is
  ASCII or bytes loses its characters above 255, and those from 128 on become
  Latin-1 (`unicode.cpp:418`); with `utf8_byte` the next run encodes them again.
* (P) `decode_utf8()` takes `F4 90 80 80`, a code point above U+10FFFF, which
  `encode_utf8()` drops, and `C1 81`, which comes out as `A`. `SameBytes`
  leaves files with such sequences out (`Shortest`, `LastCodePoint`);
  `OnlyIllegalLost` says that of all that is read these code points are lost, and
  no others.
* (P) A BOM of UTF-8 followed by bytes that are none is refused, while the same bytes
  without it are taken as bytes.

## 7. Plan

Done: 1 SourceFile with AtomicRewrite; 2 ParsingFrames, FrameStack with
ConditionalRegions; 3 BraceCleanup with Statements; 4 ListManager, ChunkList;
5 ChunkSort, ImportSort; 6 AlignStack; 7 Rewriting with its passes against Meaning;
8 Unicode against UnicodeText; the theorems of section 4.

Next, in this order:

1. `LineSwap`: `Chunk::SwapLines()` step by step on the operators of
   ListManager, shown to do to whole lines what ChunkSort takes it for; theorem
   that ChunkSort composed with it keeps `ListIsOrder`.
2. `NewlineLoop`: the two loops of `uncrustify_file()` over abstract passes that
   count changes; liveness of the first (bounded by `pass_count`), and the
   condition on the passes under which the second ends.
3. `Session`: several files in one process, with the part of `cpd` that
   `uncrustify_end()` resets; the abstract specification is a process per file.
4. Theorems: that AlignStack keeps the order of the lines within a group.
