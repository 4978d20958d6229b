----------------------------- MODULE Rewriting -----------------------------
(***************************************************************************)
(* The passes of uncrustify_file() that add, remove and move code: infinite *)
(* loops, braces, the braces of cases, semicolons and returns              *)
(* (src/uncrustify.cpp, src/braces.cpp), in their order, over the chunks   *)
(* of one file.                                                            *)
(*                                                                         *)
(* An action is one turn of the loop of a pass, at the next chunk on which *)
(* the pass acts; the turns that change nothing are left out.              *)
(***************************************************************************)
EXTENDS FullBrace, LoopRewrite, CaseBrace, Scrub, Meaning

\* A set of [files, options]: every file is rewritten with every record of options.
CONSTANT Inputs

VARIABLES
  chunks,   \* the chunk list
  pass,     \* the pass that is under way; "end", or "exit" once the program gave up
  pc,       \* the chunk the pass has got to, 0: none is left
  opt,      \* the options
  meaning   \* history: what the program meant

vars == <<chunks, pass, pc, opt, meaning>>

-----------------------------------------------------------------------------
Passes == <<"loops", "mark", "chain", "examine", "convert", "case", "break", "return",
            "semicolons", "returns", "end">>

Keywords == {"IF", "DO", "FOR", "WHILE"}

On(p) ==
  CASE p = "loops"      -> opt.loop # 0
    [] p = "chain"      -> opt.chain # 0 \/ opt.only
    [] p = "examine"    -> \E k \in Keywords : Removes(opt.full[k])
    [] p = "convert"    -> \E k \in Keywords : Adds(opt.full[k])
    [] p = "case"       -> opt.case # "ignore"
    [] p = "break"      -> opt.brk
    [] p = "return"     -> opt.ret
    [] p = "semicolons" -> opt.semi
    [] p = "returns"    -> opt.empty
    [] OTHER            -> TRUE

NextPass(p) ==
  LET i == SelectInSeq(Passes, LAMBDA q : q = p)
  IN  Passes[SelectInSubSeq(Passes, i + 1, Len(Passes), On)]

\* Where pass p starts: do_braces() looks for braces to remove from the end on.
StartOf(p, s) ==
  CASE p = "examine" -> s[Len(s)].id
    [] p = "case" /\ s[1].pp -> At(s, GetNext(s, 1, LAMBDA c : NcNnl(c) /\ ~c.pp)).id
    [] OTHER -> s[1].id

Init ==
  \E i \in Inputs : \E file \in i.files : \E o \in i.options :
    /\ chunks = file /\ opt = o
    /\ meaning = MeaningOf(file)
    /\ pass = NextPass("") /\ pc = file[1].id

-----------------------------------------------------------------------------
\* Does the pass act on the chunk at k?
ActsOn(k) ==
  CASE pass = "loops"      -> ToRewrite(chunks, k, opt)
    [] pass = "mark"       -> k = 1
    [] pass = "chain"      -> IsBraceOpen(chunks[k]) /\ chunks[k].parent = "IF"
    [] pass = "examine"    -> chunks[k].type = "BRACE_OPEN" /\ ToRemove(chunks, k, opt)
    [] pass = "convert"    -> ToAdd(chunks, k, opt)
    [] pass = "case" /\ opt.case = "remove" -> ~chunks[k].pp /\ CaseBraceRemovable(chunks, k)
    [] pass = "case" /\ opt.case # "remove" -> ~chunks[k].pp /\ CaseBraceMissing(chunks, k)
    [] pass = "break"      -> AfterCaseBrace(chunks, k, "BREAK")
    [] pass = "return"     -> AfterCaseBrace(chunks, k, "RETURN")
    [] pass = "semicolons" -> ExtraSemicolon(chunks, k)
    [] pass = "returns"    -> ExtraReturn(chunks, k)
    [] OTHER               -> FALSE

\* Where it will act, from the chunk it has got to on; the next one of these, 0 if there is none.
Ahead ==
  LET at == Pos(chunks, pc)
  IN  IF pc = 0 THEN {}
      ELSE {k \in (IF pass = "examine" THEN 1 .. at ELSE at .. Len(chunks)) : ActsOn(k)}

Here ==
  LET ahead == Ahead
  IN  CASE ahead = {}       -> 0
        [] pass = "examine" -> Max(ahead)
        [] OTHER            -> Min(ahead)

\* The list becomes s and the pass goes on at the chunk at k of s.
Turn(s, k) ==
  /\ chunks' = s
  /\ pc' = At(s, k).id
  /\ UNCHANGED <<pass, opt, meaning>>

\* The chunk at k of the list, where it is in s.
Now(s, k) == Pos(s, chunks[k].id)

EndPass ==
  /\ pass \notin {"end", "exit"}
  /\ Here = 0
  /\ \E p \in {NextPass(pass)} : pass' = p /\ pc' = StartOf(p, chunks)
  /\ UNCHANGED <<chunks, opt, meaning>>

RewriteLoop(k) ==
  /\ pass = "loops"
  /\ \E s \in {rewrite_loop(chunks, k, opt)} : Turn(s, GetNext(s, Now(s, k), NcNnl))

MarkBraces(k) ==
  /\ pass = "mark"
  /\ Turn(MarkOneLiners(chunks), 0)

ProcessIfChain(k) ==
  /\ pass = "chain"
  /\ \E s \in {process_if_chain(chunks, k, opt)} : Turn(s, GetNext(s, Now(s, k), Every))

\* The brace before it was looked up first.
ExamineBrace(k) ==
  /\ pass = "examine"
  /\ \E s \in {examine_brace(chunks, k, opt)}, prev \in {GetPrev(chunks, k, LAMBDA c : c.type = "BRACE_OPEN")} :
       Turn(s, IF prev = 0 THEN 0 ELSE Now(s, prev))

ConvertVBrace(k) ==
  /\ pass = "convert"
  /\ \E s \in {convert_vbrace_to_brace(chunks, k, opt)} : Turn(s, GetNext(s, Now(s, k), NcNnl))

RemoveCaseBrace(k) ==
  /\ pass = "case" /\ opt.case = "remove"
  /\ \E s \in {mod_case_brace_remove(chunks, k)} :
       Turn(s, GetNextPP(s, Now(s, GetPrevPP(chunks, k, Every)), Every))

AddCaseBrace(k) ==
  /\ pass = "case" /\ opt.case # "remove"
  /\ LastOfCase(chunks, k) # 0
  /\ \E s \in {mod_case_brace_add(chunks, k)} : Turn(s, k + 1)

\* exit(EX_SOFTWARE): nothing is written.
NoEndOfCase(k) ==
  /\ pass = "case" /\ opt.case # "remove"
  /\ LastOfCase(chunks, k) = 0
  /\ pass' = "exit"
  /\ UNCHANGED <<chunks, pc, opt, meaning>>

MoveBreak(k) ==
  /\ pass = "break"
  /\ \E s \in {move_case_break(chunks, k)} : Turn(s, GetNext(s, Now(s, k), NcNnl))

MoveReturn(k) ==
  /\ pass = "return"
  /\ AfterReturn(chunks, k) # 0
  /\ \E s \in {move_case_return(chunks, k)} : Turn(s, GetNext(s, Now(s, AfterReturn(chunks, k)), NcNnl))

\* The pass does not look at the rest of the file.
NoEndOfReturn(k) ==
  /\ pass = "return"
  /\ AfterReturn(chunks, k) = 0
  /\ Turn(chunks, 0)

\* Mutant: the pass skips the chunk after the one that is gone.
RemoveSemicolon_skip(k) ==
  /\ pass = "semicolons"
  /\ \E s \in {Delete(chunks, chunks[k].id)} :
       Turn(s, Now(s, GetNext(chunks, GetNext(chunks, k, NcNnl), NcNnl)))

RemoveSemicolon(k) ==
  /\ pass = "semicolons"
  /\ \E s \in {Delete(chunks, chunks[k].id)} : Turn(s, Now(s, GetNext(chunks, k, NcNnl)))

RemoveReturn(k) ==
  /\ pass = "returns"
  /\ \E s \in {remove_extra_return(chunks, k)} : Turn(s, GetNext(s, Now(s, ClosingBrace(chunks, k)), Every))

Next ==
  \/ EndPass
  \/ \E k \in {Here} \ {0} :
       \/ RewriteLoop(k) \/ MarkBraces(k) \/ ProcessIfChain(k) \/ ExamineBrace(k) \/ ConvertVBrace(k)
       \/ RemoveCaseBrace(k) \/ AddCaseBrace(k) \/ NoEndOfCase(k) \/ MoveBreak(k) \/ MoveReturn(k)
       \/ NoEndOfReturn(k) \/ RemoveSemicolon(k) \/ RemoveReturn(k)

Spec == Init /\ [][Next]_vars

-----------------------------------------------------------------------------
\* Whatever the passes have done to the braces, loops, cases, semicolons and returns so far,
\* the text means what it meant: every else and every statement belongs where it
\* belonged, and no code is in a comment (braces.cpp, rewrite_infinite_loops.cpp).
MeaningKept == MeaningOf(chunks) = meaning

\* The braces, real and virtual ones together, nest, and the search by type and
\* level of GetClosingParen(), on which every pass relies, finds the partner, which has
\* the same parent (chunk.h; the passes set the types, levels and parents).
BracesPair ==
  LET opens  == {k \in DOMAIN chunks : IsBraceOpen(chunks[k]) /\ ~chunks[k].pp}
      depth  == [k \in DOMAIN chunks |->
                  Cardinality({j \in opens : j <= k})
                  - Cardinality({j \in DOMAIN chunks : j <= k /\ IsBraceClose(chunks[j]) /\ ~chunks[j].pp})]
      partner(k) == Min({j \in k + 1 .. Len(chunks) : depth[j] = depth[k] - 1})
  IN  \A k \in opens : /\ GetClosingParen(chunks, k) = partner(k)
                       /\ chunks[partner(k)].parent = chunks[k].parent

\* The blocks of a chain of ifs have braces or have none, all of them, from the pass
\* over the chains on (mod_full_brace_if_chain, options.h).
ChainsAgree ==
  LET done  == pass \notin {"loops", "mark", "chain"}
      heads == {k \in DOMAIN chunks : IsBraceOpen(chunks[k]) /\ chunks[k].parent = "IF" /\ ~chunks[k].pp}
  IN  done /\ opt.chain # 0 =>
        \A k \in heads : \A i, j \in DOMAIN Blocks(chunks, k) :
          chunks[Blocks(chunks, k)[i]].type = chunks[Blocks(chunks, k)[j]].type

\* A pass leaves nothing that it would act on if it ran again.
Settled ==
  LET again == {"loops", "examine", "convert", "case", "break", "semicolons"}
  IN  pass \in again /\ Here = 0 => ~ \E k \in DOMAIN chunks : ActsOn(k)

\* A turn leaves less for the pass to do, whatever it has added or moved: each of
\* the loops comes to its end.
Progress == [][pass' = pass => Cardinality(Ahead') < Cardinality(Ahead)]_vars
=============================================================================
