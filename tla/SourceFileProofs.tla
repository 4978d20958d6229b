-------------------------- MODULE SourceFileProofs --------------------------
(***************************************************************************)
(* Theorems about SourceFile, for every set of contents, every formatter,  *)
(* every set of options and every set of failures (without "diskFull",     *)
(* where the theorem says so).                                             *)
(***************************************************************************)
EXTENDS SourceFile, TLAPS

\* The steps between fopen() of the output and rename().
Writing == {"write_out", "open_md5", "write_md5", "compare", "rename"}

\* TypeOK is not inductive: raw, dig and seen stay in their types because the
\* file that is read, and the one that is renamed, exist.
TypeInv ==
  /\ TypeOK
  /\ fs["src"] # NoFile
  /\ pc \in Writing => fs["uncrustify"] # NoFile

\* Every variable keeps its type under every failure.
THEOREM TypeCorrect == Spec => []TypeOK
<1> USE FormatAssumption, NoFileAssumption, FailuresAssumption, AllowedAssumption
<1>1. Init => TypeInv
  BY DEF Init, TypeInv, TypeOK, Data, Paths, Steps, Writing
<1>2. TypeInv /\ [Next]_vars => TypeInv'
  <2> SUFFICES ASSUME TypeInv, [Next]_vars PROVE TypeInv'
    OBVIOUS
  <2> USE DEF TypeInv, TypeOK, Data, Paths, Steps, Writing, Set, Goto, Exit, Output, Fails, NoFailure
  <2>1. CASE UserEdit
    BY <2>1 DEF UserEdit
  <2>2. CASE Start
    BY <2>2 DEF Start
  <2>3. CASE LoadMemFile
    BY <2>3 DEF LoadMemFile, ToOutput
  <2>4. CASE FormatBout
    BY <2>4 DEF FormatBout, ToOutput
  <2>5. CASE FormatOnly
    BY <2>5 DEF FormatOnly
  <2>6. CASE ReadMd5
    BY <2>6 DEF ReadMd5
  <2>7. CASE OpenBackup
    BY <2>7 DEF OpenBackup
  <2>8. CASE WriteBackup
    BY <2>8 DEF WriteBackup
  <2>9. CASE OpenOut
    BY <2>9 DEF OpenOut
  <2>10. CASE WriteOut
    <3>1. Output(raw) \in Contents \cup {Torn}
      OBVIOUS
    <3>2. CASE Set("uncrustify", Output(raw))
      BY <2>10, <3>1, <3>2 DEF WriteOut, InPlace
    <3>3. CASE UNCHANGED fs
      BY <2>10, <3>3 DEF WriteOut, InPlace
    <3> QED
      BY <2>10, <3>2, <3>3 DEF WriteOut
  <2>11. CASE OpenMd5
    BY <2>11 DEF OpenMd5
  <2>12. CASE WriteMd5
    BY <2>12 DEF WriteMd5
  <2>13. CASE Compare
    BY <2>13 DEF Compare
  <2>14. CASE Rename
    BY <2>14 DEF Rename
  <2>15. CASE Crash
    BY <2>15 DEF Crash
  <2>16. CASE UNCHANGED vars
    BY <2>16 DEF vars
  <2> QED
    BY <2>1, <2>2, <2>3, <2>4, <2>5, <2>6, <2>7, <2>8, <2>9, <2>10, <2>11,
       <2>12, <2>13, <2>14, <2>15, <2>16 DEF Next, Run
<1>3. TypeInv => TypeOK
  BY DEF TypeInv
<1> QED
  BY <1>1, <1>2, <1>3, PTL DEF Spec

-----------------------------------------------------------------------------
(***************************************************************************)
(* While the disk does not fill up, every file the run will rename over    *)
(* the source is the complete formatting of the text it has read.          *)
(***************************************************************************)
Formatted == {"open_md5", "write_md5", "compare", "rename"}

RewriteInv ==
  /\ fs["src"] \in Contents
  /\ raw \in Contents
  /\ pc \in Formatted => fs["uncrustify"] = Format[raw]

LEMMA RewriteInvInit == Init => RewriteInv
  BY NoFileAssumption DEF Init, RewriteInv, Paths, Formatted

LEMMA RewriteInvStep ==
  ASSUME TypeOK, RewriteInv, [Next]_vars, "diskFull" \notin Failures
  PROVE  RewriteInv'
<1> USE FormatAssumption, NoFileAssumption
    DEF TypeOK, RewriteInv, Paths, Data, Formatted, Set, Goto, Exit, Output, Fails, NoFailure
<1>1. CASE UserEdit
  BY <1>1 DEF UserEdit
<1>2. CASE Start
  BY <1>2 DEF Start
<1>3. CASE LoadMemFile
  BY <1>3 DEF LoadMemFile, ToOutput
<1>4. CASE FormatBout
  BY <1>4 DEF FormatBout, ToOutput
<1>5. CASE FormatOnly
  BY <1>5 DEF FormatOnly
<1>6. CASE ReadMd5
  BY <1>6 DEF ReadMd5
<1>7. CASE OpenBackup
  BY <1>7 DEF OpenBackup
<1>8. CASE WriteBackup
  BY <1>8 DEF WriteBackup
<1>9. CASE OpenOut
  BY <1>9 DEF OpenOut
<1>10. CASE WriteOut
  <2>1. Output(raw) = Format[raw]
    OBVIOUS
  <2>2. CASE Set("uncrustify", Output(raw))
    BY <1>10, <2>1, <2>2 DEF WriteOut
  <2>3. CASE Exit /\ UNCHANGED fs
    BY <1>10, <2>3 DEF WriteOut
  <2> QED
    BY <1>10, <2>2, <2>3 DEF WriteOut
<1>11. CASE OpenMd5
  BY <1>11 DEF OpenMd5
<1>12. CASE WriteMd5
  BY <1>12 DEF WriteMd5
<1>13. CASE Compare
  BY <1>13 DEF Compare
<1>14. CASE Rename
  BY <1>14 DEF Rename
<1>15. CASE Crash
  BY <1>15 DEF Crash
<1>16. CASE UNCHANGED vars
  BY <1>16 DEF vars
<1> QED
  BY <1>1, <1>2, <1>3, <1>4, <1>5, <1>6, <1>7, <1>8, <1>9, <1>10, <1>11,
     <1>12, <1>13, <1>14, <1>15, <1>16 DEF Next, Run

LEMMA RewriteInvariant ==
  ASSUME "diskFull" \notin Failures
  PROVE  Spec => []RewriteInv
<1>1. RewriteInv /\ TypeOK /\ [Next]_vars => RewriteInv'
  BY RewriteInvStep
<1> QED
  BY RewriteInvInit, TypeCorrect, <1>1, PTL DEF Spec

\* Short of a full disk, no crash, error, rejected text or edit at any point
\* ever shows a half written source.
THEOREM NeverTorn ==
  ASSUME "diskFull" \notin Failures
  PROVE  Spec => []SourceNeverTorn
<1>1. RewriteInv => SourceNeverTorn
  BY NoFileAssumption DEF RewriteInv, SourceNeverTorn
<1> QED
  BY RewriteInvariant, <1>1, PTL

\* Whatever fails, '<file>.uncrustify' is there only while a run is between
\* fopen() and rename(), or when dirty says why.
LeftoverInv == pc \notin Writing /\ ~dirty => fs["uncrustify"] = NoFile

\* A run leaves no temporary beside the source unless it was killed, rejected its text or
\* gave up on the digest or the rename, under every failure and every set of options.
THEOREM NothingLeft == Spec => []NoLeftover
<1>1. Init => LeftoverInv
  BY DEF Init, LeftoverInv, Paths
<1>2. TypeOK /\ LeftoverInv /\ [Next]_vars => LeftoverInv'
  <2> SUFFICES ASSUME TypeOK, LeftoverInv, [Next]_vars PROVE LeftoverInv'
    OBVIOUS
  <2> USE DEF TypeOK, LeftoverInv, Paths, Writing, Set, Goto, Exit
  <2>1. CASE UserEdit
    BY <2>1 DEF UserEdit
  <2>2. CASE Start \/ FormatBout \/ FormatOnly \/ LoadMemFile
    BY <2>2 DEF Start, FormatBout, FormatOnly, LoadMemFile, ToOutput
  <2>3. CASE ReadMd5 \/ OpenBackup \/ WriteBackup
    BY <2>3 DEF ReadMd5, OpenBackup, WriteBackup
  <2>4. CASE OpenOut
    BY <2>4 DEF OpenOut
  <2>5. CASE WriteOut
    BY <2>5 DEF WriteOut
  <2>6. CASE OpenMd5 \/ WriteMd5
    BY <2>6 DEF OpenMd5, WriteMd5
  <2>7. CASE Compare
    BY <2>7 DEF Compare
  <2>8. CASE Rename
    BY <2>8 DEF Rename
  <2>9. CASE Crash \/ UNCHANGED vars
    BY <2>9 DEF Crash, vars
  <2> QED
    BY <2>1, <2>2, <2>3, <2>4, <2>5, <2>6, <2>7, <2>8, <2>9 DEF Next, Run
<1>3. LeftoverInv => NoLeftover
  BY DEF LeftoverInv, NoLeftover, Writing
<1> QED
  BY <1>1, <1>2, <1>3, TypeCorrect, PTL DEF Spec

\* SourceFile implements AtomicRewrite while the disk does not fill up, whatever
\* fails, is killed or is edited in the middle of a run.
THEOREM Refinement ==
  ASSUME "diskFull" \notin Failures
  PROVE  Spec => Atomic
<1> DEFINE abs == <<fs["src"], pc # "idle", Seen>>
<1>1. Init => Rewrite!Init
  BY DEF Init, Rewrite!Init, Paths, Seen
<1>2. TypeOK /\ RewriteInv /\ RewriteInv' /\ [Next]_vars => [Rewrite!Next]_abs
  <2> SUFFICES ASSUME TypeOK, RewriteInv, RewriteInv', [Next]_vars
               PROVE  [Rewrite!Next]_abs
    OBVIOUS
  <2> USE NoFileAssumption
          DEF TypeOK, RewriteInv, Paths, Data, Set, Goto, Exit, Fails, NoFailure, Seen,
              Rewrite!Next, Rewrite!End
  <2>1. CASE UserEdit
    BY <2>1 DEF UserEdit, Rewrite!Edit
  <2>2. CASE Start
    BY <2>2 DEF Start, Rewrite!Begin
  <2>3. CASE LoadMemFile
    BY <2>3 DEF LoadMemFile, ToOutput, Rewrite!Look, Rewrite!GiveUp
  <2>4. CASE FormatBout \/ FormatOnly \/ ReadMd5
    BY <2>4 DEF FormatBout, FormatOnly, ReadMd5, ToOutput, Rewrite!GiveUp
  <2>5. CASE OpenBackup \/ WriteBackup
    BY <2>5 DEF OpenBackup, WriteBackup, Rewrite!GiveUp
  <2>6. CASE OpenOut \/ WriteOut
    BY <2>6 DEF OpenOut, WriteOut, Rewrite!GiveUp
  <2>7. CASE OpenMd5 \/ WriteMd5
    BY <2>7 DEF OpenMd5, WriteMd5, Rewrite!GiveUp
  <2>8. CASE Compare \/ Crash
    BY <2>8 DEF Compare, Crash, Rewrite!GiveUp
  <2>9. CASE Rename
    BY <2>9 DEF Rename, Formatted, Rewrite!GiveUp, Rewrite!Commit
  <2>10. CASE UNCHANGED vars
    BY <2>10 DEF vars
  <2> QED
    BY <2>1, <2>2, <2>3, <2>4, <2>5, <2>6, <2>7, <2>8, <2>9, <2>10 DEF Next, Run
<1> QED
  BY <1>1, <1>2, RewriteInvariant, TypeCorrect, PTL DEF Spec, Atomic, Rewrite!Spec

-----------------------------------------------------------------------------
(***************************************************************************)
(* While nothing has failed, the digest is that of the backup, except      *)
(* between the writing of the one and the other; and a run with            *)
(* need_backup set has read the text that the backup holds.                *)
(***************************************************************************)
BeforeBackup == {"load", "format_bout", "format_only", "read_md5", "open_backup"}

InOutput == {"open_out", "write_out"}

QuietInv ==
  quiet =>
    /\ fs["src"] \in Contents
    /\ pc \notin {"idle", "load"} => raw = fs["src"]
    /\ pc \in Formatted => fs["uncrustify"] = Format[raw]
    /\ pc \in BeforeBackup => ~need_backup
    /\ pc \in {"idle", "compare", "rename"} \cup BeforeBackup => fs["md5"] = fs["backup"]
    /\ pc \in InOutput /\ ~need_backup => fs["md5"] = fs["backup"]
    /\ pc \in InOutput \cup Formatted /\ need_backup => fs["backup"] = raw
    /\ pc \in InOutput \cup Formatted /\ MakeBackup => need_backup
    /\ pc \in {"open_md5", "write_md5"} => need_backup
    /\ pc = "write_md5" => dig = raw

LEMMA QuietInit == Init => QuietInv
  BY NoFileAssumption DEF Init, QuietInv, Paths, BeforeBackup, InOutput, Formatted

LEMMA QuietStep ==
  ASSUME TypeOK, QuietInv, [Next]_vars
  PROVE  QuietInv'
<1> USE FormatAssumption, NoFileAssumption
    DEF TypeOK, QuietInv, Paths, BeforeBackup, InOutput, Formatted, Set, Goto, Exit, Fails,
        NoFailure, MakeBackup, InPlace
<1>1. CASE UserEdit
  BY <1>1 DEF UserEdit
<1>2. CASE Start
  BY <1>2 DEF Start
<1>3. CASE LoadMemFile
  BY <1>3 DEF LoadMemFile, ToOutput
<1>4. CASE FormatBout
  BY <1>4 DEF FormatBout, ToOutput
<1>5. CASE FormatOnly
  BY <1>5 DEF FormatOnly
<1>6. CASE ReadMd5
  BY <1>6 DEF ReadMd5, DigestMatches
<1>7. CASE OpenBackup
  BY <1>7 DEF OpenBackup
<1>8. CASE WriteBackup
  BY <1>8 DEF WriteBackup
<1>9. CASE OpenOut
  BY <1>9 DEF OpenOut
<1>10. CASE WriteOut
  BY <1>10 DEF WriteOut, Output
<1>11. CASE OpenMd5
  BY <1>11 DEF OpenMd5
<1>12. CASE WriteMd5
  BY <1>12 DEF WriteMd5
<1>13. CASE Compare
  BY <1>13 DEF Compare
<1>14. CASE Rename
  BY <1>14 DEF Rename
<1>15. CASE Crash
  BY <1>15 DEF Crash
<1>16. CASE UNCHANGED vars
  BY <1>16 DEF vars
<1> QED
  BY <1>1, <1>2, <1>3, <1>4, <1>5, <1>6, <1>7, <1>8, <1>9, <1>10, <1>11,
     <1>12, <1>13, <1>14, <1>15, <1>16 DEF Next, Run

\* A quiet run that keeps backups replaces the source only while the backup
\* holds its text, also when the digest of an earlier run spared the copy and
\* whatever texts the user writes between the runs.
THEOREM BackupHoldsText == Spec => BackedUp
<1> DEFINE A == Rename /\ quiet /\ MakeBackup /\ fs'["src"] # fs["src"]
                  => fs["backup"] = fs["src"]
<1>1. QuietInv /\ TypeOK /\ [Next]_vars => QuietInv'
  BY QuietStep
<1>2. QuietInv => A
  BY DEF Rename, QuietInv, Formatted
<1> QED
  BY QuietInit, <1>1, <1>2, TypeCorrect, PTL DEF Spec, BackedUp

-----------------------------------------------------------------------------
(***************************************************************************)
(* A run gets behind the dry run only when it is to write something else.  *)
(***************************************************************************)
BehindDryRun == Steps \ {"idle", "load", "format_bout", "format_only"}

LookedInv ==
  /\ pc = "format_bout" => opts.if_changed
  /\ pc \in BehindDryRun => ~opts.do_check /\ (opts.if_changed => Output(raw) # raw)

\* The runs of --check, and those of --if-changed on a text that is formatted
\* already, touch none of the four files, under every failure and whatever the
\* user and other runs have left.
THEOREM NothingTouched == Spec => UntouchedUnlessChanged
<1> DEFINE A == Run /\ (opts.do_check \/ (opts.if_changed /\ Output(raw) = raw)) /\ pc # "load"
                  => fs' = fs
<1>1. Init => LookedInv
  BY DEF Init, LookedInv, BehindDryRun
<1>2. TypeOK /\ LookedInv /\ [Next]_vars => LookedInv'
  <2> SUFFICES ASSUME TypeOK, LookedInv, [Next]_vars PROVE LookedInv'
    OBVIOUS
  <2>1. opts \in Options /\ (opts.do_check => ~opts.if_changed)
    BY AllowedAssumption DEF TypeOK, Options
  <2> USE DEF LookedInv, BehindDryRun, Steps, Goto, Exit, Output
  <2>2. CASE UserEdit \/ Crash
    BY <2>2 DEF UserEdit, Crash
  <2>3. CASE Start
    BY <2>3 DEF Start
  <2>4. CASE LoadMemFile
    BY <2>1, <2>4 DEF LoadMemFile, ToOutput
  <2>5. CASE FormatBout
    BY <2>1, <2>5 DEF FormatBout, ToOutput
  <2>6. CASE FormatOnly
    BY <2>6 DEF FormatOnly
  <2>7. CASE ReadMd5 \/ OpenBackup \/ WriteBackup
    BY <2>7 DEF ReadMd5, OpenBackup, WriteBackup
  <2>8. CASE OpenOut \/ WriteOut
    BY <2>8 DEF OpenOut, WriteOut
  <2>9. CASE OpenMd5 \/ WriteMd5
    BY <2>9 DEF OpenMd5, WriteMd5
  <2>10. CASE Compare \/ Rename
    BY <2>10 DEF Compare, Rename
  <2>11. CASE UNCHANGED vars
    BY <2>11 DEF vars
  <2> QED
    BY <2>2, <2>3, <2>4, <2>5, <2>6, <2>7, <2>8, <2>9, <2>10, <2>11 DEF Next, Run
<1>3. TypeOK /\ LookedInv => A
  <2> SUFFICES ASSUME TypeOK, LookedInv, Run, pc # "load",
                      opts.do_check \/ (opts.if_changed /\ Output(raw) = raw)
               PROVE  fs' = fs
    OBVIOUS
  <2>1. pc \notin BehindDryRun
    BY DEF LookedInv
  <2>2. FormatBout \/ FormatOnly
    BY <2>1 DEF Run, LoadMemFile, ReadMd5, OpenBackup, WriteBackup, OpenOut, WriteOut, OpenMd5,
                WriteMd5, Compare, Rename, BehindDryRun, Steps
  <2> QED
    BY <2>2 DEF FormatBout, FormatOnly
<1> QED
  BY <1>1, <1>2, <1>3, TypeCorrect, PTL DEF Spec, UntouchedUnlessChanged
=============================================================================
