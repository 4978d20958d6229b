----------------------------- MODULE SourceFile -----------------------------
(***************************************************************************)
(* One source file as uncrustify rewrites it: do_source_file() in          *)
(* src/uncrustify.cpp with the backup protocol of src/backup.cpp.          *)
(*                                                                         *)
(* The state is the part of the file system that belongs to the file (the  *)
(* source, the '.uncrustify' file, the '.unc-backup~' copy and the         *)
(* '.unc-backup.md5~' digest), the control point of the process and the    *)
(* locals of do_source_file().  Every system call that another process, a  *)
(* crash or a full disk can fall between is a step of its own.             *)
(*                                                                         *)
(* Abstractions.  A file's data is a member of Contents, or Torn when it   *)
(* was cut short.  Format is what the formatter makes of the data.  A      *)
(* digest is represented by the data it was computed over: MD5 is taken to *)
(* be injective on the contents of one file.                               *)
(***************************************************************************)
EXTENDS Naturals

CONSTANTS
  Contents,    \* the complete texts the file can hold
  Format,      \* what the formatter makes of each text
  NoFile,      \* the path does not exist
  Torn,        \* a file whose data was cut short
  Failures,    \* which of FailureKinds happen
  Allowed,     \* the option sets the runs are started with
  FreshEdits   \* TRUE if a user never writes a text the file has held before

ASSUME FormatAssumption == Format \in [Contents -> Contents]
ASSUME NoFileAssumption == NoFile \notin Contents /\ Torn \notin Contents /\ Torn # NoFile
ASSUME FailuresAssumption ==
  Failures \subseteq {"crash", "diskFull", "ioError", "reject", "lateEdit"}
ASSUME FreshEditsAssumption == FreshEdits \in BOOLEAN

(***************************************************************************)
(* The combinations of options main() lets through: --check excludes every *)
(* option that is about output.                                            *)
(***************************************************************************)
Options ==
  {o \in [target: {"same", "suffix", "stdout"}, no_backup: BOOLEAN,
          if_changed: BOOLEAN, do_check: BOOLEAN] :
     o.do_check => ~o.no_backup /\ ~o.if_changed}

ASSUME AllowedAssumption == Allowed \subseteq Options /\ Allowed # {}

VARIABLES
  fs,          \* path -> data, for the four paths of the file
  pc,          \* where do_source_file() is
  opts,        \* the command line options of this run
  raw,         \* fm.raw, the data load_mem_file() read
  need_backup, \* local of do_source_file()
  dig,         \* local of backup_create_md5_file(): what the digest is over
  orig,        \* history: the text the user wrote last
  seen,        \* history: every text the source file has held
  dirty,       \* history: did a run leave '<file>.uncrustify', as output or uncleaned?
  quiet        \* history: has every run so far gone without a failure or an edit?

vars == <<fs, pc, opts, raw, need_backup, dig, orig, seen, dirty, quiet>>

Paths == {"src", "uncrustify", "backup", "md5"}
Data  == Contents \cup {NoFile, Torn}

Steps == {"idle", "load", "format_bout", "format_only", "read_md5", "open_backup",
          "write_backup", "open_out", "write_out", "open_md5", "write_md5",
          "compare", "rename"}

TypeOK ==
  /\ fs \in [Paths -> Data]
  /\ pc \in Steps
  /\ opts \in Allowed
  /\ raw \in Contents \cup {Torn}
  /\ need_backup \in BOOLEAN
  /\ dig \in Contents \cup {Torn}
  /\ orig \in Contents
  /\ seen \subseteq Contents
  /\ dirty \in BOOLEAN
  /\ quiet \in BOOLEAN

Init ==
  /\ orig \in Contents
  /\ fs = [p \in Paths |-> IF p = "src" THEN orig ELSE NoFile]
  /\ raw = orig
  /\ dig = orig
  /\ seen = {orig}
  /\ pc = "idle"
  /\ opts \in Allowed
  /\ need_backup = FALSE
  /\ dirty = FALSE
  /\ quiet = TRUE

-----------------------------------------------------------------------------
Set(path, data) == fs' = [fs EXCEPT ![path] = data]
Goto(step)      == pc' = step
Exit            == pc' = "idle"
Fails(kind)     == kind \in Failures /\ quiet' = FALSE
NoFailure       == UNCHANGED quiet

\* What uncrustify_file() writes for the data it was given.
Output(data) == IF data = Torn THEN Torn ELSE Format[data]

InPlace    == opts.target = "same"
MakeBackup == InPlace /\ ~opts.no_backup

\* The user saves the file, while uncrustify is not running or ("lateEdit")
\* while it is.
UserEdit ==
  /\ \/ pc = "idle" /\ NoFailure
     \/ pc # "idle" /\ Fails("lateEdit")
  /\ \E c \in Contents :
       /\ FreshEdits => c \notin seen
       /\ Set("src", c)
       /\ orig' = c
       /\ seen' = seen \cup {c}
  /\ UNCHANGED <<pc, opts, raw, need_backup, dig, dirty>>

\* main() has parsed the command line and calls do_source_file().
Start ==
  /\ pc = "idle"
  /\ opts' \in Allowed
  /\ need_backup' = FALSE
  /\ Goto("load")
  /\ UNCHANGED <<fs, raw, dig, orig, seen, dirty, quiet>>

\* Mutant: --check goes on to write.
ToOutputMutant == IF MakeBackup THEN "read_md5" ELSE "open_out"

\* After the optional dry run for --if-changed: where the output goes.
ToOutput ==
  IF opts.do_check \/ opts.target = "stdout" THEN "format_only"
  ELSE IF MakeBackup THEN "read_md5" ELSE "open_out"

\* load_mem_file(): a read error ends the process before anything is written.
LoadMemFile ==
  /\ pc = "load"
  /\ \/ /\ raw' = fs["src"]
        /\ Goto(IF opts.if_changed THEN "format_bout" ELSE ToOutput)
        /\ NoFailure
     \/ Fails("ioError") /\ Exit /\ UNCHANGED raw
  /\ UNCHANGED <<fs, opts, need_backup, dig, orig, seen, dirty>>

\* --if-changed: uncrustify_file() into cpd.bout.  The run is over when
\* bout_content_matches(), or when the text is rejected.
FormatBout ==
  /\ pc = "format_bout"
  /\ \/ Output(raw) # raw /\ Goto(ToOutput) /\ NoFailure
     \/ Output(raw) = raw /\ Exit /\ NoFailure
     \/ Fails("reject") /\ Exit
  /\ UNCHANGED <<fs, opts, raw, need_backup, dig, orig, seen, dirty>>

\* --check, or output to stdout: none of the four files is touched.
FormatOnly ==
  /\ pc = "format_only"
  /\ Exit
  /\ UNCHANGED <<fs, opts, raw, need_backup, dig, orig, seen, dirty, quiet>>

-----------------------------------------------------------------------------
(* backup_copy_file()                                                      *)

\* Mutant: any digest counts as a match.
DigestMatchesMutant(md5, data) == {md5 \in Contents}

\* A digest over data that was cut short, or a digest file that was, is not
\* told apart from another one of its kind: such a match is left open.
DigestMatches(md5, data) ==
  IF data = Torn /\ md5 = Torn THEN BOOLEAN ELSE {md5 = data}

ReadMd5 ==
  /\ pc = "read_md5"
  /\ \E match \in DigestMatches(fs["md5"], raw) :
       IF match
         THEN need_backup' = TRUE /\ Goto("open_out")
         ELSE Goto("open_backup") /\ UNCHANGED need_backup
  /\ UNCHANGED <<fs, opts, raw, dig, orig, seen, dirty, quiet>>

\* fopen(".unc-backup~", "wb") truncates; a failure is exit(EX_SOFTWARE).
OpenBackup ==
  /\ pc = "open_backup"
  /\ \/ Set("backup", Torn) /\ Goto("write_backup") /\ NoFailure
     \/ Fails("ioError") /\ Exit /\ UNCHANGED fs
  /\ UNCHANGED <<opts, raw, need_backup, dig, orig, seen, dirty>>

\* fwrite() and fclose().  A short fwrite() is exit(EX_SOFTWARE); when the
\* data is still buffered the disk is found full by fclose(), whose result
\* nobody looks at.
WriteBackup ==
  /\ pc = "write_backup"
  /\ \/ /\ Set("backup", raw)
        /\ need_backup' = TRUE
        /\ Goto("open_out")
        /\ NoFailure
     \/ Fails("diskFull") /\ need_backup' = TRUE /\ Goto("open_out") /\ UNCHANGED fs
     \/ Fails("diskFull") /\ Exit /\ UNCHANGED <<fs, need_backup>>
  /\ UNCHANGED <<opts, raw, dig, orig, seen, dirty>>

-----------------------------------------------------------------------------
(* the output                                                              *)

\* Mutant: the output of an in-place run goes straight to the source.
OpenOutMutant ==
  /\ pc = "open_out"
  /\ Set(IF InPlace THEN "src" ELSE "uncrustify", Torn)
  /\ Goto("write_out")
  /\ UNCHANGED <<opts, raw, need_backup, dig, orig, seen, dirty, quiet>>

\* fopen(filename_tmp, "wb"): '<file>.uncrustify' is the temporary of an
\* in-place run and the output of a run with the default suffix.
OpenOut ==
  /\ pc = "open_out"
  /\ \/ Set("uncrustify", Torn) /\ Goto("write_out") /\ NoFailure
     \/ Fails("ioError") /\ Exit /\ UNCHANGED fs
  /\ UNCHANGED <<opts, raw, need_backup, dig, orig, seen, dirty>>

\* Mutant: the text is read again when it is written.
WriteOutRereads ==
  /\ pc = "write_out"
  /\ Set("uncrustify", Output(fs["src"]))
  /\ Goto(IF need_backup THEN "open_md5" ELSE IF InPlace THEN "compare" ELSE "idle")
  /\ dirty' = (dirty \/ ~InPlace)
  /\ UNCHANGED <<opts, raw, need_backup, dig, orig, seen, quiet>>

\* uncrustify_file() or the bytes of cpd.bout, then fclose().  A text that is
\* rejected (exit in the middle of uncrustify_file()) leaves the file behind.
\* No result of fputc() or fclose() is looked at.
WriteOut ==
  /\ pc = "write_out"
  /\ \/ /\ \/ Set("uncrustify", Output(raw)) /\ NoFailure
           \/ Fails("diskFull") /\ UNCHANGED fs
        /\ Goto(IF need_backup THEN "open_md5" ELSE IF InPlace THEN "compare" ELSE "idle")
        /\ dirty' = (dirty \/ ~InPlace)
     \/ Fails("reject") /\ ~opts.if_changed /\ Exit /\ dirty' = TRUE /\ UNCHANGED fs
  /\ UNCHANGED <<opts, raw, need_backup, dig, orig, seen>>

\* backup_create_md5_file(filename_in): it reads the SOURCE back, which still
\* has its old text; if that fails the process exits and leaves the temporary.
\* fopen(".unc-backup.md5~", "wb") truncates; if it fails the digest is skipped.
OpenMd5 ==
  /\ pc = "open_md5"
  /\ \/ /\ dig' = fs["src"]
        /\ \/ Set("md5", Torn) /\ Goto("write_md5") /\ NoFailure
           \/ Fails("ioError") /\ Goto("compare") /\ UNCHANGED fs
        /\ UNCHANGED dirty
     \/ Fails("ioError") /\ Exit /\ dirty' = TRUE /\ UNCHANGED <<fs, dig>>
  /\ UNCHANGED <<opts, raw, need_backup, orig, seen>>

WriteMd5 ==
  /\ pc = "write_md5"
  /\ \/ Set("md5", dig) /\ NoFailure
     \/ Fails("diskFull") /\ UNCHANGED fs
  /\ Goto("compare")
  /\ UNCHANGED <<opts, raw, need_backup, dig, orig, seen, dirty>>

\* Mutant: the unlinked temporary is renamed all the same.
CompareThenRename ==
  /\ pc = "compare"
  /\ IF ~opts.if_changed /\ fs["uncrustify"] = fs["src"]
       THEN Set("uncrustify", NoFile) /\ Goto("rename")
       ELSE Goto("rename") /\ UNCHANGED fs
  /\ UNCHANGED <<opts, raw, need_backup, dig, orig, seen, dirty, quiet>>

\* Mutant: equal files are left as they are, without the unlink().
CompareNoUnlink ==
  /\ pc = "compare"
  /\ Goto(IF ~opts.if_changed /\ fs["uncrustify"] = fs["src"] THEN "idle" ELSE "rename")
  /\ UNCHANGED <<fs, opts, raw, need_backup, dig, orig, seen, dirty, quiet>>

\* file_content_matches(): equal files are not renamed, the temporary goes.
Compare ==
  /\ pc = "compare"
  /\ IF ~opts.if_changed /\ fs["uncrustify"] = fs["src"]
       THEN Set("uncrustify", NoFile) /\ Exit /\ dirty' = FALSE
       ELSE Goto("rename") /\ UNCHANGED <<fs, dirty>>
  /\ UNCHANGED <<opts, raw, need_backup, dig, orig, seen, quiet>>

Rename ==
  /\ pc = "rename"
  /\ \/ /\ fs' = [fs EXCEPT !["src"] = fs["uncrustify"], !["uncrustify"] = NoFile]
        /\ seen' = seen \cup ({fs["uncrustify"]} \ {Torn})
        /\ dirty' = FALSE
        /\ NoFailure
     \/ Fails("ioError") /\ dirty' = TRUE /\ UNCHANGED <<fs, seen>>
  /\ Exit
  /\ UNCHANGED <<opts, raw, need_backup, dig, orig>>

\* The process is killed (a signal, --debug-timeout's alarm, power) anywhere.
Crash ==
  /\ Fails("crash")
  /\ pc # "idle"
  /\ Exit
  /\ dirty' = TRUE
  /\ UNCHANGED <<fs, opts, raw, need_backup, dig, orig, seen>>

-----------------------------------------------------------------------------
Run == \/ LoadMemFile \/ FormatBout \/ FormatOnly
       \/ ReadMd5 \/ OpenBackup \/ WriteBackup
       \/ OpenOut \/ WriteOut
       \/ OpenMd5 \/ WriteMd5
       \/ Compare \/ Rename

Next == UserEdit \/ Start \/ Run \/ Crash

Spec == Init /\ [][Next]_vars /\ WF_vars(Run)

-----------------------------------------------------------------------------
(* Properties                                                              *)

\* The source is never seen half written: do_source_file() writes to
\* '<file>.uncrustify' and renames.  (Not so when the disk fills up: the
\* results of fputc() and fclose() are not looked at.)
SourceNeverTorn == fs["src"] # Torn

\* A run that keeps backups replaces the source only while '.unc-backup~' holds
\* its text, complete, even when backup_copy_file() skipped the copy because the
\* digest of an earlier run matched.  (Not so after a failure or an edit during a
\* run: the digest may then be of another text than the backup holds.)
BackedUp ==
  [][Rename /\ quiet /\ MakeBackup /\ fs'["src"] # fs["src"]
       => fs["backup"] = fs["src"]]_vars

\* A run that ends leaves no temporary beside the source, unless it was killed, rejected
\* its text or gave up on the digest or the rename (dirty); and what such a run left does
\* not outlive a later run that replaces the source (do_source_file()).
NoLeftover == pc = "idle" /\ ~dirty => fs["uncrustify"] = NoFile

\* --check, and --if-changed for a text that needs no change, write nothing:
\* whatever the earlier runs left, none of the four files is touched.
UntouchedUnlessChanged ==
  [][Run /\ (opts.do_check \/ (opts.if_changed /\ Output(raw) = raw)) /\ pc # "load"
       => fs' = fs]_vars

\* What AtomicRewrite.tla promises: whatever the interleaving of the steps
\* with failures and with edits, a run either leaves the text or replaces it in
\* one step, by the formatting of a text the file had while it ran.
Seen    == IF pc \in {"idle", "load"} THEN NoFile ELSE raw
Rewrite == INSTANCE AtomicRewrite WITH text <- fs["src"], running <- pc # "idle",
                                       seen <- Seen, Nothing <- NoFile
Atomic  == Rewrite!Spec

\* "This will let you run uncrustify multiple times over the same file without
\* losing the original file" (backup.cpp:19): the text the user wrote last is
\* the source or the backup, as long as every run makes backups.
OriginalKept == orig \in {fs["src"], fs["backup"]}
=============================================================================
