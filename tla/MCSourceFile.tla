---------------------------- MODULE MCSourceFile ----------------------------
(* Instances of SourceFile for TLC. *)
EXTENDS SourceFile, TLC

CONSTANTS messy, tidy, other

MCContents == {messy, tidy, other}

\* 'messy' and 'other' are not formatted yet; 'tidy' is a fixed point.
MCFormat == (messy :> tidy) @@ (tidy :> tidy) @@ (other :> messy)

AllOptions == Options

\* 'uncrustify --replace' and 'uncrustify --replace --if-changed'
ReplaceOptions == {o \in Options : o.target = "same" /\ ~o.no_backup /\ ~o.do_check}

InPlaceOptions == {o \in Options : o.target = "same"}
=============================================================================
