---------------------------- MODULE MCFrameStack ----------------------------
(* Instances of FrameStack for TLC. *)
EXTENDS FrameStack, TLC

CONSTANTS outer, open, inner

MCStates == {outer, open, inner}
\* 'open' and 'inner' are one brace deeper: two states a check of brace levels
\* does not tell apart.
MCLevel == (outer :> 0) @@ (open :> 1) @@ (inner :> 1)
=============================================================================
