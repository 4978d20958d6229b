--------------------------- MODULE AtomicRewrite ---------------------------
(***************************************************************************)
(* What a user of 'uncrustify --replace' relies on: a run looks at the     *)
(* file once, and changes it at most once, at its end, into the formatting *)
(* of the text it has seen.  Nothing in between can be observed, and a run *)
(* may end without any effect.                                             *)
(***************************************************************************)
CONSTANTS
  Contents,  \* the texts
  Format,    \* the formatting of each
  Nothing    \* not a text

VARIABLES
  text,    \* the text of the source file
  running, \* is uncrustify working on it?
  seen     \* the text the run goes by

Init == text \in Contents /\ running = FALSE /\ seen = Nothing

Edit   == text' \in Contents /\ UNCHANGED <<running, seen>>
Begin  == ~running /\ running' = TRUE /\ UNCHANGED <<text, seen>>
Look   == running /\ seen = Nothing /\ seen' = text /\ UNCHANGED <<text, running>>
End    == running /\ running' = FALSE /\ seen' = Nothing
Commit == End /\ seen # Nothing /\ text' = Format[seen]
GiveUp == End /\ UNCHANGED text

Next == Edit \/ Begin \/ Look \/ Commit \/ GiveUp

Spec == Init /\ [][Next]_<<text, running, seen>>
=============================================================================
