---------------------------- MODULE MCChunkSort ----------------------------
(* Five imports, two pairs of which compare equal, collected in any order. *)
EXTENDS ChunkSort

CONSTANTS a1, a2, b, c1, c2

MCChunks == {a1, a2, b, c1, c2}
Key == [c \in MCChunks |-> IF c \in {a1, a2} THEN 1 ELSE IF c = b THEN 2 ELSE 3]
MCLess == {p \in MCChunks \X MCChunks : Key[p[1]] < Key[p[2]]}
=============================================================================
