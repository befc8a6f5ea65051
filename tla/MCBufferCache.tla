--------------------------- MODULE MCBufferCache ----------------------------
(***************************************************************************)
(* BufferCache for TLC: one block is written, and reads otherwise than the *)
(* blocks that are only read, so that a read of the wrong block shows.     *)
(* There is a log block, a block of block numbers, and two others.         *)
(***************************************************************************)
EXTENDS BufferCache, TLC

CONSTANTS v0, v1, b1, b2, b3, b4

MCImage == [b \in Block |-> IF b \in Writable THEN v0 ELSE v1]

MCLevel == [b \in Block |-> CASE b = b1 -> 0 [] b = b2 -> 1 [] OTHER -> 2]

\* No definition tells the processes apart.
Symmetry == Permutations(Proc)
=============================================================================
