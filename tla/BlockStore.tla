----------------------------- MODULE BlockStore -----------------------------
(***************************************************************************)
(* What the buffer cache promises to its callers: a store of blocks, each  *)
(* used by one process at a time, that reads as what was last written.     *)
(***************************************************************************)

CONSTANTS
  Proc,   \* who uses blocks: a process, once for each block it uses
  Block,  \* the blocks of the disk
  Val,    \* the contents of a block
  None    \* nobody

VARIABLES
  value,  \* the contents of each block
  holder  \* the process that uses each block, or None

vars == <<value, holder>>

Init ==
  /\ value \in [Block -> Val]
  /\ holder = [b \in Block |-> None]

\* bread() returns, or is about to read the block from the disk.
Acquire(p, b) ==
  /\ holder[b] = None
  /\ holder' = [holder EXCEPT ![b] = p]
  /\ UNCHANGED value

Write(p, b, v) ==
  /\ holder[b] = p
  /\ value' = [value EXCEPT ![b] = v]
  /\ UNCHANGED holder

\* brelse()
Release(p, b) ==
  /\ holder[b] = p
  /\ holder' = [holder EXCEPT ![b] = None]
  /\ UNCHANGED value

Next ==
  \E p \in Proc, b \in Block :
    \/ Acquire(p, b)
    \/ Release(p, b)
    \/ \E v \in Val : Write(p, b, v)

Spec == Init /\ [][Next]_vars
=============================================================================
