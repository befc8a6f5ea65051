----------------------------- MODULE AtomicDisk -----------------------------
(***************************************************************************)
(* What the write-ahead log of log.c promises to the file system: a disk   *)
(* whose contents after a crash are those of a moment at which no file     *)
(* system call was in progress.  The writes of a call survive together     *)
(* with those of every call it overlapped, or not at all.                  *)
(***************************************************************************)

CONSTANTS
  Proc,   \* the processes that make file system calls
  Block,  \* the blocks of the file system
  Val     \* the contents of a block

VARIABLES
  durable,  \* the blocks as a crash would leave them
  current,  \* the blocks as file system calls see them
  active    \* the processes between begin_op() and end_op()

vars == <<durable, current, active>>

TypeOK ==
  /\ durable \in [Block -> Val]
  /\ current \in [Block -> Val]
  /\ active \subseteq Proc

Init ==
  /\ durable \in [Block -> Val]
  /\ current = durable
  /\ active = {}

Begin(p) ==
  /\ p \notin active
  /\ active' = active \cup {p}
  /\ UNCHANGED <<durable, current>>

Write(p, b, v) ==
  /\ p \in active
  /\ current' = [current EXCEPT ![b] = v]
  /\ UNCHANGED <<durable, active>>

End(p) ==
  /\ p \in active
  /\ active' = active \ {p}
  /\ UNCHANGED <<durable, current>>

\* Only what no call is still changing becomes durable.
Commit ==
  /\ active = {}
  /\ durable' = current
  /\ UNCHANGED <<current, active>>

Crash ==
  /\ current' = durable
  /\ active' = {}
  /\ UNCHANGED durable

Next ==
  \/ \E p \in Proc : Begin(p) \/ End(p)
  \/ \E p \in Proc, b \in Block, v \in Val : Write(p, b, v)
  \/ Commit
  \/ Crash

Spec == Init /\ [][Next]_vars
=============================================================================
