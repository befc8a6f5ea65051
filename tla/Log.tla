-------------------------------- MODULE Log ---------------------------------
(***************************************************************************)
(* The write-ahead log of the Lab 3 kernel (log.c): file system calls      *)
(* between begin_op() and end_op() write blocks in the buffer cache with   *)
(* log_write(); the last of a group of overlapping calls commits, which    *)
(* copies the blocks to the log area, writes the header, installs the      *)
(* blocks at home and clears the header.  The machine may crash between    *)
(* any two disk writes, recovery's included.                               *)
(*                                                                         *)
(* A step is a section under log.lock, one disk write, or the change of a  *)
(* buffer its process holds locked.  The buffer cache appears as a set of  *)
(* cached blocks with their contents; its own locking is BufferCache.      *)
(***************************************************************************)
EXTENDS Integers, Sequences, FiniteSets

CONSTANTS
  Proc,         \* the processes that make file system calls
  Block,        \* the blocks of the file system
  Val,          \* the contents of a block
  MAXOPBLOCKS,  \* what begin_op() reserves for a call
  OpBlocks,     \* the most blocks a call writes
  Copier,       \* the processes whose calls are sys_copy_file()
  LOGSIZE,      \* the blocks begin_op() counts on
  SIZE,         \* log.size: the header and the slots of the log on disk
  Zero,         \* the contents of a block mkfs has not filled
  None          \* no buffer, or not cached

ASSUME LogAssumption ==
  /\ IsFiniteSet(Proc)
  /\ MAXOPBLOCKS \in Nat
  /\ OpBlocks \in 0 .. MAXOPBLOCKS - 1
  /\ Copier \subseteq Proc
  /\ LOGSIZE \in Nat /\ LOGSIZE > MAXOPBLOCKS
  /\ SIZE = LOGSIZE    \* nlog of mkfs.c
  /\ Zero \in Val
  /\ None \notin Block /\ None \notin Val

VARIABLES
  home,         \* the disk: every block at its home location
  slots,        \* the disk: the blocks of the log area
  head,         \* the disk: the header block, the numbers of logged blocks
  cache,        \* the contents of the buffer of each cached block
  dirty,        \* the blocks pinned in the cache by B_DIRTY
  lh,           \* log.lh, the header in memory
  outstanding,  \* log.outstanding
  committing,   \* log.committing
  pc,           \* where each process stands
  buf,          \* the buffer a process has changed and holds locked
  wrote,        \* the blocks each call has written
  phase,        \* where commit() or initlog() stands
  tail          \* the loop variable of write_log() and install_trans()

diskVars == <<home, slots, head>>
logVars == <<lh, outstanding, committing>>
procVars == <<pc, buf, wrote>>
vars == <<diskVars, cache, dirty, logVars, procVars, phase, tail>>

\* A sequence without repetitions.
Distinct(s) == \A i, j \in DOMAIN s : s[i] = s[j] => i = j

Phase ==
  { "run",      \* no commit in progress
    "log",      \* in write_log()
    "install",  \* in install_trans() of commit()
    "end",      \* in end_op(), to clear log.committing
    "boot",     \* in initlog(), to read the header
    "recover" } \* in install_trans() of recover_from_log()

Slot == 1 .. SIZE - 1

TypeOK ==
  /\ home \in [Block -> Val]
  /\ slots \in [Slot -> Val]
  /\ head \in Seq(Block) /\ Distinct(head)
  /\ cache \in [Block -> Val \cup {None}]
  /\ dirty \subseteq Block
  /\ lh \in Seq(Block) /\ Distinct(lh)
  /\ outstanding \in Nat
  /\ committing \in BOOLEAN
  /\ pc \in [Proc -> {"idle", "begin", "asleep", "op", "write", "panic"}]
  /\ buf \in [Proc -> Block \cup {None}]
  /\ wrote \in [Proc -> SUBSET Block]
  /\ phase \in Phase
  /\ tail \in Nat

\* A file system made by mkfs, about to be mounted.
Init ==
  /\ home \in [Block -> Val]
  /\ slots = [i \in Slot |-> Zero]
  /\ head = <<>>
  /\ cache = [b \in Block |-> None]
  /\ dirty = {}
  /\ lh = <<>>
  /\ outstanding = 0
  /\ committing = FALSE
  /\ pc = [p \in Proc |-> "idle"]
  /\ buf = [p \in Proc |-> None]
  /\ wrote = [p \in Proc |-> {}]
  /\ phase = "boot"
  /\ tail = 1

Logged(s) == {s[i] : i \in DOMAIN s}

Locked == {buf[p] : p \in Proc} \ {None}

\* bread()
Contents(b) == IF cache[b] = None THEN home[b] ELSE cache[b]

\* What the disk holds once the log its header names has been installed.
Recovered ==
  [b \in Block |->
    IF b \in Logged(head)
    THEN slots[CHOOSE i \in DOMAIN head : head[i] = b]
    ELSE home[b]]

-----------------------------------------------------------------------------
(* File system calls.                                                      *)

MutWoken(f) == f

\* wakeup(&log)
Woken(f) == [p \in Proc |-> IF f[p] = "asleep" THEN "begin" ELSE f[p]]

\* The process is in begin_op(), or calls it now.
InBegin(p) ==
  \/ pc[p] = "begin"
  \/ pc[p] = "idle" /\ phase # "boot" /\ phase # "recover"

MutMustWait == committing \/ (outstanding + 1) * MAXOPBLOCKS > LOGSIZE

MustWait ==
  \/ committing
  \/ Len(lh) + (outstanding + 1) * MAXOPBLOCKS > LOGSIZE

BeginSleep(p) ==
  /\ InBegin(p)
  /\ MustWait
  /\ pc' = [pc EXCEPT ![p] = "asleep"]
  /\ UNCHANGED <<diskVars, cache, dirty, logVars, buf, wrote, phase, tail>>

BeginOp(p) ==
  /\ InBegin(p)
  /\ ~MustWait
  /\ outstanding' = outstanding + 1
  /\ pc' = [pc EXCEPT ![p] = "op"]
  /\ UNCHANGED <<diskVars, cache, dirty, lh, committing, buf, wrote, phase,
                 tail>>

\* The blocks a call writes: sys_copy_file() puts a whole file in one call.
WithinOp(p, b) ==
  p \in Copier \/ Cardinality(wrote[p] \cup {b}) <= OpBlocks

\* The panics of log_write(), evaluated before it takes log.lock.
LogWritePanics ==
  Len(lh) >= LOGSIZE \/ Len(lh) >= SIZE - 1 \/ outstanding < 1

\* A call changes a buffer it has read and locked, and calls log_write().
Modify(p, b, v) ==
  /\ pc[p] = "op"
  /\ b \notin Locked
  /\ WithinOp(p, b)
  /\ cache' = [cache EXCEPT ![b] = v]
  /\ buf' = [buf EXCEPT ![p] = b]
  /\ pc' = [pc EXCEPT ![p] = IF LogWritePanics THEN "panic" ELSE "write"]
  /\ UNCHANGED <<diskVars, dirty, logVars, wrote, phase, tail>>

MutAbsorbed(s, b) == Append(s, b)

\* Log absorption: a block is logged once.
Absorbed(s, b) == IF b \in Logged(s) THEN s ELSE Append(s, b)

\* The rest of log_write(), and the brelse() of the caller.
LogWrite(p) ==
  /\ pc[p] = "write"
  /\ lh' = Absorbed(lh, buf[p])
  /\ dirty' = dirty \cup {buf[p]}
  /\ wrote' = [wrote EXCEPT ![p] = @ \cup {buf[p]}]
  /\ buf' = [buf EXCEPT ![p] = None]
  /\ pc' = [pc EXCEPT ![p] = "op"]
  /\ UNCHANGED <<diskVars, cache, outstanding, committing, phase, tail>>

\* end_op() of a call that leaves others outstanding, or panics.
EndOp(p) ==
  /\ pc[p] = "op"
  /\ outstanding # 1 \/ committing
  /\ outstanding' = outstanding - 1
  /\ pc' = IF committing THEN [pc EXCEPT ![p] = "panic"]
           ELSE Woken([pc EXCEPT ![p] = "idle"])
  /\ wrote' = [wrote EXCEPT ![p] = {}]
  /\ UNCHANGED <<diskVars, cache, dirty, lh, committing, buf, phase, tail>>

\* end_op() of the last call: it goes on into commit().
EndLastOp(p) ==
  /\ pc[p] = "op"
  /\ outstanding = 1 /\ ~committing
  /\ outstanding' = 0
  /\ committing' = TRUE
  /\ phase' = IF lh = <<>> THEN "end" ELSE "log"
  /\ tail' = 1
  /\ pc' = [pc EXCEPT ![p] = "idle"]
  /\ wrote' = [wrote EXCEPT ![p] = {}]
  /\ UNCHANGED <<diskVars, cache, dirty, lh, buf>>

-----------------------------------------------------------------------------
(* commit() and recover_from_log(), one disk write at a time.              *)

MutDone == tail >= Len(lh)

\* The loop of write_log() or install_trans() is at its end.
Done == tail > Len(lh)

WriteLog ==
  /\ phase = "log"
  /\ tail <= Len(lh)
  /\ slots' = [slots EXCEPT ![tail] = Contents(lh[tail])]
  /\ tail' = tail + 1
  /\ UNCHANGED <<home, head, cache, dirty, logVars, procVars, phase>>

\* The header is on disk: the transaction is committed.
WriteHead ==
  /\ phase = "log"
  /\ Done
  /\ head' = lh
  /\ phase' = "install"
  /\ tail' = 1
  /\ UNCHANGED <<home, slots, cache, dirty, logVars, procVars>>

\* One turn of install_trans(): the bwrite() of the home block clears its
\* B_DIRTY.
Install ==
  /\ phase \in {"install", "recover"}
  /\ tail <= Len(lh)
  /\ home' = [home EXCEPT ![lh[tail]] = slots[tail]]
  /\ cache' = [cache EXCEPT ![lh[tail]] = slots[tail]]
  /\ dirty' = dirty \ {lh[tail]}
  /\ tail' = tail + 1
  /\ UNCHANGED <<slots, head, logVars, procVars, phase>>

AfterInstall == IF phase = "install" THEN "end" ELSE "run"

ClearHead ==
  /\ phase \in {"install", "recover"}
  /\ Done
  /\ lh' = <<>>
  /\ head' = <<>>
  /\ phase' = AfterInstall
  /\ UNCHANGED <<home, slots, cache, dirty, outstanding, committing, procVars,
                 tail>>

\* The end of end_op().
EndCommit ==
  /\ phase = "end"
  /\ committing' = FALSE
  /\ phase' = "run"
  /\ pc' = Woken(pc)
  /\ UNCHANGED <<diskVars, cache, dirty, lh, outstanding, buf, wrote, tail>>

\* read_head()
ReadHead ==
  /\ phase = "boot"
  /\ lh' = head
  /\ phase' = "recover"
  /\ tail' = 1
  /\ UNCHANGED <<diskVars, cache, dirty, outstanding, committing, procVars>>

-----------------------------------------------------------------------------
(* The buffer cache and the machine.                                       *)

\* bread() of a block that is not cached, by a call or by a plain read.
Load(b) ==
  /\ phase # "boot" /\ phase # "recover"
  /\ cache[b] = None
  /\ cache' = [cache EXCEPT ![b] = home[b]]
  /\ UNCHANGED <<diskVars, dirty, logVars, procVars, phase, tail>>

MutEvictable == {b \in Block : cache[b] # None} \ Locked

Evictable == {b \in Block : cache[b] # None} \ (Locked \cup dirty)

\* bget() recycles the buffer of b for another block.
Evict(b) ==
  /\ b \in Evictable
  /\ cache' = [cache EXCEPT ![b] = None]
  /\ UNCHANGED <<diskVars, dirty, logVars, procVars, phase, tail>>

\* Memory is lost; the disk keeps what was written.
Crash ==
  /\ cache' = [b \in Block |-> None]
  /\ dirty' = {}
  /\ lh' = <<>>
  /\ outstanding' = 0
  /\ committing' = FALSE
  /\ pc' = [p \in Proc |-> "idle"]
  /\ buf' = [p \in Proc |-> None]
  /\ wrote' = [p \in Proc |-> {}]
  /\ phase' = "boot"
  /\ tail' = 1
  /\ UNCHANGED diskVars


Begin(p) == BeginSleep(p) \/ BeginOp(p)
End(p) == EndOp(p) \/ EndLastOp(p)
Commit == WriteLog \/ WriteHead \/ Install \/ ClearHead \/ EndCommit \/ ReadHead

Next ==
  \/ \E p \in Proc : Begin(p) \/ LogWrite(p) \/ End(p)
  \/ \E p \in Proc, b \in Block, v \in Val : Modify(p, b, v)
  \/ \E b \in Block : Load(b) \/ Evict(b)
  \/ Commit
  \/ Crash

Spec == Init /\ [][Next]_vars

(***************************************************************************)
(* Fairness.  A runnable process runs again and the disk interrupts come,  *)
(* so log_write() and commit() go on.  A call is a finite piece of kernel  *)
(* code: it comes to its end_op() although its writes, which leave and     *)
(* enter "op", disable End(p) in between.  Nobody has to make a call, and  *)
(* nothing decides which waiting process begins first.                     *)
(***************************************************************************)
Fairness ==
  /\ \A p \in Proc : WF_vars(LogWrite(p)) /\ SF_vars(End(p))
  /\ WF_vars(Commit)

FairSpec == Spec /\ Fairness

-----------------------------------------------------------------------------
(* Properties.                                                             *)

\* log.c promises that writes become durable together, when no call is
\* active: the log implements AtomicDisk, whose durable blocks are those
\* recovery finds and whose current blocks are those bread() returns.
Disk == INSTANCE AtomicDisk WITH
  durable <- Recovered,
  current <- [b \in Block |->
               IF phase \in {"boot", "recover"} THEN Recovered[b]
               ELSE Contents(b)],
  active <- {p \in Proc : pc[p] \in {"op", "write", "panic"}}

ImplementsAtomicDisk == Disk!Spec

\* The reservation of begin_op() is enough for log_write(), whose own check
\* reads log.lh.n without log.lock and may be stale when the block is added:
\* the header never outgrows the log on disk and nothing panics, end_op()
\* included, which must not meet a commit.
NoPanic ==
  /\ Len(lh) <= SIZE - 1
  /\ \A p \in Proc : pc[p] # "panic"

\* A block whose cached copy differs from home is pinned or locked, so that
\* no eviction loses a write, and what is pinned is in the log header.
PinnedUntilInstalled ==
  \A b \in Block :
    /\ b \notin dirty \cup Locked => Contents(b) = home[b]
    /\ b \in dirty => b \in Logged(lh) /\ cache[b] # None

\* Nobody sleeps in begin_op() with no call outstanding and no commit under
\* way: somebody is left to call wakeup(&log).
NoLostWakeup ==
  (\E p \in Proc : pc[p] = "asleep") => outstanding > 0 \/ committing

\* Whoever sleeps in begin_op() is woken, by an end_op() or by the end of a
\* commit, or lost with the machine.
SleepersWake ==
  (\E p \in Proc : pc[p] = "asleep") ~> (\A p \in Proc : pc[p] # "asleep")
=============================================================================
