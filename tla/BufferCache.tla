----------------------------- MODULE BufferCache ----------------------------
(***************************************************************************)
(* The buffer cache (bio.c) with its sleep locks (sleeplock.c) and the     *)
(* request queue of the disk driver (ide.c), in the Lab 3 kernel.          *)
(*                                                                         *)
(* A step is a section under bcache.lock, under the spin lock of a sleep   *)
(* lock, or under idelock, or the change of a buffer by the process that   *)
(* holds it.  sleep() gives its spin lock up and falls asleep in one step  *)
(* (module ProcTable).  What a process does to a buffer it has locked no   *)
(* other process sees, so bread() and bwrite() go up to the sleep of       *)
(* iderw() in one step.                                                    *)
(*                                                                         *)
(* A process uses up to two buffers, as install_trans(), write_log() and   *)
(* bmap() do, and takes the second with the first locked, in the order     *)
(* these do (Level).  It does with a buffer what the callers in log.c and  *)
(* fs.c do: what it changes it hands to bwrite() or log_write() before     *)
(* brelse().  When no buffer can be recycled bget() panics, and the kernel *)
(* stops at bcache.lock.  The disk does not fail.                          *)
(***************************************************************************)
EXTENDS Integers, Sequences, FiniteSets

CONSTANTS
  Proc,      \* the processes
  Block,     \* the blocks of the disk
  Writable,  \* the blocks processes write; the others they only read
  Level,     \* of two buffers the second has the block of higher level: a
             \*   log block, a block of block numbers, any other block
  Val,       \* the contents of a block
  Image,     \* the contents of the disk at boot
  Zero,      \* the contents of a buffer at boot
  NBUF,      \* the number of buffers
  None       \* no block, no process, no buffer

Buf == 1 .. NBUF

\* A process and which of its two buffers.
Use == Proc \X (1 .. 2)

ASSUME BufferCacheAssumption ==
  /\ IsFiniteSet(Proc)
  /\ IsFiniteSet(Writable) /\ Writable \subseteq Block
  /\ Image \in [Block -> Val] /\ Zero \in Val
  /\ NBUF \in Nat
  /\ Level \in [Block -> Nat]
  /\ None \notin Block /\ None \notin Use /\ None \notin Buf

VARIABLES
  disk,     \* the contents of each block on the disk
  blockno,  \* the fields of struct buf, per buffer: the block, or None,
  refcnt,   \*   the uses of it, or waits for it,
  valid,    \*   B_VALID,
  dirty,    \*   B_DIRTY,
  lock,     \*   the use that holds its sleep lock, or None,
  data,     \*   its contents,
  place,    \*   and its place in the list from head.next, the most recent
  queue,    \* idequeue
  started,  \* the disk works on the first request of the queue
  pc,       \* where each use of a buffer stands
  buf,      \* the buffer it is of, or None
  changed   \* the buffer was changed, and not yet written or logged

bufVars == <<blockno, refcnt, valid, dirty, lock, data, place>>
ideVars == <<disk, queue, started>>
procVars == <<pc, buf, changed>>
vars == <<bufVars, ideVars, procVars>>

Point ==
  { "idle",
    "lock",    \* in acquiresleep(), at the while test
    "asleep",  \* in acquiresleep(), asleep
    "io",      \* in iderw(), asleep
    "woken",   \* in iderw(), at the while test
    "hold",    \* with a locked and valid buffer
    "drop",    \* in brelse(), past releasesleep()
    "panic" }  \* in panic(), with bcache.lock

TypeOK ==
  /\ disk \in [Block -> Val]
  /\ blockno \in [Buf -> Block \cup {None}]
  /\ refcnt \in [Buf -> Nat]
  /\ valid \in [Buf -> BOOLEAN]
  /\ dirty \in [Buf -> BOOLEAN]
  /\ lock \in [Buf -> Use \cup {None}]
  /\ data \in [Buf -> Val]
  /\ place \in [Buf -> Buf]
  /\ queue \in Seq(Buf)
  /\ started \in BOOLEAN
  /\ pc \in [Use -> Point]
  /\ buf \in [Use -> Buf \cup {None}]
  /\ changed \in [Use -> BOOLEAN]

\* binit() inserts each buffer at the head of the list.
Init ==
  /\ disk = Image
  /\ blockno = [i \in Buf |-> None]
  /\ refcnt = [i \in Buf |-> 0]
  /\ valid = [i \in Buf |-> FALSE]
  /\ dirty = [i \in Buf |-> FALSE]
  /\ lock = [i \in Buf |-> None]
  /\ data = [i \in Buf |-> Zero]
  /\ place = [i \in Buf |-> NBUF + 1 - i]
  /\ queue = <<>>
  /\ started = FALSE
  /\ pc = [u \in Use |-> "idle"]
  /\ buf = [u \in Use |-> None]
  /\ changed = [u \in Use |-> FALSE]

-----------------------------------------------------------------------------
(* bget() and acquiresleep().                                              *)

Other(u) == <<u[1], 3 - u[2]>>

\* The process of u is not in a call for its other buffer.
Turn(u) == pc[Other(u)] \in {"idle", "hold"}

\* u may ask for b: its process has no buffer, or the first one.
Asks(u, b) ==
  /\ pc[u] = "idle"
  /\ u[2] = 1 => pc[Other(u)] = "idle"
  /\ u[2] = 2 => /\ pc[Other(u)] = "hold"
                 /\ Level[blockno[buf[Other(u)]]] < Level[b]

\* panic() never gives bcache.lock back.
BcacheLockFree == \A u \in Use : pc[u] # "panic"

MutGrabbed(i) == refcnt

\* b->refcnt++
Grabbed(i) == [refcnt EXCEPT ![i] = @ + 1]

BgetHit(u, b) ==
  /\ BcacheLockFree
  /\ Asks(u, b)
  /\ \E i \in Buf :
       /\ blockno[i] = b
       /\ refcnt' = Grabbed(i)
       /\ buf' = [buf EXCEPT ![u] = i]
  /\ pc' = [pc EXCEPT ![u] = "lock"]
  /\ UNCHANGED <<blockno, valid, dirty, lock, data, place, ideVars, changed>>

MutUnused(i) == refcnt[i] = 0
MutUnused2(i) == ~dirty[i]

\* B_DIRTY alone also keeps a buffer: the log has not committed it.
Unused(i) == refcnt[i] = 0 /\ ~dirty[i]

\* i is the unused buffer a scan from the tail of the list finds first.
Victim(i) ==
  /\ Unused(i)
  /\ \A j \in Buf : Unused(j) => place[j] <= place[i]

Cached(b) == \E i \in Buf : blockno[i] = b

BgetMiss(u, b) ==
  /\ BcacheLockFree
  /\ Asks(u, b)
  /\ ~Cached(b)
  /\ \E i \in Buf :
       /\ Victim(i)
       /\ blockno' = [blockno EXCEPT ![i] = b]
       /\ valid' = [valid EXCEPT ![i] = FALSE]
       /\ dirty' = [dirty EXCEPT ![i] = FALSE]
       /\ refcnt' = [refcnt EXCEPT ![i] = 1]
       /\ buf' = [buf EXCEPT ![u] = i]
  /\ pc' = [pc EXCEPT ![u] = "lock"]
  /\ UNCHANGED <<lock, data, place, ideVars, changed>>

\* panic("bget: no buffers")
BgetPanic(u, b) ==
  /\ BcacheLockFree
  /\ Asks(u, b)
  /\ ~Cached(b)
  /\ \A i \in Buf : ~Unused(i)
  /\ pc' = [pc EXCEPT ![u] = "panic"]
  /\ UNCHANGED <<bufVars, ideVars, buf, changed>>

\* panic() loops for ever.
Panicked(u) == pc[u] = "panic" /\ UNCHANGED vars

\* iderw(), up to its first sleep: it queues the buffer, starts an idle disk
\* and falls asleep.
Iderw(u) ==
  /\ queue' = Append(queue, buf[u])
  /\ started' = TRUE
  /\ pc' = [pc EXCEPT ![u] = "io"]
  /\ UNCHANGED disk

\* acquiresleep(), then bread(), which reads what is not valid
AcquireSleep(u) ==
  /\ pc[u] = "lock"
  /\ lock[buf[u]] = None
  /\ lock' = [lock EXCEPT ![buf[u]] = u]
  /\ IF valid[buf[u]]
       THEN /\ pc' = [pc EXCEPT ![u] = "hold"]
            /\ UNCHANGED ideVars
       ELSE Iderw(u)
  /\ UNCHANGED <<blockno, refcnt, valid, dirty, data, place, buf, changed>>

AcquireBlocks(u) ==
  /\ pc[u] = "lock"
  /\ lock[buf[u]] # None
  /\ pc' = [pc EXCEPT ![u] = "asleep"]
  /\ UNCHANGED <<bufVars, ideVars, buf, changed>>

-----------------------------------------------------------------------------
(* The disk driver.                                                        *)

MutStarts(q) == FALSE

\* ideintr() starts the disk on the next request, if there is one.
Starts(q) == q # <<>>

\* The request at the head of the queue is done: the block is on the disk,
\* or in the buffer.
Ideintr ==
  /\ started
  /\ LET i == Head(queue) IN
       /\ disk' = IF dirty[i] THEN [disk EXCEPT ![blockno[i]] = data[i]] ELSE disk
       /\ data' = IF dirty[i] THEN data ELSE [data EXCEPT ![i] = disk[blockno[i]]]
       /\ valid' = [valid EXCEPT ![i] = TRUE]
       /\ dirty' = [dirty EXCEPT ![i] = FALSE]
       /\ pc' = [u \in Use |-> IF pc[u] = "io" /\ buf[u] = i THEN "woken" ELSE pc[u]]
  /\ queue' = Tail(queue)
  /\ started' = Starts(Tail(queue))
  /\ UNCHANGED <<blockno, refcnt, lock, place, buf, changed>>

IoDone(u) == valid[buf[u]] /\ ~dirty[buf[u]]

\* The while test of iderw() after a wakeup.
IderwReturn(u) ==
  /\ pc[u] = "woken"
  /\ pc' = [pc EXCEPT ![u] = IF IoDone(u) THEN "hold" ELSE "io"]
  /\ UNCHANGED <<bufVars, ideVars, buf, changed>>

-----------------------------------------------------------------------------
(* What a process does with a locked buffer.                               *)

Modify(u, v) ==
  /\ pc[u] = "hold"
  /\ blockno[buf[u]] \in Writable
  /\ data' = [data EXCEPT ![buf[u]] = v]
  /\ changed' = [changed EXCEPT ![u] = TRUE]
  /\ UNCHANGED <<blockno, refcnt, valid, dirty, lock, place, ideVars, pc, buf>>

Bwrite(u) ==
  /\ pc[u] = "hold"
  /\ blockno[buf[u]] \in Writable
  /\ dirty' = [dirty EXCEPT ![buf[u]] = TRUE]
  /\ changed' = [changed EXCEPT ![u] = FALSE]
  /\ Iderw(u)
  /\ UNCHANGED <<blockno, refcnt, valid, lock, data, place, buf>>

\* log_write() pins the buffer for a later bwrite().
LogWrite(u) ==
  /\ pc[u] = "hold"
  /\ changed[u]
  /\ dirty' = [dirty EXCEPT ![buf[u]] = TRUE]
  /\ changed' = [changed EXCEPT ![u] = FALSE]
  /\ UNCHANGED <<blockno, refcnt, valid, lock, data, place, ideVars, pc, buf>>

MutWokenBy(i) == pc

\* wakeup() of the processes asleep for the lock of buffer i
WokenBy(i) ==
  [u \in Use |-> IF pc[u] = "asleep" /\ buf[u] = i THEN "lock" ELSE pc[u]]

\* brelse(): releasesleep()
Releasesleep(u) ==
  /\ pc[u] = "hold"
  /\ ~changed[u]
  /\ lock' = [lock EXCEPT ![buf[u]] = None]
  /\ pc' = [WokenBy(buf[u]) EXCEPT ![u] = "drop"]
  /\ UNCHANGED <<blockno, refcnt, valid, dirty, data, place, ideVars, buf,
                 changed>>

\* Buffer i goes to the head of the list.
MoveToHead(i) ==
  [j \in Buf |-> IF j = i THEN 1
                 ELSE IF place[j] < place[i] THEN place[j] + 1 ELSE place[j]]

MutDropped(i) == [refcnt EXCEPT ![i] = IF @ > 1 THEN @ - 1 ELSE @]

\* b->refcnt--
Dropped(i) == [refcnt EXCEPT ![i] = @ - 1]

\* brelse(): the section under bcache.lock
Brelse(u) ==
  /\ BcacheLockFree
  /\ pc[u] = "drop"
  /\ refcnt' = Dropped(buf[u])
  /\ place' = IF refcnt[buf[u]] = 1 THEN MoveToHead(buf[u]) ELSE place
  /\ pc' = [pc EXCEPT ![u] = "idle"]
  /\ buf' = [buf EXCEPT ![u] = None]
  /\ UNCHANGED <<blockno, valid, dirty, lock, data, ideVars, changed>>

Bget(u, b) == BgetHit(u, b) \/ BgetMiss(u, b) \/ BgetPanic(u, b)

Step(u) ==
  \/ AcquireSleep(u) \/ AcquireBlocks(u)
  \/ IderwReturn(u)
  \/ Bwrite(u) \/ LogWrite(u)
  \/ Releasesleep(u) \/ Brelse(u)

Next ==
  \/ \E u \in Use, b \in Block : Bget(u, b)
  \/ \E u \in Use : Turn(u) /\ Step(u)
  \/ \E u \in Use, v \in Val : Turn(u) /\ Modify(u, v)
  \/ \E u \in Use : Panicked(u)
  \/ Ideintr

Spec == Init /\ [][Next]_vars

-----------------------------------------------------------------------------
(* Properties.                                                             *)

\* A block is cached in one buffer, no process stands at a buffer that was
\* recycled for another block, and a buffer's count is that of the uses of it
\* and the waits for it.
RefsExact ==
  /\ \A i, j \in Buf : blockno[i] = blockno[j] /\ blockno[i] # None => i = j
  /\ \A i \in Buf : refcnt[i] = Cardinality({u \in Use : buf[u] = i})

InUse == {u \in Use : buf[u] # None}
Pinned == {blockno[i] : i \in {j \in Buf : dirty[j]}}

\* bget() panics only when the buffers the processes use and wait for, and the
\* blocks the log has pinned, are NBUF or more: none is lost to a count that
\* never returns to 0, or to a B_DIRTY nobody clears.
PanicsOnlyFull ==
  ~BcacheLockFree => NBUF <= Cardinality(InUse) + Cardinality(Pinned)

\* Each block is used by one process at a time and reads as what was last
\* written to it, wherever recycling, the disk and the pins leave it.
BufOf(b) == CHOOSE i \in Buf : blockno[i] = b

Store == INSTANCE BlockStore WITH
  value <- [b \in Block |->
             IF Cached(b) /\ valid[BufOf(b)] THEN data[BufOf(b)] ELSE disk[b]],
  holder <- [b \in Block |-> IF Cached(b) THEN lock[BufOf(b)] ELSE None],
  Proc <- Use

ImplementsBlockStore == Store!Spec

\* Whoever sleeps has somebody to wake him: a request is in the queue and the
\* disk at work, a lock is held.
NoLostWakeup ==
  /\ queue # <<>> => started
  /\ \A u \in Use :
       /\ pc[u] = "io" => \E k \in 1 .. Len(queue) : queue[k] = buf[u]
       /\ pc[u] = "asleep" => lock[buf[u]] # None
=============================================================================
