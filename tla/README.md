# Formal models of XV6-Modified-OS-Lab

The repository holds five copies of the xv6 teaching kernel, `Lab1` to `Lab5`, each with
the additions of one laboratory. This directory models the parts where the kernel's own
logic is concurrent or stateful enough that tests do not settle it, checks the models with
TLC, and proves the most important results with TLAPS.

Paths below are relative to `src/`. Each component is modelled from the lab that changed it:
the scheduler and the process table from `Lab3`, the priority lock and shared memory from
`Lab5`. `log.c`, `bio.c`, `ide.c`, `pipe.c`, `fs.c`, `spinlock.c`, `kalloc.c` and `exec.c`
are the same in all labs, and modelled from `Lab3`; `sys_copy_file()` exists in `Lab2` and, the same, in `Lab3`.

## 1. Inventory

| Component | State | Operations | Correct when |
|---|---|---|---|
| Process table and context switch (`Lab3/proc.c`, `swtch.S`, `trap.c`, `sysproc.c`) | `ptable.proc` (state, pid, parent, chan, killed), `nextpid`, `cpus[].proc`, where each kernel thread stands | `allocproc`, `fork`, `exit`, `wait`, `kill`, `sleep`, `wakeup`, `yield`, `sched`, `scheduler`, `forkret`, timer interrupt | a stack runs on one CPU; `ptable.lock` is handed over soundly; no wakeup is lost; no orphan or slot leaks; killed processes exit |
| MLFQ scheduler (`Lab3/proc.c`) | queue, start time, BJF parameters, `last_run` per process; a cursor per CPU | three finders, `ageprocs`, `change_scheduling_queue`, `set_bjf_params_*` | round robin is fair, the order of the queues is kept, nobody starves |
| Priority lock (`Lab4`, `Lab5` `prioritylock.c`) | `locked`, `pid`, a queue in an array | `acquire_priority`, `release_priority` | mutual exclusion, the queue is exactly the waiters, highest pid first, no lost hand-over |
| Shared memory (`Lab5/proc.c`) | `sharingPages` (id, frame, references), `proc->sharingMem` | `init_`, `open_`, `close_sharedmem` | one frame per id, exact counts, no leak, no early or double free |
| Virtual memory and frames (`vm.c`, `kalloc.c`, `exec.c`) | page tables, free list | `kalloc`, `kfree`, `copyuvm`, `allocuvm`, `deallocuvm`, `freevm`, `mappages` | every frame is free or owned, once |
| Spin locks (`spinlock.c`) | `locked`, owner CPU, `ncli` | `acquire`, `release`, `pushcli`, `popcli` | exclusion, no interrupt while held |
| Traps and dispatch (`trap.c`, `syscall.c`) | trap frame | interrupts, system calls, faults | killed processes leave, the timer yields |
| Sleep locks (`sleeplock.c`) | `locked`, `pid` | `acquiresleep`, `releasesleep` | one holder, no sleeper forgotten |
| Log (`log.c`) | header, `outstanding`, `committing`, log area | `begin_op`, `log_write`, `end_op`, commit, recovery | a crash leaves all or nothing of a group of calls; the space reserved is enough |
| Buffer cache (`bio.c`) | LRU list, `refcnt`, flags | `bread`, `bwrite`, `brelse` | one buffer per block, used by one process; pinned buffers stay; reads see the last write |
| Disk driver (`ide.c`) | request queue | `iderw`, `ideintr` | each request completes once, for its buffer |
| Pipes (`pipe.c`) | ring, two counters, two open flags | read, write, close | no byte lost, nobody asleep for good |
| Inodes and paths (`fs.c`) | inode cache, link counts, bitmap | `ialloc`, `iget`, `iput`, `ilock`, `dirlink`, `namex` | counts are exact; an inode is freed once, when unused |
| Open files (`file.c`, `sysfile.c`; `sys_copy_file` in `Lab2` and `Lab3`) | file table, descriptors | open, create, link, unlink, close, copy | counts are exact, nothing dangles, transactions are closed and bounded |
| Console (`Lab1/console.c`) | input ring, cursor, history | line editing, arrows, history | indices stay in range |
| System call counters (`Lab4/syscall.c`) | a shared and per-CPU counters | count, reset, read | the totals agree |
| Small system calls (`Lab2`, `Lab3` `proc.c`) | none of their own | digital root, uncle count, lifetime | the right number |
| Boot, `mp.c`, `lapic.c`, `ioapic.c`, `uart.c`, `kbd.c` | device registers | set-up, device I/O | outside the models |
| User programs, `mkfs.c` | their own | sequential | outside the models |

How they interact:

- Every blocking operation goes through `sleep(chan, lk)` and `wakeup(chan)`, which exchange
  the caller's spin lock for `ptable.lock`. `ProcTable` models this hand-over for `wait()`
  (where the two locks are the same one) and for `sys_sleep()` (where they differ).
- The scheduler holds `ptable.lock` across `swtch()`; the thread it resumes releases it.
- The timer interrupt of CPU 0 increments `ticks`, wakes the sleepers on `&ticks`, runs
  `ageprocs()`, and ends in `yield()`, from user space or in the middle of the kernel wherever
  no spin lock is held.
- The priority lock is `sleep`/`wakeup` on the lock itself under its spin lock `lk->lk`.
- A file system call runs between `begin_op()` and `end_op()`. It locks inodes (`Files`), and
  under them locks buffers, changes them and pins them with `log_write()` (`Log`); the buffer
  cache finds, recycles and locks the buffers and hands them to the disk (`BufferCache`). `Log`
  takes from the cache what `BlockStore` promises of it, and `Files` from the log that a call
  sees no crash, as `AtomicDisk` promises.
- Shared pages are mapped into page tables that `exec`, `sbrk` and `wait` free without
  knowing of the sharing.

What is hard here: interleavings of two CPUs with interrupts, crashes between disk writes, counts
read in one critical section and changed in the next, locks released by another
thread than the one that acquired them, wakeups that race with the test of a condition,
slots and pids that are reused between a read and its use, two lock orders, starvation under
strict priorities, and sequences of legal calls on the shared pages that nobody ran. The full
list, with a line for each, is under `hazards` in `PROJECT.json`.

## 2. The modules

### ProcTable: the process table of Lab 3

State: `state`, `pid`, `parent`, `chan`, `killed`, `nextpid` are the fields of the same name.
`kpc` says where the kernel thread of a slot stands (the return address saved by `swtch()`,
reduced to the points that matter) and `preempted` that it is inside the `sched()` of
`yield()`. `proc` is `c->proc`; `spc` says whether the scheduler thread of a CPU is in its
loop, switched away from, or just switched back to. `ptlock` and `tickslock` name the CPU that
holds a lock, as `lk->cpu` does. `tick` is the progress of the timer interrupt on CPU 0.

A step is the code between two points where another CPU or an interrupt can come in: an
`acquire()`, a `release()` or a `swtch()`. So `sleep()` is four steps (`SleepTest` up to the
call, `SleepBlock` with `ptable.lock` acquired and `tickslock` released, `SleepWoken`,
`SleepReacquire`), `fork()` is three (`ForkAlloc`, `ForkRunnable`, `ForkReadTicks`) with a
failure exit `ForkFail`, and the timer interrupt two or three (`TimerTick`, `TimerWakeup`,
`Yield`). A critical section with nothing inside it to wait for is one step.

Abstractions and decisions:

- Any RUNNABLE process may be picked; the policy is `Mlfq`.
- `ticks` itself is not a variable. A sleeper's `left` is `n - (ticks - ticks0)`, counted down
  by every tick, so sleeps are bounded (`MaxSleep`) and time is not. Negative `n`, which the
  unsigned comparison turns into a very long sleep, is left out.
- `fork()` sets `np->parent` before it takes the lock; the model sets it in `ForkRunnable`.
  The EMBRYO is visible to nobody else but as a child of `curproc`, which is busy in `fork()`.
- A process is never preempted while it holds a spin lock (`ncli > 0`): interrupts come in at
  `OpenPoint` only.
- `kill(1)` is left out: `exit()` of init panics. `kill` of a pid that is not in use, 0
  included, is allowed and marks an UNUSED slot, as in the code, where `KillPid` admits it.

### Mlfq: the scheduling policy of Lab 3

State: `state`, `queue`, `start`, `rank` and `age` of each slot, `prev` of each CPU (a local
variable of `scheduler()`), and the loop of `ageprocs()` (`pass`, `pos`, `target`). Each step
is one critical section of `ptable.lock`. The aging pass is modelled as it is: it finds a
starved process with the lock held (`AgeScan`), releases the lock, reads `p->pid` (`AgeRead`),
and calls `change_scheduling_queue()`, which takes the lock again and looks for the pid
(`AgePromote`); in between processes exit, run, change queue and reuse the slot.

Abstractions: `age` is `ticks - last_run` capped just above the threshold; start times count
forks rather than ticks, and may be equal, or 0; `rank` is a bounded number that every run
increases and that the tuning calls, for one process (`SetBjfParams`) or in one section for all
(`SetBjfParamsSys`), and `fork()` set to anything (the ratios and the floating
point of `bjfrank()` are not modelled). An EMBRYO or a ZOMBIE is UNUSED to the policy.

The code differs from the documentation in small ways the model follows: the threshold is 5000
ticks in the code and 8000 in the README (it is a constant here), the time asleep counts as
waiting, processes of the third queue are promoted too, and `sh` starts in the second queue.

### PriorityLock and PriorityMutex: the lock of Lab 5

`PriorityLock` has the fields of `struct prioritylock` (`locked`, `pid`, the array `queue`
whose first 0 ends it) and where each process stands. A step is one critical section of the
spin lock `lk->lk`; that `sleep()` gives it up without losing a wakeup is what `ProcTable`
shows of `sleep()`. The array operations are modelled cell by cell (`Place`, `Inserted`,
`Dequeued`), the last place that `dequeue()` never clears included. `kill()` wakes a sleeper,
which goes back to sleep.

`PriorityMutex` is the abstract specification: one owner, a set of waiters, and a release that
passes the lock in the same step to the highest waiting pid. `PriorityLock` implements it with
`owner <- pid` and `waiting <- Queued`.

### SharedMem: shared pages, page tables and frames of Lab 5

State: per process `life`, `sz` and `pgdir` (page number to frame), `sharingMem`; the table
(`shmid`, `shaddr`, `refrences`, spelled as in the code); and `freelist`, how often each frame
stands in the free list, so that a double `kfree()` is seen and not hidden. `opened` is what
the program itself knows: the id it has open. A step is a whole system call, or the reaping of
a process by `wait()`: open and close hold the lock of the table, and the other calls touch
only their own page table and the free list, which has its own lock.

Abstractions: which free frame `kalloc()` returns is immaterial, so it is the lowest; a call
that needs more frames than are free fails without effect, except that
`open_sharedmem()`, which does not check, is not called when it needs one and there is none. The
ids are above 0: the table marks a free slot with -1, and an untouched one with 0, so a program that
passes these meets the marks, and the code maps the physical page 0 or counts below zero.
`ShrinkAll` is `sbrk(-sz)`, of which `growproc()` says that it failed although the pages are
gone. `Next` lets programs make
any call. `DisciplinedNext` keeps the order of `sharingMemory.c`: initialize while nothing is
open, close what was opened, and do not grow, `exec()` or exit in between, nor give up their last page.

### Log and AtomicDisk: the write-ahead log

State: the disk (`home`, the log area `slots`, the header block `head`), the memory (`cache`,
`dirty`, and `lh`, `outstanding`, `committing` of `struct log`), where each process stands, and
`phase` and `tail`, which say where `commit()` or recovery is in its loops. A step is a critical
section of `log.lock`, one disk write, or the change of a buffer its process holds locked. The
two checks at the top of `log_write()` are made in `Modify`, before it takes `log.lock`, and the
block is added in `LogWrite`: other calls come in between, as in the code. `Crash` may come at any
time; it empties the memory and starts `ReadHead`, `Install` and `ClearHead`, which may crash again.

`AtomicDisk` has three variables: what is durable, what calls see, and which calls are active. It
commits only when none is active, and a crash returns to what is durable. `Log` implements it
with what recovery would make of the disk as `durable`, and with the cached contents, or during
recovery the durable ones, as `current`.

Abstractions and decisions: the order in which a call writes its blocks is free; a buffer is locked
from its change to its `log_write()`, as every caller does; `OpBlocks` bounds the different
blocks of a call. It has to be below `MAXOPBLOCKS`, because `mkfs` gives the log `LOGSIZE`
blocks with the header among them (`SIZE = LOGSIZE`): calls that used their reservation to the
last block would exceed the log by one, and `filewrite()` keeps well below. `Copier` are processes whose
calls keep no bound (`sys_copy_file()` of Labs 2 and 3, of which this is all that is modelled).

### BufferCache and BlockStore: buffers, sleep locks and the disk queue

State: the fields of `struct buf` per buffer (`place` is its place in the list), the disk and its
request queue, and where each process stands with each of its two buffers (`Use`). A step is a critical section of
`bcache.lock`, of the spin lock of a sleep lock, or of `idelock`. What a process does with a
buffer it has locked no other sees, so `bread()` and `bwrite()` run up to the sleep in `iderw()`
in one step; `brelse()` is two, `Releasesleep` and `Brelse`, and others lock the buffer in
between. A process uses up to two buffers, the second while it holds the first (`Asks`), as
`install_trans()`, `write_log()` and `bmap()` above `balloc()` do; they take a log block before
a block at home, and an indirect block before the bitmap, an order that `Level` keeps
in the model. It passes what it changed to `bwrite()` or `log_write()`, as these callers do.

The kernel has 30 buffers for up to 64 processes and 30 pinned blocks, so `bget()` may find none to
recycle, and nothing in the model keeps it from that: it panics (`BgetPanic`) with `bcache.lock`
held, after which no step that needs the lock is taken. `PanicsOnlyFull` says that it
does so only when the buffers in use and the pinned blocks fill the cache.

`BlockStore` is a value and a holder per block. `BufferCache` implements it: taking a buffer from
one block for another, the pin, and the order in which the disk works are invisible; a panic
only stops it.

### Files: inodes, directories and open files

State: the inodes of the disk (`type`, `nlink`, and the entries of a directory), the slots of
`icache` with the owner of their lock, `ftable`, `ofile`, and for each process the call it is in
with its local variables: `rest` of the path, `cur` (the inode of `namex()`, then `dp`), `ip`,
`inum`, and `puts`, the inodes it calls `iput()` on next. A step is a critical section of
`icache.lock` or of one inode's lock; where the code holds one inode and waits for another it is
broken there, so `create()`, `sys_unlink()` and `sys_link()` are up to six steps each, between which
the others run. `iput()` is `PutLock`, `PutFree` and `PutDrop`.

Abstractions: a directory is a function from names to inode numbers; `.` and `..` are left out, and
so are relative paths (a path begins at the root, and may be the root: `WalkRoot`), file contents and blocks; device nodes would
behave as files. `cwd` is the root of every process. `ialloc()` takes any free inode; it looks for
the first, but its scan takes several steps in which others free some; where there is none the
code panics and the model's call waits. `sys_copy_file()`, which Lab 3 has too, is left out: it
never puts its two inodes, so no count would be exact after it, and on some paths it returns
with inodes locked or without `end_op()`. Each call is in a
transaction of the log, which is not modelled here. A process with no open files stands for
the child `fork()` makes.

## 3. The runs

| Run | Module, bounds | Result |
|---|---|---|
| `proc_smp` | `ProcTable`: 2 CPUs, 3 slots, 5 pids, sleeps of 0 or 1 tick, kill(2) and kill(3); 433 thousand states | locks, stacks, wakeups, families, slots and pids: all eight properties hold |
| `proc_up` | `ProcTable` with fairness: 1 CPU, 3 slots, 3 pids, kill(2) | killed processes exit, sleeps end, orphans are reaped, control returns; no deadlock |
| `proc_smp_live` | `ProcTable` with fairness: 2 CPUs, 2 slots | `ControlReturns` is violated |
| `mlfq` | `Mlfq` with fairness: 1 CPU, 3 slots, threshold 1, one tuning call; 248 thousand states | types, round-robin progress, and nobody starves |
| `priolock` | `PriorityLock` with fairness: 5 processes, 5 places; 811 states | all properties and the refinement hold |
| `sharedmem` | `SharedMem`, disciplined: 3 processes, 2 ids, 2 slots, 5 frames, 2 pages; 942 thousand states | all properties hold |
| `sharedmem_calls` | `SharedMem`, any order: 2 processes, 8 frames | `FreedOnce` is violated |
| `log` | `Log` with fairness: 2 processes, 3 blocks, a log of 4 with its header, 2 blocks reserved and 1 written per call; 236 thousand states | safety, liveness of the sleepers and the refinement hold |
| `log_copy` | `Log`: the same with one `copy_file()` | `NoPanic` is violated |
| `bcache` | `MCBufferCache`: 2 processes of two buffers each, 4 blocks of which 1 is written, 3 buffers; 487 thousand states | all properties and the refinement hold; nothing stops but by a panic |
| `files` | `MCFiles`: 2 processes, 3 inodes, 3 slots, 2 files, 1 descriptor each; 744 thousand states | counts are exact, nothing dangles |
| `files_leak` | `MCFiles`: the same | `LastPutFrees` is violated |

Every property is stated, with the code it is about, above its definition. `PROJECT.json`
names for each property of a passing run a mutant of the code that breaks it.

Why the bounds are enough. In `ProcTable` two CPUs give every pairwise race. Three slots give
init, a child and a grandchild, hence orphans, and with five pids every slot is reused; two
processes besides init are the least that can both have a fork in progress. A sleep of one tick
is one that blocks, and its end is the interesting moment; longer
sleeps repeat it. For the policy, three slots are the least with a wrap of the cursor over a
process that must not be skipped, and a threshold of 1 makes a process starve within two
ticks; what several CPUs add, a cursor each, is covered by `RoundRobinCorrect` for every number.
The lock uses as many processes as the array has places, the worst case that
`NPROC` allows. Two ids, two slots and three processes give shared openers, a full table, and
a process outside; five frames run out.

In `log`, a log of three slots with two blocks reserved for a call is the least in which a call
has to wait for space while another runs; two overlapping calls commit together, and three
blocks give one that is logged, one that is not, and one that is logged twice and absorbed. In
`bcache`, three buffers are fewer than two processes may hold and the log pin, so the cache does fill
and `bget()` panics in the run; they are also enough for two buffers in one process, a third in the
other, and, with four blocks of which three are only read, for recycling. In `files`, two
processes make every race of a create, a link, an unlink, an open or a close with any other on
the same name and on nested directories; with three inodes inode numbers and slots are reused.
`MCFiles` lists the paths, that of the root among them.

`files` and `bcache` use the symmetry of the processes, which no definition or property of theirs
tells apart. The only temporal property among them, the refinement of `BlockStore`, has no
fairness: each of its steps is checked on its own. The runs of
`RoundRobinProgress`, `NoStarvation` and `KilledExits` have one CPU: what other CPUs do
between a test and its use is in `proc_smp`, whose properties are about safety, and in the proofs.

`proc_smp` does not check deadlock, because of the first finding below, and neither does `files`
because of the sixth; `proc_up`, `mlfq`, `priolock`, `log` and `bcache` do (where a panic of `bget()`
loops for ever, `Panicked`). In the `SharedMem` runs the system
may stop (init alone, out of frames, or panicked), and nothing is claimed of progress.

Bounds in guards: `MaxPid` (`fork()` stops), `MaxClock`, `MaxRank`, `MaxChange`, `MaxSz` and
`OpBlocks`.

### What disagrees with the code's comments and documents

1. **Two CPUs can deadlock** (`proc_smp_live`). `fork()` acquires `tickslock` while it holds
   `ptable.lock` (`Lab3/proc.c:232-243`); the timer interrupt acquires `ptable.lock` in
   `wakeup()` while it holds `tickslock` (`Lab3/trap.c:53-57`), and so does `sleep()` called by
   `sys_sleep()`. The comment of `scheduler()` (`proc.c:344-345`) says that a process
   eventually gives the CPU back. On one CPU it does (`proc_up`), as interrupts are off.
2. **The second queue is passed over** (no run: `Lcfs` models it, and `NoStarvation` holds
   with it). `lcfs_finder()` never finds a process with start time 0, so a process of the third
   queue runs first (`README.md:69`).
3. **A shared frame is freed twice** (`sharedmem_calls`) when a process ends or calls `exec()`
   with the page open: `freevm()` frees the frame and the table keeps it.
4. **A file copy outgrows its transaction** (`log_copy`). `sys_copy_file()` of Lab 2 writes a whole
   file between one `begin_op()` and `end_op()`, against `param.h:10`, "max # of blocks any FS
   op writes", and `log_write()` panics.
5. **An inode is never freed** (`files_leak`). `iput()` reads the counts in one critical section and
   drops its reference in another; the last two puts of an unlinked inode at once each see
   the other's reference, and `fs.c:119-120`, "iput() frees if the reference and link counts
   have fallen to zero", is not so.
6. **Two file system calls can deadlock** (`files` with deadlock checked, 10 steps). `create()` puts
   the directory while the new inode is locked; an unlink of the new name holds the
   directory and waits for the inode.

## 4. Fairness

- `ProcTable`. A CPU goes on executing (weak fairness of the scheduler's return and of a
  resumed `yield()`); interrupts keep arriving, and a CPU that spins on a lock gets it if it is
  free again and again (strong fairness of the tick, of `Yield`, and of a thread inside the
  kernel). That scheduling passes over no RUNNABLE process is an assumption here and what
  `NoStarvation` shows of the policy. User programs owe nothing: they may compute, never fork
  and never exit. Only init calls `wait()` for ever, as `init.c` does, and a killed process
  reaches `exit()`, as `trap()` makes it.
- `Mlfq`. The timer ticks, its handler finishes, each CPU gets its timer interrupt (weak
  fairness), and an idle CPU gets through an iteration of `scheduler()` (strong fairness, as
  the ticks take `ptable.lock` in between).
- `PriorityLock`. A woken process is scheduled and a critical section ends (weak fairness).
  Nothing makes a process acquire. `Served` is conditional, because the lock is ordered by pid:
  a process is served once those with higher pids leave the lock alone.

- `Log`. The disk's interrupts come and a process that is inside `log_write()` or `commit()` runs
  on (weak fairness). A call is a finite piece of code and comes to its `end_op()`: strong
  fairness, because its writes leave and enter the point from which it ends. Nobody has to make
  a call, so `SleepersWake` says that a sleeper is woken and not that it gets in: others may
  begin before it, as in the code.
- `BufferCache` and `Files` state no liveness: the first has `NoLostWakeup` instead, and calls of the
  second need not end (finding 6).

No run with a liveness property uses symmetry.

## 5. The proofs

All are checked for every value of the constants that satisfies the module's `ASSUME`, which
TLC evaluates in the runs.

`ProcTableProofs` assumes a nonempty table, CPU 0 among the CPUs, and the null values distinct
from slots and CPUs. None of the safety properties is inductive alone. `IInv` is the conjunction
of: `CpuInv` (scheduler threads, `c->proc` and RUNNING agree), `ThreadInv` (the state of a slot
determines where its thread can stand), `ForkInv` (`fork()` calls in progress and EMBRYO slots
correspond one to one), `LockInv` (each lock is held exactly at the points that hold it, and
the timer interrupt comes in only where interrupts are enabled), `PidInv`, `FamilyInv` (init
lives, and parents are alive), `WaitInv` and `SleepInv` (the two wakeup conditions). Each
conjunct has a lemma, with a step for each action. `WaitInv` is `NoLostExit` without its
condition on the lock, as no step leaves it broken. The theorems then follow: `LocksCorrect`,
`StacksCorrect`, `EmbryosCorrect`, `PidsCorrect`, `ParentsCorrect`, `SleepersCorrect`, and the
action property `TransitionsCorrect`, besides `TypeCorrect`.

`MlfqProofs` proves the types, and `RoundRobinCorrect`: the cursor, advancing to the nearest
runnable slot, comes closer to every other runnable slot. It rests on arithmetic of the wrapped
distance and needs no invariant beyond the types.

`PriorityLockProofs` assumes finitely many positive pids, no more than `NPROC`. The conjunction
of `TypeOK` (the array is strictly descending, then zero), `MutualExclusion`, `QueueIsWaiters`
and `NoLostHandoff` is inductive. The point of interest is the boundary of the array: when a
process enters the queue there are fewer waiters than processes, since the owner is not one of
them, and by the pigeonhole principle the last place is free. `EnqueueCorrect` and
`DequeueCorrect` say that the array operations add a pid and remove the highest; from them
`Refinement` shows that every step is a step of `PriorityMutex` or a stutter.

`LogProofs` assumes finitely many processes, calls below `MAXOPBLOCKS` and no `Copier`
(each theorem says so: `ASSUME Copier = {}`; with one they are false, by `log_copy`). Its invariant has
four parts. `PcInv` says which points of processes go with which phase. `CommitInv` says what the two
headers and the loop variable are in each phase. `SpaceInv` is the reservation: the blocks in the
header are at most those the calls of this group have written, and every call outstanding can
still write the rest of its `MAXOPBLOCKS`. The sum over the calls is written as the cardinality of
a set of tokens (`Tokens`), one for each block a call may still add, so that a step of a call
adds or removes tokens and no induction over the processes is needed. `DataInv` says what the
slots, the cache and home are to each other in each phase; it is what makes every write of
`commit()` invisible to `Recovered` except that of the header. The theorems are
`ReservationSuffices`, `PinsCorrect`, `SleepersCorrect`, `LogImplementsAtomicDisk` and
`TypeCorrect`.

`BufferCacheProofs` assumes `BufferCacheAssumption`. `RefsExact` is not inductive alone: that a
buffer with count 0 is not locked needs `PcInv` (where a process stands says what is known of
its buffer), `BufInv` (a lock is held by a process at that buffer; a clean and valid buffer
that nobody is changing is what the disk has) and `QueueInv` (the queue is exactly the buffers
some process waits for in `iderw()`, each once). `BgetCorrect` is about any number of buffers: in the
step that panics every buffer is referenced or dirty; the referenced ones are at most the uses of buffers there
are, since `refcnt` is exact, and the dirty ones have different blocks. It stays true after that, since
a count drops under `bcache.lock` only, and the disk clears `B_DIRTY` only of buffers in use. `CacheImplementsBlockStore`
needs the last part of `BufInv` for recycling and `QueueInv` for the interrupt.

`SharedMemProofs` assumes `SharedMemAssumption`. `TypeCorrect` holds for any order of calls, undisciplined
closes included: the counters and the free copies of a frame stay in `Nat`. A close finds only
a slot with the id, and `TypeOK` says that such a slot has a counter above zero. The other four theorems are about
`DisciplinedSpec`, as any order of calls refutes them (`sharedmem_calls`). The invariant is `NoPanic`, `ProcInv` (a
living process maps every page below `sz`, and above it at most the shared page it has open),
`TableInv` (an id has one slot, and a slot a frame of its own exactly while it is referenced),
`SharedFrame`, `RefsCountOpeners` and `FrameInv` (a frame is free once or mapped, and mapped twice
only by openers of one id). `Kalloc` takes frames by their rank in the free list, so that it yields
different frames is a counting argument (`KallocFacts`). `HeapStep` shows `FrameInv` for any change of one page table
that takes the frames it adds from the free list and returns those it drops; `fork`, `exec`,
`sbrk` and `wait` are instances. `FramesCorrect` then says that no frame leaks.

`FilesProofs` assumes `FilesAssumption` and proves `RefsExact`. The invariant adds `Shape` (the
types, without the bounds that `RefsExact` and the link counts give), `PcInv` (where a process stands in its call says
which references it holds) and `UseInv` (a slot in use has an inode number, a file in use an
inode). A count is the cardinality of a set of holders, so a step of one process changes it by what
that process takes and gives up (`CountStep`, `PutRefsStep`); each action has a lemma that
compares this with what `iget()`, `idup()` or `iput()` did to the slot. That `iget()` finds
a slot is the pigeonhole principle: slots in use have different inodes (`EmptySlot`).

`FilesLinkProofs` continues it with `LInv`, from which `InodesLive` and `TypeOK` follow. `InodesLive`
is not inductive: that an entry names an allocated inode rests on the link count, and that on calls
half done. `LInv` has five parts:

- `LinkInv` (`LinksCorrect`): a link count is at least the number of names, plus the subdirectories
  (their `..`), plus one for each call that owes a link (`sys_link()` counts before it enters,
  `sys_unlink()` takes the entry away before it counts), plus one for the root. It is not an
  equality: a call with a long path may create a name in a directory that was removed meanwhile;
  when `iput()` frees that directory its entries are gone, and what they named keeps its count.
- `HeldInv`: what an entry, a file or a call holds is allocated, and `sys_link()` holds no directory.
- `CacheInv`: a valid slot in use has the type and the count of the disk.
- `LockInv`: which inode locks a process has where it stands, and what it knows under them: in
  `sys_unlink()` the entry still names the inode, in `iput()` its reference is the last and there
  are no links.
- `FreshInv`: between `ialloc()` and the entry, the new inode is known to its creator alone.

A step of a process is summarised by what it may do to a slot (`NodeStep`), to an inode on the disk
(`InodeStep`) and to what the process holds (`HolderStep`); these keep the last four parts
(`LInvKeeps`), so that each action has only to show its summary and the sum behind `LinkInv`
(`LinkKeeps`), whose terms `NamesStep` and `SubdirsStep` count. Names are at most `DIRSIZ` bytes,
so `FilesAssumption` has finitely many. Two results of the invariant have no run of their own:
`LinksCorrect`, by which the root always has a link (why `PutRoot` may be one step), and
`FreesCorrect`: `iput()` reads the reference count under `icache.lock` and frees the inode after it
has given that lock up; no entry, call or file has the inode by then (`FreeUnused`, `Sole`).

Only model-checked: all liveness under fairness (`KilledExits`, `SleepEnds`, `OrphanReaped`,
`ControlReturns`, `NoStarvation`, `Served`, `SleepersWake`), which is beyond the proof system, as are
`ENABLED`, induction over data and recursive operators. Every safety property the passing runs check
has a theorem.

## 6. Not modelled, and the plan

Not modelled for good: boot and hardware set-up, device registers, video, the ELF format, the
trap frame, user programs (`usertests.c` and `procTest.c` among them), `mkfs`, the formatting
and string code of the kernel. The five labs are five copies of one kernel, and a definition
models the code of one of them; the copies, and the user programs, are most of the repository's lines, so the
share of lines the models stand for stays small whatever is modelled.

Left out inside the modelled components: reads and writes of files and their blocks
(`bmap`, `balloc`, `bfree`), `dup`, `chdir` and `mknod`; disk errors; system call arguments;
`sys_copy_file()` but for its transaction; ids of shared pages that are not above 0;
a crash with a file that is unlinked and open, whose inode stays allocated (nothing in the code
looks for it); the panic of `iget()` when more than `NINODE` inodes are in use, which
`FilesAssumption` excludes.

The rest of the plan, in order:

1. `Pipe`, with its two wait channels, close and kill, refining a bounded queue.
2. `SyscallCount` (lost increments on several CPUs), the console's ring and history, and pure
   operators for the digital root and the uncle count.

The order so far was the same: `ProcTable` first, since everything
sleeps through it; `Mlfq` and `PriorityLock`, which use it as given; `SharedMem`, which is
independent of it; then the file system from its middle: `Log`, what is below it (`BufferCache`) and above it (`Files`).
