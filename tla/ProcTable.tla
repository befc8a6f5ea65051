------------------------------ MODULE ProcTable ------------------------------
(***************************************************************************)
(* The process table of the Lab 3 kernel (proc.c, with the timer path of   *)
(* trap.c and sys_sleep of sysproc.c), at the grain of its two spin locks: *)
(* ptable.lock and tickslock.                                              *)
(*                                                                         *)
(* Every CPU runs either its scheduler thread or the kernel thread of the  *)
(* process it has switched to; the CPU, and not the process, owns a lock,  *)
(* and ptable.lock is taken on one side of swtch() and released on the     *)
(* other.  A step is the code between two points where another CPU or an   *)
(* interrupt can intervene: an acquire(), a release() or a swtch().        *)
(*                                                                         *)
(* Which RUNNABLE process the scheduler picks is left open here; the       *)
(* policy is module Mlfq.  File closing, memory copying and user code are  *)
(* outside this module.                                                    *)
(***************************************************************************)
EXTENDS Naturals

CONSTANTS
  NPROC,     \* number of slots of ptable.proc
  CPU,       \* the CPUs
  BootCPU,   \* the CPU with cpuid() = 0, the one that counts ticks
  MaxPid,    \* bound on nextpid
  MaxSleep,  \* largest argument of the sleep system call
  KillPid,   \* the pids user programs pass to kill()
  None,      \* a null pointer, or a free lock
  Ticks      \* the channel &ticks

Slot == 0 .. NPROC - 1

ASSUME ProcTableAssumption ==
  /\ NPROC \in Nat \ {0}
  /\ BootCPU \in CPU
  /\ MaxPid \in Nat \ {0}
  /\ MaxSleep \in Nat
  /\ KillPid \subseteq Nat \ {1}
  /\ None \notin Slot /\ None \notin CPU
  /\ Ticks \notin Slot /\ Ticks # None

Init1 == 0   \* the slot of initproc, the first one allocproc() finds

VARIABLES
  state, pid, parent, chan, killed,   \* the fields of struct proc, per slot
  nextpid,     \* the pid of the next process
  kpc,         \* where the kernel thread of a slot stands
  preempted,   \* the thread of a slot is inside the sched() of yield()
  child,       \* np, the local variable of fork()
  left,        \* n - (ticks - ticks0) of sys_sleep(), or 0
  proc,        \* c->proc of each CPU
  spc,         \* where the scheduler thread of each CPU stands
  ptlock,      \* the CPU that holds ptable.lock, or None
  tickslock,   \* the CPU that holds tickslock, or None
  tick         \* the progress of the timer interrupt on BootCPU

slotVars == <<state, pid, parent, chan, killed, nextpid>>
threadVars == <<kpc, preempted, child, left>>
cpuVars == <<proc, spc, tick>>
lockVars == <<ptlock, tickslock>>
vars == <<slotVars, threadVars, cpuVars, lockVars>>

ProcState == {"UNUSED", "EMBRYO", "SLEEPING", "RUNNABLE", "RUNNING", "ZOMBIE"}

KernelPoint ==
  { "none",      \* no kernel stack
    "forkret",   \* to release ptable.lock at its first scheduling
    "user",      \* in user space, or entering or leaving the kernel
    "fork",      \* in fork(), with np allocated
    "forktick",  \* in fork(), holding ptable.lock, to acquire tickslock
    "wait",      \* in wait(), asleep on itself or just woken
    "sleepchk",  \* in sys_sleep(), holding tickslock, at the while test
    "sleepgo",   \* in sleep(), holding tickslock, to acquire ptable.lock
    "sleeping",  \* in sleep(), asleep on &ticks or just woken
    "sleepacq",  \* in sleep(), to reacquire tickslock
    "zombie" }   \* in the sched() of exit()

\* i is what a loop over ptable.proc finds first in S.
First(i, S) == i \in S /\ \A j \in S : i <= j

TypeOK ==
  /\ state \in [Slot -> ProcState]
  /\ pid \in [Slot -> Nat]
  /\ parent \in [Slot -> Slot \cup {None}]
  /\ chan \in [Slot -> Slot \cup {None, Ticks}]
  /\ killed \in [Slot -> BOOLEAN]
  /\ nextpid \in Nat \ {0}
  /\ kpc \in [Slot -> KernelPoint]
  /\ preempted \in [Slot -> BOOLEAN]
  /\ child \in [Slot -> Slot \cup {None}]
  /\ left \in [Slot -> 0 .. MaxSleep]
  /\ proc \in [CPU -> Slot \cup {None}]
  /\ spc \in [CPU -> {"loop", "away", "back"}]
  /\ ptlock \in CPU \cup {None}
  /\ tickslock \in CPU \cup {None}
  /\ tick \in {"off", "wake", "resched"}

\* The state userinit() leaves when mpmain() lets the CPUs into scheduler().
Init ==
  /\ state = [i \in Slot |-> IF i = Init1 THEN "RUNNABLE" ELSE "UNUSED"]
  /\ pid = [i \in Slot |-> IF i = Init1 THEN 1 ELSE 0]
  /\ parent = [i \in Slot |-> None]
  /\ chan = [i \in Slot |-> None]
  /\ killed = [i \in Slot |-> FALSE]
  /\ nextpid = 2
  /\ kpc = [i \in Slot |-> IF i = Init1 THEN "forkret" ELSE "none"]
  /\ preempted = [i \in Slot |-> FALSE]
  /\ child = [i \in Slot |-> None]
  /\ left = [i \in Slot |-> 0]
  /\ proc = [c \in CPU |-> None]
  /\ spc = [c \in CPU |-> "loop"]
  /\ ptlock = None
  /\ tickslock = None
  /\ tick = "off"

-----------------------------------------------------------------------------
(* Who runs where, and when a timer interrupt can come in.                 *)

InTick(c) == c = BootCPU /\ tick # "off"

\* c executes the kernel (or user) thread of slot p.
Runs(c, p) == spc[c] = "away" /\ proc[c] = p

At(c, p, point) ==
  /\ Runs(c, p)
  /\ ~preempted[p]
  /\ kpc[p] = point
  /\ ~InTick(c)

\* Mutant of OpenPoint: user code runs with interrupts disabled.
MutOpenPoint == {"fork", "sleepacq"}

\* The points where a process runs with interrupts enabled (ncli = 0).
OpenPoint == {"user", "fork", "sleepacq"}

Interruptible(c) ==
  \/ spc[c] = "loop"
  \/ \E p \in Slot : Runs(c, p) /\ ~preempted[p] /\ kpc[p] \in OpenPoint

\* sched() from slot p: p has set its state and holds only ptable.lock,
\* and swtch() continues the scheduler thread of c.
SwitchToScheduler(c) ==
  /\ ptlock' = c
  /\ spc' = [spc EXCEPT ![c] = "back"]
  /\ proc' = proc

\* Mutant of Wakeup1: a sleeper on &ticks is passed over.
MutWakeup1(S) ==
  [i \in Slot |-> IF state[i] = "SLEEPING" /\ chan[i] \in S \ {Ticks}
                  THEN "RUNNABLE" ELSE state[i]]

\* The states after wakeup1() on the channels of S.
Wakeup1(S) ==
  [i \in Slot |-> IF state[i] = "SLEEPING" /\ chan[i] \in S
                  THEN "RUNNABLE" ELSE state[i]]

-----------------------------------------------------------------------------
(* The scheduler thread.                                                   *)

\* Mutant of Scheduler: the state of the chosen process is not set.
MutScheduler(c, p) ==
  /\ spc[c] = "loop" /\ ~InTick(c)
  /\ ptlock = None
  /\ state[p] = "RUNNABLE"
  /\ ptlock' = c
  /\ proc' = [proc EXCEPT ![c] = p]
  /\ spc' = [spc EXCEPT ![c] = "away"]
  /\ UNCHANGED <<slotVars, threadVars, tickslock, tick>>

\* One iteration of scheduler() up to swtch(): p is any RUNNABLE process.
Scheduler(c, p) ==
  /\ spc[c] = "loop" /\ ~InTick(c)
  /\ ptlock = None
  /\ state[p] = "RUNNABLE"
  /\ ptlock' = c
  /\ proc' = [proc EXCEPT ![c] = p]
  /\ spc' = [spc EXCEPT ![c] = "away"]
  /\ state' = [state EXCEPT ![p] = "RUNNING"]
  /\ UNCHANGED <<pid, parent, chan, killed, nextpid, threadVars, tickslock, tick>>

\* scheduler() after swtch() has returned to it.
SchedulerBack(c) ==
  /\ spc[c] = "back"
  /\ proc' = [proc EXCEPT ![c] = None]
  /\ spc' = [spc EXCEPT ![c] = "loop"]
  /\ ptlock' = None
  /\ UNCHANGED <<slotVars, threadVars, tickslock, tick>>

\* forkret(), the first code of a new process.
Forkret(c, p) ==
  /\ At(c, p, "forkret")
  /\ ptlock' = None
  /\ kpc' = [kpc EXCEPT ![p] = "user"]
  /\ UNCHANGED <<slotVars, preempted, child, left, cpuVars, tickslock>>

-----------------------------------------------------------------------------
(* The timer interrupt and yield().                                        *)

\* Mutant of LeftAfterTick: the difference wraps instead of stopping.
MutLeftAfterTick == [i \in Slot |-> left[i] - 1]

\* ticks++ brings every sleep(n) in progress closer to its end.
LeftAfterTick == [i \in Slot |-> IF left[i] > 0 THEN left[i] - 1 ELSE 0]

\* BootCPU: acquire(&tickslock); ticks++.
TimerTick(c) ==
  /\ c = BootCPU /\ tick = "off" /\ Interruptible(c)
  /\ tickslock = None
  /\ tickslock' = c
  /\ tick' = "wake"
  /\ left' = LeftAfterTick
  /\ UNCHANGED <<slotVars, kpc, preempted, child, proc, spc, ptlock>>

\* BootCPU: wakeup(&ticks); release(&tickslock).  The aging that follows
\* changes scheduling queues only (module Mlfq).
TimerWakeup(c) ==
  /\ c = BootCPU /\ tick = "wake"
  /\ ptlock = None
  /\ state' = Wakeup1({Ticks})
  /\ tickslock' = None
  /\ tick' = IF spc[c] = "away" THEN "resched" ELSE "off"
  /\ UNCHANGED <<pid, parent, chan, killed, nextpid, threadVars, proc, spc, ptlock>>

\* The end of trap() for a timer interrupt on c: yield(), unless the process
\* was killed in user space and has to exit.
Yield(c, p) ==
  /\ Runs(c, p) /\ ~preempted[p] /\ kpc[p] \in OpenPoint
  /\ c = BootCPU => tick = "resched"
  /\ ~(killed[p] /\ kpc[p] = "user")
  /\ ptlock = None
  /\ state' = [state EXCEPT ![p] = "RUNNABLE"]
  /\ preempted' = [preempted EXCEPT ![p] = TRUE]
  /\ SwitchToScheduler(c)
  /\ tick' = IF c = BootCPU THEN "off" ELSE tick
  /\ UNCHANGED <<pid, parent, chan, killed, nextpid, kpc, child, left, tickslock>>

\* yield() after sched() has returned: release(&ptable.lock).
YieldReturn(c, p) ==
  /\ Runs(c, p) /\ preempted[p]
  /\ preempted' = [preempted EXCEPT ![p] = FALSE]
  /\ ptlock' = None
  /\ UNCHANGED <<slotVars, kpc, child, left, cpuVars, tickslock>>

\* A fault in user space: trap() sets killed.  init does not fault.
Fault(c, p) ==
  /\ At(c, p, "user") /\ p # Init1
  /\ killed' = [killed EXCEPT ![p] = TRUE]
  /\ UNCHANGED <<state, pid, parent, chan, nextpid, threadVars, cpuVars, lockVars>>

-----------------------------------------------------------------------------
(* fork()                                                                  *)

\* Mutant of FreeSlots: a slot another fork() is filling in counts as free.
MutFreeSlots == {i \in Slot : state[i] \in {"UNUSED", "EMBRYO"}}

\* What allocproc() may take.
FreeSlots == {i \in Slot : state[i] = "UNUSED"}

\* Mutant of PidAfter: nextpid is not advanced.
MutPidAfter(n) == n

\* nextpid++
PidAfter(n) == n + 1

\* allocproc(): the first UNUSED slot becomes an EMBRYO.
ForkAlloc(c, p) ==
  /\ At(c, p, "user") /\ ~killed[p]
  /\ ptlock = None
  /\ nextpid <= MaxPid
  /\ \E np \in Slot :
       /\ First(np, FreeSlots)
       /\ state' = [state EXCEPT ![np] = "EMBRYO"]
       /\ pid' = [pid EXCEPT ![np] = nextpid]
       /\ kpc' = [kpc EXCEPT ![np] = "forkret", ![p] = "fork"]
       /\ child' = [child EXCEPT ![p] = np]
  /\ nextpid' = PidAfter(nextpid)
  /\ UNCHANGED <<parent, chan, killed, preempted, left, cpuVars, lockVars>>

\* kalloc() or copyuvm() fails: the slot is given back, without the lock.
ForkFail(c, p) ==
  /\ At(c, p, "fork")
  /\ state' = [state EXCEPT ![child[p]] = "UNUSED"]
  /\ kpc' = [kpc EXCEPT ![child[p]] = "none", ![p] = "user"]
  /\ child' = [child EXCEPT ![p] = None]
  /\ UNCHANGED <<pid, parent, chan, killed, nextpid, preempted, left, cpuVars, lockVars>>

\* acquire(&ptable.lock); np->state = RUNNABLE.
ForkRunnable(c, p) ==
  /\ At(c, p, "fork")
  /\ ptlock = None
  /\ ptlock' = c
  /\ parent' = [parent EXCEPT ![child[p]] = p]
  /\ state' = [state EXCEPT ![child[p]] = "RUNNABLE"]
  /\ kpc' = [kpc EXCEPT ![p] = "forktick"]
  /\ UNCHANGED <<pid, chan, killed, nextpid, preempted, child, left, cpuVars, tickslock>>

\* Mutant of ForkReadTicks: ptable.lock is not released.
MutForkReadTicks(c, p) ==
  /\ At(c, p, "forktick")
  /\ tickslock = None
  /\ kpc' = [kpc EXCEPT ![p] = "user"]
  /\ child' = [child EXCEPT ![p] = None]
  /\ UNCHANGED <<slotVars, preempted, left, cpuVars, lockVars>>

\* tickslock is taken and released inside the critical section of
\* ptable.lock, to read the start time; then ptable.lock is released.
ForkReadTicks(c, p) ==
  /\ At(c, p, "forktick")
  /\ tickslock = None
  /\ ptlock' = None
  /\ kpc' = [kpc EXCEPT ![p] = "user"]
  /\ child' = [child EXCEPT ![p] = None]
  /\ UNCHANGED <<slotVars, preempted, left, cpuVars, tickslock>>

-----------------------------------------------------------------------------
(* exit(), wait() and kill()                                               *)

Kids(p) == {i \in Slot : parent[i] = p}
ZombieKids(p) == {i \in Kids(p) : state[i] = "ZOMBIE"}

\* Mutant of WokenByExit: the parent is not woken.
MutWokenByExit(p) == IF ZombieKids(p) = {} THEN {} ELSE {Init1}

\* exit() wakes the parent, and init if it inherits a zombie.
WokenByExit(p) == {parent[p]} \cup IF ZombieKids(p) = {} THEN {} ELSE {Init1}

\* Mutant of Reparented: only zombies are passed on.
MutReparented(p) ==
  [i \in Slot |-> IF i \in ZombieKids(p) THEN Init1 ELSE parent[i]]

\* exit() passes abandoned children to init.
Reparented(p) == [i \in Slot |-> IF i \in Kids(p) THEN Init1 ELSE parent[i]]

\* exit() of p, a system call or the end of trap() for a killed process.
Exit(c, p) ==
  /\ Runs(c, p) /\ ~preempted[p] /\ kpc[p] = "user"
  /\ p # Init1
  /\ c = BootCPU => tick = "off" \/ (tick = "resched" /\ killed[p])
  /\ ptlock = None
  /\ state' = [Wakeup1(WokenByExit(p)) EXCEPT ![p] = "ZOMBIE"]
  /\ parent' = Reparented(p)
  /\ kpc' = [kpc EXCEPT ![p] = "zombie"]
  /\ SwitchToScheduler(c)
  /\ tick' = IF c = BootCPU THEN "off" ELSE tick
  /\ UNCHANGED <<pid, chan, killed, nextpid, preempted, child, left, tickslock>>

\* The scan of wait() runs with ptable.lock held: acquired on entry, or held
\* by the scheduler of c when it resumed p.
AtWaitScan(c, p) ==
  \/ At(c, p, "user") /\ ~killed[p] /\ ptlock = None
  \/ At(c, p, "wait")

\* A child has exited: the first one found gives up its slot.
WaitReap(c, p) ==
  /\ AtWaitScan(c, p)
  /\ \E z \in Slot :
       /\ First(z, ZombieKids(p))
       /\ state' = [state EXCEPT ![z] = "UNUSED"]
       /\ pid' = [pid EXCEPT ![z] = 0]
       /\ parent' = [parent EXCEPT ![z] = None]
       /\ killed' = [killed EXCEPT ![z] = FALSE]
       /\ kpc' = [kpc EXCEPT ![z] = "none", ![p] = "user"]
  /\ chan' = [chan EXCEPT ![p] = None]
  /\ ptlock' = None
  /\ UNCHANGED <<nextpid, preempted, child, left, cpuVars, tickslock>>

\* No children, or killed while asleep: wait() returns -1.
WaitNothing(c, p) ==
  /\ AtWaitScan(c, p)
  /\ ZombieKids(p) = {}
  /\ Kids(p) = {} \/ killed[p]
  /\ chan' = [chan EXCEPT ![p] = None]
  /\ kpc' = [kpc EXCEPT ![p] = "user"]
  /\ ptlock' = None
  /\ UNCHANGED <<state, pid, parent, killed, nextpid, preempted, child, left, cpuVars, tickslock>>

\* sleep(curproc, &ptable.lock)
WaitSleep(c, p) ==
  /\ AtWaitScan(c, p)
  /\ ZombieKids(p) = {} /\ Kids(p) # {} /\ ~killed[p]
  /\ chan' = [chan EXCEPT ![p] = p]
  /\ state' = [state EXCEPT ![p] = "SLEEPING"]
  /\ kpc' = [kpc EXCEPT ![p] = "wait"]
  /\ SwitchToScheduler(c)
  /\ UNCHANGED <<pid, parent, killed, nextpid, preempted, child, left, tickslock, tick>>

\* Mutant of StateAfterKill: the target is not woken.
MutStateAfterKill(t) == state

\* Another one: any target becomes RUNNABLE.
MutStateAfterKill2(t) == [state EXCEPT ![t] = "RUNNABLE"]

\* kill() wakes its target from sleep if necessary.
StateAfterKill(t) ==
  IF state[t] = "SLEEPING" THEN [state EXCEPT ![t] = "RUNNABLE"] ELSE state

\* kill(k): the first slot with that pid, used or not.
Kill(c, p, k) ==
  /\ At(c, p, "user") /\ ~killed[p]
  /\ ptlock = None
  /\ \E t \in Slot :
       /\ First(t, {i \in Slot : pid[i] = k})
       /\ killed' = [killed EXCEPT ![t] = TRUE]
       /\ state' = StateAfterKill(t)
  /\ UNCHANGED <<pid, parent, chan, nextpid, threadVars, cpuVars, lockVars>>

-----------------------------------------------------------------------------
(* sys_sleep() and the sleep(&ticks, &tickslock) in it                     *)

\* acquire(&tickslock); ticks0 = ticks.
SleepEnter(c, p, n) ==
  /\ At(c, p, "user") /\ ~killed[p]
  /\ tickslock = None
  /\ tickslock' = c
  /\ left' = [left EXCEPT ![p] = n]
  /\ kpc' = [kpc EXCEPT ![p] = "sleepchk"]
  /\ UNCHANGED <<slotVars, preempted, child, cpuVars, ptlock>>

\* The time is over, or the process was killed.
SleepReturn(c, p) ==
  /\ At(c, p, "sleepchk")
  /\ left[p] = 0 \/ killed[p]
  /\ tickslock' = None
  /\ left' = [left EXCEPT ![p] = 0]
  /\ kpc' = [kpc EXCEPT ![p] = "user"]
  /\ UNCHANGED <<slotVars, preempted, child, cpuVars, ptlock>>

\* Mutant of SleepTest: sleep() releases tickslock before it takes ptable.lock.
MutSleepTest(c, p) ==
  /\ At(c, p, "sleepchk")
  /\ left[p] > 0 /\ ~killed[p]
  /\ tickslock' = None
  /\ kpc' = [kpc EXCEPT ![p] = "sleepgo"]
  /\ UNCHANGED <<slotVars, preempted, child, left, cpuVars, ptlock>>

\* The time is not over: sleep(&ticks, &tickslock) is called.
SleepTest(c, p) ==
  /\ At(c, p, "sleepchk")
  /\ left[p] > 0 /\ ~killed[p]
  /\ kpc' = [kpc EXCEPT ![p] = "sleepgo"]
  /\ UNCHANGED <<slotVars, preempted, child, left, cpuVars, lockVars>>

\* sleep(): ptable.lock first, only then is tickslock released.
SleepBlock(c, p) ==
  /\ At(c, p, "sleepgo")
  /\ ptlock = None
  /\ tickslock' = None
  /\ chan' = [chan EXCEPT ![p] = Ticks]
  /\ state' = [state EXCEPT ![p] = "SLEEPING"]
  /\ kpc' = [kpc EXCEPT ![p] = "sleeping"]
  /\ SwitchToScheduler(c)
  /\ UNCHANGED <<pid, parent, killed, nextpid, preempted, child, left, tick>>

\* sleep() after sched(): tidy up, release ptable.lock.
SleepWoken(c, p) ==
  /\ At(c, p, "sleeping")
  /\ chan' = [chan EXCEPT ![p] = None]
  /\ ptlock' = None
  /\ kpc' = [kpc EXCEPT ![p] = "sleepacq"]
  /\ UNCHANGED <<state, pid, parent, killed, nextpid, preempted, child, left, cpuVars, tickslock>>

\* sleep() ends with acquire(lk), and the while test of sys_sleep() is next.
SleepReacquire(c, p) ==
  /\ At(c, p, "sleepacq")
  /\ tickslock = None
  /\ tickslock' = c
  /\ kpc' = [kpc EXCEPT ![p] = "sleepchk"]
  /\ UNCHANGED <<slotVars, preempted, child, left, cpuVars, ptlock>>

-----------------------------------------------------------------------------

SystemCall(c, p) ==
  \/ ForkAlloc(c, p)
  \/ Exit(c, p)
  \/ WaitReap(c, p) \/ WaitNothing(c, p) \/ WaitSleep(c, p)
  \/ \E k \in KillPid : Kill(c, p, k)
  \/ \E n \in 0 .. MaxSleep : SleepEnter(c, p, n)

\* Steps of a process inside the kernel, which it cannot decline.
KernelStep(c, p) ==
  \/ Forkret(c, p) \/ YieldReturn(c, p)
  \/ ForkRunnable(c, p) \/ ForkReadTicks(c, p)
  \/ SleepReturn(c, p) \/ SleepTest(c, p) \/ SleepBlock(c, p)
  \/ SleepWoken(c, p) \/ SleepReacquire(c, p)

Next ==
  \E c \in CPU :
    \/ SchedulerBack(c) \/ TimerTick(c) \/ TimerWakeup(c)
    \/ \E p \in Slot :
         \/ Scheduler(c, p) \/ Yield(c, p) \/ Fault(c, p)
         \/ SystemCall(c, p) \/ KernelStep(c, p) \/ ForkFail(c, p)

Spec == Init /\ [][Next]_vars

(***************************************************************************)
(* Fairness.  A CPU keeps executing (a lock it spins on is not denied to   *)
(* it forever), interrupts arrive, and scheduler() passes over no RUNNABLE *)
(* process forever (NoStarvation of Mlfq).  A thread inside the kernel     *)
(* goes on, and a killed process reaches exit() through trap().  Nothing   *)
(* is assumed of user programs, except that initproc keeps calling wait(). *)
(***************************************************************************)
ThreadGoesOn(c, p) ==
  \/ Forkret(c, p) \/ ForkRunnable(c, p) \/ ForkReadTicks(c, p)
  \/ SleepReturn(c, p) \/ SleepTest(c, p) \/ SleepBlock(c, p)
  \/ SleepWoken(c, p) \/ SleepReacquire(c, p)
  \/ kpc[p] = "wait" /\ (WaitReap(c, p) \/ WaitNothing(c, p) \/ WaitSleep(c, p))
  \/ killed[p] /\ Exit(c, p)

Fairness ==
  /\ \A c \in CPU :
       /\ WF_vars(SchedulerBack(c))
       /\ WF_vars(\E p \in Slot : YieldReturn(c, p))
       /\ SF_vars(TimerTick(c) \/ TimerWakeup(c))
       /\ SF_vars(\E p \in Slot : Yield(c, p))
  /\ \A p \in Slot :
       /\ SF_vars(\E c \in CPU : Scheduler(c, p))
       /\ SF_vars(\E c \in CPU : ThreadGoesOn(c, p))
  /\ SF_vars(\E c \in CPU : WaitReap(c, Init1) \/ WaitSleep(c, Init1))

FairSpec == Spec /\ Fairness

-----------------------------------------------------------------------------
(* Safety.                                                                 *)

\* c stands where ptable.lock is held: just switched to the scheduler, just
\* switched to a process (whichever process that was), or in fork() about to
\* read the clock.  Points that touch the lock inside one step are not here.
LockPoint(c) ==
  \/ spc[c] = "back"
  \/ \E p \in Slot :
       /\ Runs(c, p)
       /\ preempted[p] \/ kpc[p] \in {"forkret", "forktick", "wait", "sleeping"}

\* The CPU that holds ptable.lock is exactly the one whose next step gives it
\* up: the lock taken on one side of swtch() is released on the other, by a
\* different thread, and it is never released twice or left behind.
LockHandoff == \A c \in CPU : ptlock = c <=> LockPoint(c)

\* The two assertions at the head of sched() that concern locks: the caller
\* holds ptable.lock and, on this CPU, no other lock (ncli = 1).
SchedLocks == \A c \in CPU : spc[c] = "back" => ptlock = c /\ tickslock # c

\* A kernel stack is never in use on two CPUs, the scheduler included: two
\* CPUs never have the same c->proc, and a process is RUNNING exactly while
\* its thread executes on some CPU.
OneCpuPerStack ==
  /\ \A c, d \in CPU : proc[c] = proc[d] /\ proc[c] # None => c = d
  /\ \A p \in Slot : state[p] = "RUNNING" <=> \E c \in CPU : Runs(c, p)

\* wait() and exit(): with ptable.lock free, no process sleeps in wait() while
\* it has a zombie child to collect, an orphan inherited by init included,
\* nor after it was killed.
NoLostExit ==
  ptlock = None =>
    \A p \in Slot : state[p] = "SLEEPING" /\ chan[p] = p =>
      ZombieKids(p) = {} /\ Kids(p) # {} /\ ~killed[p]

\* sys_sleep() and the timer: outside the window between ticks++ and
\* wakeup(&ticks), no process sleeps on &ticks past its time.
NoLostTick ==
  tick # "wake" =>
    \A p \in Slot : state[p] = "SLEEPING" /\ chan[p] = Ticks => left[p] > 0

\* Nobody sleeps on what has already happened, in wait() or in sys_sleep().
NoLostWakeup == NoLostExit /\ NoLostTick

\* exit() never leaves an orphan: with ptable.lock free, the parent of a
\* process that has been forked is a process that can still wait() for it.
ParentAlive ==
  ptlock = None =>
    \A p \in Slot \ {Init1} : state[p] \notin {"UNUSED", "EMBRYO"} =>
      /\ parent[p] # None
      /\ state[parent[p]] \in {"SLEEPING", "RUNNABLE", "RUNNING"}

\* An EMBRYO belongs to exactly one fork() in progress, which is what lets
\* fork() fill it in, and give it back, without ptable.lock.
EmbryoOwned ==
  \A i \in Slot : state[i] = "EMBRYO" =>
    \E p \in Slot :
      /\ kpc[p] = "fork" /\ child[p] = i
      /\ \A q \in Slot : kpc[q] = "fork" /\ child[q] = i => q = p

\* allocproc() hands out a fresh pid: no two processes alive have the same.
\* (A slot that fork() gave back keeps its pid, without a process.)
PidUnique ==
  \A i, j \in Slot :
    /\ state[i] # "UNUSED" /\ pid[i] = pid[j]
    => i = j

\* The edges of the life of a slot.
LegalEdge ==
  \A i \in Slot : state'[i] # state[i] =>
    <<state[i], state'[i]>> \in
      { <<"UNUSED", "EMBRYO">>, <<"EMBRYO", "UNUSED">>, <<"EMBRYO", "RUNNABLE">>,
        <<"RUNNABLE", "RUNNING">>, <<"RUNNING", "RUNNABLE">>,
        <<"RUNNING", "SLEEPING">>, <<"SLEEPING", "RUNNABLE">>,
        <<"RUNNING", "ZOMBIE">>, <<"ZOMBIE", "UNUSED">> }

\* A slot is recycled only by the parent's wait() or by the fork() that
\* allocated it: a process that ran becomes a ZOMBIE first, and a ZOMBIE does
\* not run again.
LegalTransition == [][LegalEdge]_vars

-----------------------------------------------------------------------------
(* Liveness, under Fairness.                                               *)

\* kill(): "Process won't exit until it returns to user space", but it does,
\* wherever it was: asleep, preempted, in fork(), or not yet born.
KilledExits ==
  \A p \in Slot : killed[p] ~> state[p] \in {"ZOMBIE", "UNUSED"}

\* A sleep of n ticks comes to an end.
SleepEnds == \A p \in Slot : kpc[p] = "sleeping" ~> kpc[p] = "user"

\* An orphan that has exited is collected by init, once the system stops
\* forking (MaxPid): wait() takes the lowest zombie slot first.
OrphanReaped ==
  \A p \in Slot : state[p] = "ZOMBIE" /\ parent[p] = Init1 ~> state[p] = "UNUSED"

\* The comment of scheduler(): "eventually that process transfers control via
\* swtch back to the scheduler".
ControlReturns == \A c \in CPU : spc[c] = "away" ~> spc[c] = "back"
=============================================================================
