--------------------------- MODULE ProcTableProofs ---------------------------
(***************************************************************************)
(* Proofs about ProcTable for every number of slots and CPUs.              *)
(***************************************************************************)
EXTENDS ProcTable, TLAPS

\* The slot of initproc is a slot of the table.
LEMMA Init1Type == Init1 \in Slot
BY ProcTableAssumption DEF Init1, Slot

\* Every variable keeps its type.
THEOREM TypeCorrect == Spec => []TypeOK
<1>. USE ProcTableAssumption, Init1Type DEF TypeOK, ProcState, KernelPoint
<1>1. Init => TypeOK
  BY DEF Init, Slot
<1>2. TypeOK /\ [Next]_vars => TypeOK'
  <2>. SUFFICES ASSUME TypeOK, [Next]_vars PROVE TypeOK'
    OBVIOUS
  <2>. USE DEF SwitchToScheduler, slotVars, threadVars, cpuVars, lockVars, At, Runs
  <2>1. CASE UNCHANGED vars
    BY <2>1 DEF vars
  <2>2. ASSUME NEW c \in CPU, SchedulerBack(c) PROVE TypeOK'
    BY <2>2 DEF SchedulerBack
  <2>3. ASSUME NEW c \in CPU, TimerTick(c) PROVE TypeOK'
    BY <2>3 DEF TimerTick, LeftAfterTick
  <2>4. ASSUME NEW c \in CPU, TimerWakeup(c) PROVE TypeOK'
    BY <2>4 DEF TimerWakeup, Wakeup1
  <2>5. ASSUME NEW c \in CPU, NEW p \in Slot, Scheduler(c, p) PROVE TypeOK'
    BY <2>5 DEF Scheduler
  <2>6. ASSUME NEW c \in CPU, NEW p \in Slot, Yield(c, p) PROVE TypeOK'
    BY <2>6 DEF Yield
  <2>7. ASSUME NEW c \in CPU, NEW p \in Slot, Fault(c, p) PROVE TypeOK'
    BY <2>7 DEF Fault
  <2>8. ASSUME NEW c \in CPU, NEW p \in Slot, ForkAlloc(c, p) PROVE TypeOK'
    <3>1. PICK np \in Slot :
            /\ state' = [state EXCEPT ![np] = "EMBRYO"]
            /\ pid' = [pid EXCEPT ![np] = nextpid]
            /\ kpc' = [kpc EXCEPT ![np] = "forkret", ![p] = "fork"]
            /\ child' = [child EXCEPT ![p] = np]
      BY <2>8 DEF ForkAlloc
    <3>. QED
      BY <2>8, <3>1 DEF ForkAlloc, PidAfter
  <2>9. ASSUME NEW c \in CPU, NEW p \in Slot, Exit(c, p) PROVE TypeOK'
    <3>1. state' \in [Slot -> ProcState]
      BY <2>9 DEF Exit, Wakeup1
    <3>2. parent' \in [Slot -> Slot \cup {None}]
      BY <2>9 DEF Exit, Reparented
    <3>. QED
      BY <2>9, <3>1, <3>2 DEF Exit
  <2>10. ASSUME NEW c \in CPU, NEW p \in Slot, WaitReap(c, p) PROVE TypeOK'
    <3>1. PICK z \in Slot :
            /\ state' = [state EXCEPT ![z] = "UNUSED"]
            /\ pid' = [pid EXCEPT ![z] = 0]
            /\ parent' = [parent EXCEPT ![z] = None]
            /\ killed' = [killed EXCEPT ![z] = FALSE]
            /\ kpc' = [kpc EXCEPT ![z] = "none", ![p] = "user"]
      BY <2>10 DEF WaitReap
    <3>. QED
      BY <2>10, <3>1 DEF WaitReap
  <2>11. ASSUME NEW c \in CPU, NEW p \in Slot, WaitNothing(c, p) PROVE TypeOK'
    BY <2>11 DEF WaitNothing
  <2>12. ASSUME NEW c \in CPU, NEW p \in Slot, WaitSleep(c, p) PROVE TypeOK'
    BY <2>12 DEF WaitSleep
  <2>13. ASSUME NEW c \in CPU, NEW p \in Slot, NEW k \in KillPid, Kill(c, p, k)
         PROVE TypeOK'
    BY <2>13 DEF Kill, First, StateAfterKill
  <2>14. ASSUME NEW c \in CPU, NEW p \in Slot, NEW n \in 0 .. MaxSleep,
                SleepEnter(c, p, n)
         PROVE TypeOK'
    BY <2>14 DEF SleepEnter
  <2>15. ASSUME NEW c \in CPU, NEW p \in Slot, KernelStep(c, p) PROVE TypeOK'
    <3>1. CASE Forkret(c, p)
      BY <3>1 DEF Forkret
    <3>2. CASE YieldReturn(c, p)
      BY <3>2 DEF YieldReturn
    <3>3. CASE ForkRunnable(c, p)
      BY <3>3 DEF ForkRunnable
    <3>4. CASE ForkReadTicks(c, p)
      BY <3>4 DEF ForkReadTicks
    <3>5. CASE SleepReturn(c, p)
      <4>1. left' \in [Slot -> 0 .. MaxSleep]
        BY <3>5 DEF SleepReturn
      <4>. QED
        BY <3>5, <4>1 DEF SleepReturn
    <3>6. CASE SleepTest(c, p)
      BY <3>6 DEF SleepTest
    <3>7. CASE SleepBlock(c, p)
      BY <3>7 DEF SleepBlock
    <3>8. CASE SleepWoken(c, p)
      BY <3>8 DEF SleepWoken
    <3>9. CASE SleepReacquire(c, p)
      BY <3>9 DEF SleepReacquire
    <3>. QED
      BY <2>15, <3>1, <3>2, <3>3, <3>4, <3>5, <3>6, <3>7, <3>8, <3>9 DEF KernelStep
  <2>16. ASSUME NEW c \in CPU, NEW p \in Slot, ForkFail(c, p) PROVE TypeOK'
    BY <2>16 DEF ForkFail
  <2>. QED
    BY <2>1, <2>2, <2>3, <2>4, <2>5, <2>6, <2>7, <2>8, <2>9, <2>10, <2>11,
       <2>12, <2>13, <2>14, <2>15, <2>16 DEF Next, SystemCall
<1>. QED
  BY <1>1, <1>2, PTL DEF Spec

-----------------------------------------------------------------------------
(* The inductive invariant of the hand-over of CPUs, stacks and locks.      *)

CpuInv ==
  /\ \A c \in CPU : spc[c] = "loop" <=> proc[c] = None
  /\ \A c, d \in CPU : proc[c] = proc[d] /\ proc[c] # None => c = d
  /\ \A c \in CPU : spc[c] = "away" => state[proc[c]] = "RUNNING"
  /\ \A c \in CPU : spc[c] = "back" => state[proc[c]] # "RUNNING"
  /\ \A p \in Slot : state[p] = "RUNNING" => \E c \in CPU : Runs(c, p)

\* What the state of a slot says of its kernel thread.
ThreadInv ==
  /\ \A p \in Slot : preempted[p] =>
       kpc[p] \in OpenPoint /\ state[p] \in {"RUNNABLE", "RUNNING"}
  /\ \A p \in Slot : state[p] = "RUNNABLE" =>
       preempted[p] \/ kpc[p] \in {"forkret", "wait", "sleeping"}
  /\ \A p \in Slot : state[p] = "SLEEPING" => kpc[p] \in {"wait", "sleeping"}
  /\ \A p \in Slot : state[p] = "UNUSED" => kpc[p] = "none"
  /\ \A p \in Slot : state[p] = "EMBRYO" => kpc[p] = "forkret"
  /\ \A p \in Slot : state[p] = "ZOMBIE" => kpc[p] = "zombie"
  /\ \A p \in Slot : kpc[p] \in {"sleepchk", "sleepgo"} => state[p] = "RUNNING"

\* fork() and the EMBRYO it fills in belong together, one to one.
ForkInv ==
  /\ \A p \in Slot : kpc[p] = "fork" => child[p] \in Slot /\ state[child[p]] = "EMBRYO"
  /\ \A p, q \in Slot :
       kpc[p] = "fork" /\ kpc[q] = "fork" /\ child[p] = child[q] => p = q
  /\ \A i \in Slot : state[i] = "EMBRYO" => \E p \in Slot : kpc[p] = "fork" /\ child[p] = i

\* What ForkAlloc and WaitReap do to the slots, with the choice named.
ForkAllocAt(p, np) ==
  /\ np # p /\ state[np] = "UNUSED"
  /\ state[p] = "RUNNING" /\ kpc[p] = "user" /\ ~preempted[p]
  /\ state' = [state EXCEPT ![np] = "EMBRYO"]
  /\ kpc' = [i \in Slot |-> IF i = p THEN "fork" ELSE IF i = np THEN "forkret" ELSE kpc[i]]
  /\ child' = [child EXCEPT ![p] = np]
  /\ pid' = [pid EXCEPT ![np] = nextpid]
  /\ nextpid' = nextpid + 1
  /\ UNCHANGED <<preempted, proc, spc, parent, chan, killed, left, tick, lockVars>>

WaitReapAt(p, z) ==
  /\ z # p /\ state[z] = "ZOMBIE" /\ parent[z] = p
  /\ state[p] = "RUNNING" /\ kpc[p] \in {"user", "wait"} /\ ~preempted[p]
  /\ state' = [state EXCEPT ![z] = "UNUSED"]
  /\ pid' = [pid EXCEPT ![z] = 0]
  /\ parent' = [parent EXCEPT ![z] = None]
  /\ killed' = [killed EXCEPT ![z] = FALSE]
  /\ chan' = [chan EXCEPT ![p] = None]
  /\ kpc' = [i \in Slot |-> IF i = p THEN "user" ELSE IF i = z THEN "none" ELSE kpc[i]]
  /\ ptlock' = None
  /\ UNCHANGED <<nextpid, preempted, child, proc, spc, left, tick, tickslock>>

ForkFailAt(p, e) ==
  /\ e # p /\ state[e] = "EMBRYO" /\ child[p] = e
  /\ state[p] = "RUNNING" /\ kpc[p] = "fork" /\ ~preempted[p]
  /\ state' = [state EXCEPT ![e] = "UNUSED"]
  /\ kpc' = [i \in Slot |-> IF i = p THEN "user" ELSE IF i = e THEN "none" ELSE kpc[i]]
  /\ child' = [child EXCEPT ![p] = None]
  /\ UNCHANGED <<pid, nextpid, preempted, proc, spc, parent, chan, killed, left, tick, lockVars>>

\* allocproc(), with the slot it takes given a name.
LEMMA ForkAllocNamed ==
  ASSUME TypeOK, CpuInv, NEW c \in CPU, NEW p \in Slot, ForkAlloc(c, p)
  PROVE  \E np \in Slot : ForkAllocAt(p, np)
<1>1. PICK np \in Slot :
        /\ state[np] = "UNUSED"
        /\ state' = [state EXCEPT ![np] = "EMBRYO"]
        /\ kpc' = [kpc EXCEPT ![np] = "forkret", ![p] = "fork"]
        /\ child' = [child EXCEPT ![p] = np]
        /\ pid' = [pid EXCEPT ![np] = nextpid]
  BY DEF ForkAlloc, First, FreeSlots
<1>2. state[p] = "RUNNING" /\ kpc[p] = "user" /\ ~preempted[p]
  BY DEF ForkAlloc, At, Runs, CpuInv
<1>3. kpc' = [i \in Slot |-> IF i = p THEN "fork" ELSE IF i = np THEN "forkret" ELSE kpc[i]]
  BY <1>1, <1>2 DEF TypeOK
<1>. QED
  BY <1>1, <1>2, <1>3 DEF ForkAlloc, ForkAllocAt, PidAfter, cpuVars, lockVars

\* A failing fork(), with the slot it gives back given a name.
LEMMA ForkFailNamed ==
  ASSUME TypeOK, CpuInv, ForkInv, NEW c \in CPU, NEW p \in Slot, ForkFail(c, p)
  PROVE  \E e \in Slot : ForkFailAt(p, e)
<1>1. state[p] = "RUNNING" /\ kpc[p] = "fork" /\ ~preempted[p]
  BY DEF ForkFail, At, Runs, CpuInv
<1>2. child[p] \in Slot /\ state[child[p]] = "EMBRYO"
  BY <1>1 DEF ForkInv
<1>3. kpc' = [i \in Slot |-> IF i = p THEN "user" ELSE IF i = child[p] THEN "none" ELSE kpc[i]]
  BY <1>1, <1>2 DEF TypeOK, ForkFail
<1>. QED
  BY <1>1, <1>2, <1>3 DEF ForkFail, ForkFailAt, cpuVars, lockVars

\* The reaping scan of wait(), with the zombie it finds given a name.
LEMMA WaitReapNamed ==
  ASSUME TypeOK, CpuInv, NEW c \in CPU, NEW p \in Slot, WaitReap(c, p)
  PROVE  \E z \in Slot : WaitReapAt(p, z)
<1>1. PICK z \in Slot :
        /\ state[z] = "ZOMBIE" /\ parent[z] = p
        /\ state' = [state EXCEPT ![z] = "UNUSED"]
        /\ pid' = [pid EXCEPT ![z] = 0]
        /\ parent' = [parent EXCEPT ![z] = None]
        /\ killed' = [killed EXCEPT ![z] = FALSE]
        /\ kpc' = [kpc EXCEPT ![z] = "none", ![p] = "user"]
  BY DEF WaitReap, First, ZombieKids, Kids
<1>2. state[p] = "RUNNING" /\ kpc[p] \in {"user", "wait"} /\ ~preempted[p]
  BY DEF WaitReap, AtWaitScan, At, Runs, CpuInv
<1>3. kpc' = [i \in Slot |-> IF i = p THEN "user" ELSE IF i = z THEN "none" ELSE kpc[i]]
  BY <1>1, <1>2 DEF TypeOK
<1>. QED
  BY <1>1, <1>2, <1>3 DEF WaitReap, WaitReapAt, cpuVars

\* Which CPU runs which slot, and what RUNNING means, survives every step.
LEMMA CpuStep ==
  TypeOK /\ CpuInv /\ LockHandoff /\ ThreadInv /\ ForkInv /\ [Next]_vars => CpuInv'
<1>. SUFFICES ASSUME TypeOK, CpuInv, LockHandoff, ThreadInv, ForkInv, [Next]_vars PROVE CpuInv'
  OBVIOUS
<1>. USE ProcTableAssumption DEF TypeOK, ProcState, OpenPoint, SwitchToScheduler, slotVars, threadVars, cpuVars, lockVars, At, Runs, CpuInv
<1>1. CASE UNCHANGED vars
  BY <1>1 DEF vars
<1>2. ASSUME NEW c \in CPU, SchedulerBack(c) PROVE CpuInv'
  BY <1>2 DEF SchedulerBack
<1>3. ASSUME NEW c \in CPU, TimerTick(c) PROVE CpuInv'
  BY <1>3 DEF TimerTick, LeftAfterTick
<1>4. ASSUME NEW c \in CPU, TimerWakeup(c) PROVE CpuInv'
  BY <1>4 DEF TimerWakeup, Wakeup1
<1>5. ASSUME NEW c \in CPU, NEW p \in Slot, Scheduler(c, p) PROVE CpuInv'
  <2>1. proc[c] = None /\ state[p] = "RUNNABLE" /\ ptlock = None
    BY <1>5 DEF Scheduler
  <2>2. \A d \in CPU : proc[d] # p
    BY <2>1 DEF LockHandoff, LockPoint
  <2>. QED
    BY <1>5, <2>1, <2>2 DEF Scheduler
<1>6. ASSUME NEW c \in CPU, NEW p \in Slot, Yield(c, p) PROVE CpuInv'
  BY <1>6 DEF Yield
<1>7. ASSUME NEW c \in CPU, NEW p \in Slot, Fault(c, p) PROVE CpuInv'
  BY <1>7 DEF Fault
<1>8. ASSUME NEW c \in CPU, NEW p \in Slot, ForkAlloc(c, p) PROVE CpuInv'
  <2>1. PICK np \in Slot : ForkAllocAt(p, np)
    BY <1>8, ForkAllocNamed
  <2>. QED
    BY <2>1 DEF ForkAllocAt
<1>9. ASSUME NEW c \in CPU, NEW p \in Slot, Exit(c, p) PROVE CpuInv'
  <2>1. state[p] = "RUNNING" /\ state'[p] = "ZOMBIE"
    BY <1>9 DEF Exit, Wakeup1
  <2>2. \A i \in Slot \ {p} : state'[i] = "RUNNING" <=> state[i] = "RUNNING"
    BY <1>9 DEF Exit, Wakeup1
  <2>3. proc' = proc /\ proc[c] = p /\ spc' = [spc EXCEPT ![c] = "back"] /\ spc[c] = "away"
    BY <1>9 DEF Exit
  <2>4. \A d \in CPU : proc[d] = p <=> d = c
    BY <2>3
  <2>. QED
    BY <2>1, <2>2, <2>3, <2>4
<1>10. ASSUME NEW c \in CPU, NEW p \in Slot, WaitReap(c, p) PROVE CpuInv'
  <2>1. PICK z \in Slot : WaitReapAt(p, z)
    BY <1>10, WaitReapNamed
  <2>. QED
    BY <2>1 DEF WaitReapAt
<1>11. ASSUME NEW c \in CPU, NEW p \in Slot, WaitNothing(c, p) PROVE CpuInv'
  BY <1>11 DEF WaitNothing, AtWaitScan
<1>12. ASSUME NEW c \in CPU, NEW p \in Slot, WaitSleep(c, p) PROVE CpuInv'
  BY <1>12 DEF WaitSleep, AtWaitScan
<1>13. ASSUME NEW c \in CPU, NEW p \in Slot, NEW k \in KillPid, Kill(c, p, k)
       PROVE CpuInv'
  BY <1>13 DEF Kill, StateAfterKill
<1>14. ASSUME NEW c \in CPU, NEW p \in Slot, NEW n \in 0 .. MaxSleep, SleepEnter(c, p, n)
       PROVE CpuInv'
  BY <1>14 DEF SleepEnter
<1>15. ASSUME NEW c \in CPU, NEW p \in Slot, Forkret(c, p) PROVE CpuInv'
  BY <1>15 DEF Forkret
<1>16. ASSUME NEW c \in CPU, NEW p \in Slot, YieldReturn(c, p) PROVE CpuInv'
  BY <1>16 DEF YieldReturn
<1>17. ASSUME NEW c \in CPU, NEW p \in Slot, ForkRunnable(c, p) PROVE CpuInv'
  BY <1>17 DEF ForkRunnable, ForkInv
<1>18. ASSUME NEW c \in CPU, NEW p \in Slot, ForkReadTicks(c, p) PROVE CpuInv'
  BY <1>18 DEF ForkReadTicks
<1>19. ASSUME NEW c \in CPU, NEW p \in Slot, SleepReturn(c, p) PROVE CpuInv'
  BY <1>19 DEF SleepReturn
<1>20. ASSUME NEW c \in CPU, NEW p \in Slot, SleepTest(c, p) PROVE CpuInv'
  BY <1>20 DEF SleepTest
<1>21. ASSUME NEW c \in CPU, NEW p \in Slot, SleepBlock(c, p) PROVE CpuInv'
  BY <1>21 DEF SleepBlock
<1>22. ASSUME NEW c \in CPU, NEW p \in Slot, SleepWoken(c, p) PROVE CpuInv'
  BY <1>22 DEF SleepWoken
<1>23. ASSUME NEW c \in CPU, NEW p \in Slot, SleepReacquire(c, p) PROVE CpuInv'
  BY <1>23 DEF SleepReacquire
<1>24. ASSUME NEW c \in CPU, NEW p \in Slot, ForkFail(c, p) PROVE CpuInv'
  <2>1. PICK e \in Slot : ForkFailAt(p, e)
    BY <1>24, ForkFailNamed
  <2>. QED
    BY <2>1 DEF ForkFailAt
<1>. QED
  BY <1>1, <1>2, <1>3, <1>4, <1>5, <1>6, <1>7, <1>8, <1>9, <1>10, <1>11, <1>12, <1>13, <1>14, <1>15, <1>16, <1>17, <1>18, <1>19, <1>20, <1>21, <1>22, <1>23, <1>24
  DEF Next, SystemCall, KernelStep

\* The state of a slot and the place of its kernel thread go together.
LEMMA ThreadStep ==
  TypeOK /\ CpuInv /\ ThreadInv /\ ForkInv /\ [Next]_vars => ThreadInv'
<1>. SUFFICES ASSUME TypeOK, CpuInv, ThreadInv, ForkInv, [Next]_vars PROVE ThreadInv'
  OBVIOUS
<1>. USE ProcTableAssumption DEF TypeOK, ProcState, OpenPoint, SwitchToScheduler, slotVars, threadVars, cpuVars, lockVars, At, Runs, CpuInv, ThreadInv
<1>1. CASE UNCHANGED vars
  BY <1>1 DEF vars
<1>2. ASSUME NEW c \in CPU, SchedulerBack(c) PROVE ThreadInv'
  BY <1>2 DEF SchedulerBack
<1>3. ASSUME NEW c \in CPU, TimerTick(c) PROVE ThreadInv'
  BY <1>3 DEF TimerTick, LeftAfterTick
<1>4. ASSUME NEW c \in CPU, TimerWakeup(c) PROVE ThreadInv'
  BY <1>4 DEF TimerWakeup, Wakeup1
<1>5. ASSUME NEW c \in CPU, NEW p \in Slot, Scheduler(c, p) PROVE ThreadInv'
  BY <1>5 DEF Scheduler
<1>6. ASSUME NEW c \in CPU, NEW p \in Slot, Yield(c, p) PROVE ThreadInv'
  BY <1>6 DEF Yield
<1>7. ASSUME NEW c \in CPU, NEW p \in Slot, Fault(c, p) PROVE ThreadInv'
  BY <1>7 DEF Fault
<1>8. ASSUME NEW c \in CPU, NEW p \in Slot, ForkAlloc(c, p) PROVE ThreadInv'
  <2>1. PICK np \in Slot : ForkAllocAt(p, np)
    BY <1>8, ForkAllocNamed
  <2>. QED
    BY <2>1 DEF ForkAllocAt
<1>9. ASSUME NEW c \in CPU, NEW p \in Slot, Exit(c, p) PROVE ThreadInv'
  BY <1>9 DEF Exit, Wakeup1
<1>10. ASSUME NEW c \in CPU, NEW p \in Slot, WaitReap(c, p) PROVE ThreadInv'
  <2>1. PICK z \in Slot : WaitReapAt(p, z)
    BY <1>10, WaitReapNamed
  <2>2. \A i \in Slot : i # p /\ i # z => kpc'[i] = kpc[i] /\ state'[i] = state[i]
    BY <2>1 DEF WaitReapAt
  <2>3. kpc'[p] = "user" /\ state'[p] = "RUNNING" /\ kpc'[z] = "none" /\ state'[z] = "UNUSED"
    BY <2>1 DEF WaitReapAt
  <2>4. preempted' = preempted /\ child' = child /\ ~preempted[p] /\ ~preempted[z]
    BY <2>1 DEF WaitReapAt
  <2>. QED
    BY <2>2, <2>3, <2>4
<1>11. ASSUME NEW c \in CPU, NEW p \in Slot, WaitNothing(c, p) PROVE ThreadInv'
  BY <1>11 DEF WaitNothing, AtWaitScan
<1>12. ASSUME NEW c \in CPU, NEW p \in Slot, WaitSleep(c, p) PROVE ThreadInv'
  BY <1>12 DEF WaitSleep, AtWaitScan
<1>13. ASSUME NEW c \in CPU, NEW p \in Slot, NEW k \in KillPid, Kill(c, p, k)
       PROVE ThreadInv'
  BY <1>13 DEF Kill, StateAfterKill
<1>14. ASSUME NEW c \in CPU, NEW p \in Slot, NEW n \in 0 .. MaxSleep, SleepEnter(c, p, n)
       PROVE ThreadInv'
  BY <1>14 DEF SleepEnter
<1>15. ASSUME NEW c \in CPU, NEW p \in Slot, Forkret(c, p) PROVE ThreadInv'
  BY <1>15 DEF Forkret
<1>16. ASSUME NEW c \in CPU, NEW p \in Slot, YieldReturn(c, p) PROVE ThreadInv'
  BY <1>16 DEF YieldReturn
<1>17. ASSUME NEW c \in CPU, NEW p \in Slot, ForkRunnable(c, p) PROVE ThreadInv'
  BY <1>17 DEF ForkRunnable, ForkInv
<1>18. ASSUME NEW c \in CPU, NEW p \in Slot, ForkReadTicks(c, p)
       PROVE ThreadInv'
  BY <1>18 DEF ForkReadTicks
<1>19. ASSUME NEW c \in CPU, NEW p \in Slot, SleepReturn(c, p) PROVE ThreadInv'
  BY <1>19 DEF SleepReturn
<1>20. ASSUME NEW c \in CPU, NEW p \in Slot, SleepTest(c, p) PROVE ThreadInv'
  BY <1>20 DEF SleepTest
<1>21. ASSUME NEW c \in CPU, NEW p \in Slot, SleepBlock(c, p) PROVE ThreadInv'
  BY <1>21 DEF SleepBlock
<1>22. ASSUME NEW c \in CPU, NEW p \in Slot, SleepWoken(c, p) PROVE ThreadInv'
  BY <1>22 DEF SleepWoken
<1>23. ASSUME NEW c \in CPU, NEW p \in Slot, SleepReacquire(c, p)
       PROVE ThreadInv'
  BY <1>23 DEF SleepReacquire
<1>24. ASSUME NEW c \in CPU, NEW p \in Slot, ForkFail(c, p) PROVE ThreadInv'
  <2>1. PICK e \in Slot : ForkFailAt(p, e)
    BY <1>24, ForkFailNamed
  <2>. QED
    BY <2>1 DEF ForkFailAt
<1>. QED
  BY <1>1, <1>2, <1>3, <1>4, <1>5, <1>6, <1>7, <1>8, <1>9, <1>10, <1>11, <1>12, <1>13, <1>14, <1>15, <1>16, <1>17, <1>18, <1>19, <1>20, <1>21, <1>22, <1>23, <1>24
  DEF Next, SystemCall, KernelStep

\* np of a fork() in progress is its own EMBRYO, until it is RUNNABLE.
LEMMA ForkStep ==
  TypeOK /\ CpuInv /\ ThreadInv /\ ForkInv /\ [Next]_vars => ForkInv'
<1>. SUFFICES ASSUME TypeOK, CpuInv, ThreadInv, ForkInv, [Next]_vars PROVE ForkInv'
  OBVIOUS
<1>. USE ProcTableAssumption DEF TypeOK, ProcState, OpenPoint, SwitchToScheduler, slotVars, threadVars, cpuVars, lockVars, At, Runs, CpuInv, ThreadInv, ForkInv
<1>1. CASE UNCHANGED vars
  BY <1>1 DEF vars
<1>2. ASSUME NEW c \in CPU, SchedulerBack(c) PROVE ForkInv'
  BY <1>2 DEF SchedulerBack
<1>3. ASSUME NEW c \in CPU, TimerTick(c) PROVE ForkInv'
  BY <1>3 DEF TimerTick, LeftAfterTick
<1>4. ASSUME NEW c \in CPU, TimerWakeup(c) PROVE ForkInv'
  BY <1>4 DEF TimerWakeup, Wakeup1
<1>5. ASSUME NEW c \in CPU, NEW p \in Slot, Scheduler(c, p) PROVE ForkInv'
  BY <1>5 DEF Scheduler
<1>6. ASSUME NEW c \in CPU, NEW p \in Slot, Yield(c, p) PROVE ForkInv'
  BY <1>6 DEF Yield
<1>7. ASSUME NEW c \in CPU, NEW p \in Slot, Fault(c, p) PROVE ForkInv'
  BY <1>7 DEF Fault
<1>8. ASSUME NEW c \in CPU, NEW p \in Slot, ForkAlloc(c, p) PROVE ForkInv'
  <2>1. PICK np \in Slot : ForkAllocAt(p, np)
    BY <1>8, ForkAllocNamed
  <2>2. \A i \in Slot : i # p /\ i # np =>
          kpc'[i] = kpc[i] /\ state'[i] = state[i] /\ child'[i] = child[i]
    BY <2>1 DEF ForkAllocAt
  <2>3. kpc'[p] = "fork" /\ child'[p] = np /\ state'[p] = "RUNNING"
    BY <2>1 DEF ForkAllocAt
  <2>4. kpc'[np] = "forkret" /\ state'[np] = "EMBRYO" /\ state[np] = "UNUSED" /\ kpc[p] = "user"
    BY <2>1 DEF ForkAllocAt
  <2>5. kpc[np] = "none" /\ \A q \in Slot : kpc[q] = "fork" => child[q] # np
    BY <2>4
  <2>. QED
    BY <2>2, <2>3, <2>4, <2>5
<1>9. ASSUME NEW c \in CPU, NEW p \in Slot, Exit(c, p) PROVE ForkInv'
  BY <1>9 DEF Exit, Wakeup1
<1>10. ASSUME NEW c \in CPU, NEW p \in Slot, WaitReap(c, p) PROVE ForkInv'
  <2>1. PICK z \in Slot : WaitReapAt(p, z)
    BY <1>10, WaitReapNamed
  <2>2. \A i \in Slot : i # p /\ i # z => kpc'[i] = kpc[i] /\ state'[i] = state[i]
    BY <2>1 DEF WaitReapAt
  <2>3. kpc'[p] = "user" /\ state'[p] = "RUNNING" /\ kpc'[z] = "none" /\ state'[z] = "UNUSED"
    BY <2>1 DEF WaitReapAt
  <2>4. child' = child /\ kpc[p] # "fork" /\ kpc[z] # "fork" /\ state[z] = "ZOMBIE"
    BY <2>1 DEF WaitReapAt
  <2>5. \A q \in Slot : kpc'[q] = "fork" <=> kpc[q] = "fork"
    BY <2>2, <2>3, <2>4
  <2>6. \A q \in Slot : state'[q] = "EMBRYO" <=> state[q] = "EMBRYO"
    BY <2>2, <2>3, <2>4, <2>1 DEF WaitReapAt
  <2>. QED
    BY <2>4, <2>5, <2>6
<1>11. ASSUME NEW c \in CPU, NEW p \in Slot, WaitNothing(c, p) PROVE ForkInv'
  BY <1>11 DEF WaitNothing, AtWaitScan
<1>12. ASSUME NEW c \in CPU, NEW p \in Slot, WaitSleep(c, p) PROVE ForkInv'
  BY <1>12 DEF WaitSleep, AtWaitScan
<1>13. ASSUME NEW c \in CPU, NEW p \in Slot, NEW k \in KillPid, Kill(c, p, k)
       PROVE ForkInv'
  BY <1>13 DEF Kill, StateAfterKill
<1>14. ASSUME NEW c \in CPU, NEW p \in Slot, NEW n \in 0 .. MaxSleep, SleepEnter(c, p, n)
       PROVE ForkInv'
  BY <1>14 DEF SleepEnter
<1>15. ASSUME NEW c \in CPU, NEW p \in Slot, Forkret(c, p) PROVE ForkInv'
  BY <1>15 DEF Forkret
<1>16. ASSUME NEW c \in CPU, NEW p \in Slot, YieldReturn(c, p) PROVE ForkInv'
  BY <1>16 DEF YieldReturn
<1>17. ASSUME NEW c \in CPU, NEW p \in Slot, ForkRunnable(c, p) PROVE ForkInv'
  BY <1>17 DEF ForkRunnable
<1>18. ASSUME NEW c \in CPU, NEW p \in Slot, ForkReadTicks(c, p) PROVE ForkInv'
  BY <1>18 DEF ForkReadTicks
<1>19. ASSUME NEW c \in CPU, NEW p \in Slot, SleepReturn(c, p) PROVE ForkInv'
  BY <1>19 DEF SleepReturn
<1>20. ASSUME NEW c \in CPU, NEW p \in Slot, SleepTest(c, p) PROVE ForkInv'
  BY <1>20 DEF SleepTest
<1>21. ASSUME NEW c \in CPU, NEW p \in Slot, SleepBlock(c, p) PROVE ForkInv'
  BY <1>21 DEF SleepBlock
<1>22. ASSUME NEW c \in CPU, NEW p \in Slot, SleepWoken(c, p) PROVE ForkInv'
  BY <1>22 DEF SleepWoken
<1>23. ASSUME NEW c \in CPU, NEW p \in Slot, SleepReacquire(c, p) PROVE ForkInv'
  BY <1>23 DEF SleepReacquire
<1>24. ASSUME NEW c \in CPU, NEW p \in Slot, ForkFail(c, p) PROVE ForkInv'
  <2>1. PICK e \in Slot : ForkFailAt(p, e)
    BY <1>24, ForkFailNamed
  <2>2. \A i \in Slot : i # p /\ i # e =>
          kpc'[i] = kpc[i] /\ state'[i] = state[i] /\ child'[i] = child[i]
    BY <2>1 DEF ForkFailAt
  <2>3. kpc'[p] = "user" /\ state'[p] = "RUNNING" /\ kpc[p] = "fork" /\ child[p] = e
    BY <2>1 DEF ForkFailAt
  <2>4. kpc'[e] = "none" /\ state'[e] = "UNUSED" /\ state[e] = "EMBRYO"
    BY <2>1 DEF ForkFailAt
  <2>5. kpc[e] = "forkret" /\ \A q \in Slot : q # p /\ kpc[q] = "fork" => child[q] # e
    BY <2>3, <2>4
  <2>6. \A q \in Slot : kpc'[q] = "fork" <=> q # p /\ kpc[q] = "fork"
    BY <2>2, <2>3, <2>4, <2>5
  <2>7. \A q \in Slot : state'[q] = "EMBRYO" <=> q # e /\ state[q] = "EMBRYO"
    BY <2>2, <2>3, <2>4, <2>1 DEF ForkFailAt
  <2>8. \A q \in Slot : q # p => child'[q] = child[q]
    BY <2>1 DEF ForkFailAt
  <2>. QED
    BY <2>3, <2>5, <2>6, <2>7, <2>8
<1>. QED
  BY <1>1, <1>2, <1>3, <1>4, <1>5, <1>6, <1>7, <1>8, <1>9, <1>10, <1>11, <1>12, <1>13, <1>14, <1>15, <1>16, <1>17, <1>18, <1>19, <1>20, <1>21, <1>22, <1>23, <1>24
  DEF Next, SystemCall, KernelStep

-----------------------------------------------------------------------------
(* Both spin locks, and the timer interrupt.                               *)

\* c stands where tickslock is held.
TicksPoint(c) ==
  \/ c = BootCPU /\ tick = "wake"
  \/ \E p \in Slot : Runs(c, p) /\ kpc[p] \in {"sleepchk", "sleepgo"}

\* c runs a process with interrupts enabled.
Open(c) == \E p \in Slot : Runs(c, p) /\ ~preempted[p] /\ kpc[p] \in OpenPoint

LockInv ==
  /\ LockHandoff
  /\ \A c \in CPU : tickslock = c <=> TicksPoint(c)
  /\ tick = "wake" => spc[BootCPU] = "loop" \/ Open(BootCPU)
  /\ tick = "resched" => Open(BootCPU)

\* ptable.lock and tickslock are held exactly at the points that hold them.
LEMMA LockStep ==
  TypeOK /\ CpuInv /\ ThreadInv /\ ForkInv /\ LockInv /\ [Next]_vars => LockInv'
<1>. SUFFICES ASSUME TypeOK, CpuInv, ThreadInv, ForkInv, LockInv, [Next]_vars PROVE LockInv'
  OBVIOUS
<1>. USE ProcTableAssumption DEF TypeOK, ProcState, OpenPoint, SwitchToScheduler, slotVars, threadVars, cpuVars, lockVars, At, Runs, CpuInv, LockInv, LockHandoff, LockPoint, TicksPoint, Open, InTick
<1>1. CASE UNCHANGED vars
  BY <1>1 DEF vars
<1>2. ASSUME NEW c \in CPU, SchedulerBack(c) PROVE LockInv'
  BY <1>2 DEF SchedulerBack
<1>3. ASSUME NEW c \in CPU, TimerTick(c) PROVE LockInv'
  BY <1>3 DEF TimerTick, LeftAfterTick, Interruptible
<1>4. ASSUME NEW c \in CPU, TimerWakeup(c) PROVE LockInv'
  BY <1>4 DEF TimerWakeup, Wakeup1
<1>5. ASSUME NEW c \in CPU, NEW p \in Slot, Scheduler(c, p) PROVE LockInv'
  BY <1>5 DEF Scheduler, ThreadInv
<1>6. ASSUME NEW c \in CPU, NEW p \in Slot, Yield(c, p) PROVE LockInv'
  BY <1>6 DEF Yield
<1>7. ASSUME NEW c \in CPU, NEW p \in Slot, Fault(c, p) PROVE LockInv'
  BY <1>7 DEF Fault
<1>8. ASSUME NEW c \in CPU, NEW p \in Slot, ForkAlloc(c, p) PROVE LockInv'
  <2>1. PICK np \in Slot : ForkAllocAt(p, np)
    BY <1>8, ForkAllocNamed
  <2>. QED
    BY <1>8, <2>1 DEF ForkAllocAt, ForkAlloc
<1>9. ASSUME NEW c \in CPU, NEW p \in Slot, Exit(c, p) PROVE LockInv'
  BY <1>9 DEF Exit, Wakeup1, ThreadInv
<1>10. ASSUME NEW c \in CPU, NEW p \in Slot, WaitReap(c, p) PROVE LockInv'
  <2>1. PICK z \in Slot : WaitReapAt(p, z)
    BY <1>10, WaitReapNamed
  <2>2. Runs(c, p) /\ ~InTick(c) /\ ptlock' = None
    BY <1>10 DEF WaitReap, AtWaitScan
  <2>3. ptlock \in {None, c}
    BY <1>10, <2>1, <2>2 DEF WaitReap, AtWaitScan, WaitReapAt
  <2>4. z # p /\ \A d \in CPU : proc[d] = z => spc[d] = "back"
    BY <2>1 DEF WaitReapAt
  <2>5. UNCHANGED <<preempted, proc, spc, tick, tickslock>>
    BY <2>1 DEF WaitReapAt
  <2>6. \A q \in Slot : q # p /\ q # z => kpc'[q] = kpc[q]
    BY <2>1 DEF WaitReapAt
  <2>7. kpc'[p] = "user" /\ ~preempted[p] /\ kpc[p] \in {"user", "wait"}
    BY <2>1 DEF WaitReapAt
  <2>. QED
    BY <2>2, <2>3, <2>4, <2>5, <2>6, <2>7
<1>11. ASSUME NEW c \in CPU, NEW p \in Slot, WaitNothing(c, p) PROVE LockInv'
  BY <1>11 DEF WaitNothing, AtWaitScan
<1>12. ASSUME NEW c \in CPU, NEW p \in Slot, WaitSleep(c, p) PROVE LockInv'
  BY <1>12 DEF WaitSleep, AtWaitScan
<1>13. ASSUME NEW c \in CPU, NEW p \in Slot, NEW k \in KillPid, Kill(c, p, k)
       PROVE LockInv'
  BY <1>13 DEF Kill, StateAfterKill
<1>14. ASSUME NEW c \in CPU, NEW p \in Slot, NEW n \in 0 .. MaxSleep, SleepEnter(c, p, n)
       PROVE LockInv'
  BY <1>14 DEF SleepEnter
<1>15. ASSUME NEW c \in CPU, NEW p \in Slot, Forkret(c, p) PROVE LockInv'
  BY <1>15 DEF Forkret
<1>16. ASSUME NEW c \in CPU, NEW p \in Slot, YieldReturn(c, p) PROVE LockInv'
  BY <1>16 DEF YieldReturn, ThreadInv
<1>17. ASSUME NEW c \in CPU, NEW p \in Slot, ForkRunnable(c, p) PROVE LockInv'
  BY <1>17 DEF ForkRunnable
<1>18. ASSUME NEW c \in CPU, NEW p \in Slot, ForkReadTicks(c, p) PROVE LockInv'
  BY <1>18 DEF ForkReadTicks
<1>19. ASSUME NEW c \in CPU, NEW p \in Slot, SleepReturn(c, p) PROVE LockInv'
  BY <1>19 DEF SleepReturn
<1>20. ASSUME NEW c \in CPU, NEW p \in Slot, SleepTest(c, p) PROVE LockInv'
  BY <1>20 DEF SleepTest
<1>21. ASSUME NEW c \in CPU, NEW p \in Slot, SleepBlock(c, p) PROVE LockInv'
  BY <1>21 DEF SleepBlock
<1>22. ASSUME NEW c \in CPU, NEW p \in Slot, SleepWoken(c, p) PROVE LockInv'
  BY <1>22 DEF SleepWoken
<1>23. ASSUME NEW c \in CPU, NEW p \in Slot, SleepReacquire(c, p) PROVE LockInv'
  BY <1>23 DEF SleepReacquire
<1>24. ASSUME NEW c \in CPU, NEW p \in Slot, ForkFail(c, p) PROVE LockInv'
  <2>1. PICK e \in Slot : ForkFailAt(p, e)
    BY <1>24, ForkFailNamed
  <2>. QED
    BY <1>24, <2>1 DEF ForkFailAt, ForkFail
<1>. QED
  BY <1>1, <1>2, <1>3, <1>4, <1>5, <1>6, <1>7, <1>8, <1>9, <1>10, <1>11, <1>12, <1>13, <1>14, <1>15, <1>16, <1>17, <1>18, <1>19, <1>20, <1>21, <1>22, <1>23, <1>24
  DEF Next, SystemCall, KernelStep

-----------------------------------------------------------------------------
(* Pids, the family tree, and the two kinds of sleep.                      *)

PidInv ==
  /\ \A i \in Slot : pid[i] < nextpid
  /\ \A i, j \in Slot : pid[i] = pid[j] /\ pid[i] # 0 => i = j
  /\ \A i \in Slot : state[i] # "UNUSED" => pid[i] # 0

Live == {"SLEEPING", "RUNNABLE", "RUNNING"}

FamilyInv ==
  /\ state[Init1] \in Live /\ parent[Init1] = None
  /\ \A i \in Slot : parent[i] # i
  /\ \A i \in Slot : state[i] \in {"UNUSED", "EMBRYO"} => parent[i] = None
  /\ \A i \in Slot \ {Init1} : state[i] \notin {"UNUSED", "EMBRYO"} =>
       parent[i] \in Slot /\ state[parent[i]] \in Live

\* NoLostExit at all times.
WaitInv ==
  \A p \in Slot : state[p] = "SLEEPING" /\ chan[p] = p =>
    ZombieKids(p) = {} /\ Kids(p) # {} /\ ~killed[p]

SleepInv ==
  /\ NoLostTick
  /\ \A p \in Slot : kpc[p] = "sleepgo" => left[p] > 0

\* Pids in use are below nextpid and distinct.
LEMMA PidStep ==
  TypeOK /\ CpuInv /\ ThreadInv /\ ForkInv /\ PidInv /\ [Next]_vars => PidInv'
<1>. SUFFICES ASSUME TypeOK, CpuInv, ThreadInv, ForkInv, PidInv, [Next]_vars PROVE PidInv'
  OBVIOUS
<1>. USE ProcTableAssumption, Init1Type DEF TypeOK, ProcState, SwitchToScheduler, slotVars, threadVars, cpuVars, lockVars, At, Runs, CpuInv, PidInv
<1>1. CASE UNCHANGED vars
  BY <1>1 DEF vars
<1>2. ASSUME NEW c \in CPU, SchedulerBack(c) PROVE PidInv'
  BY <1>2 DEF SchedulerBack
<1>3. ASSUME NEW c \in CPU, TimerTick(c) PROVE PidInv'
  BY <1>3 DEF TimerTick, LeftAfterTick, Interruptible
<1>4. ASSUME NEW c \in CPU, TimerWakeup(c) PROVE PidInv'
  BY <1>4 DEF TimerWakeup, Wakeup1
<1>5. ASSUME NEW c \in CPU, NEW p \in Slot, Scheduler(c, p) PROVE PidInv'
  BY <1>5 DEF Scheduler, ThreadInv
<1>6. ASSUME NEW c \in CPU, NEW p \in Slot, Yield(c, p) PROVE PidInv'
  BY <1>6 DEF Yield
<1>7. ASSUME NEW c \in CPU, NEW p \in Slot, Fault(c, p) PROVE PidInv'
  BY <1>7 DEF Fault
<1>8. ASSUME NEW c \in CPU, NEW p \in Slot, ForkAlloc(c, p) PROVE PidInv'
  <2>1. PICK np \in Slot : ForkAllocAt(p, np)
    BY <1>8, ForkAllocNamed
  <2>. QED
    BY <1>8, <2>1 DEF ForkAllocAt, ForkAlloc
<1>9. ASSUME NEW c \in CPU, NEW p \in Slot, Exit(c, p) PROVE PidInv'
  BY <1>9 DEF Exit, Wakeup1
<1>10. ASSUME NEW c \in CPU, NEW p \in Slot, WaitReap(c, p) PROVE PidInv'
  <2>1. PICK z \in Slot : WaitReapAt(p, z)
    BY <1>10, WaitReapNamed
  <2>. QED
    BY <1>10, <2>1 DEF WaitReapAt, WaitReap
<1>11. ASSUME NEW c \in CPU, NEW p \in Slot, WaitNothing(c, p) PROVE PidInv'
  BY <1>11 DEF WaitNothing, AtWaitScan
<1>12. ASSUME NEW c \in CPU, NEW p \in Slot, WaitSleep(c, p) PROVE PidInv'
  BY <1>12 DEF WaitSleep, AtWaitScan
<1>13. ASSUME NEW c \in CPU, NEW p \in Slot, NEW k \in KillPid, Kill(c, p, k)
       PROVE PidInv'
  BY <1>13 DEF Kill, StateAfterKill
<1>14. ASSUME NEW c \in CPU, NEW p \in Slot, NEW n \in 0 .. MaxSleep, SleepEnter(c, p, n)
       PROVE PidInv'
  BY <1>14 DEF SleepEnter
<1>15. ASSUME NEW c \in CPU, NEW p \in Slot, Forkret(c, p) PROVE PidInv'
  BY <1>15 DEF Forkret
<1>16. ASSUME NEW c \in CPU, NEW p \in Slot, YieldReturn(c, p) PROVE PidInv'
  BY <1>16 DEF YieldReturn
<1>17. ASSUME NEW c \in CPU, NEW p \in Slot, ForkRunnable(c, p) PROVE PidInv'
  BY <1>17 DEF ForkRunnable, ForkInv
<1>18. ASSUME NEW c \in CPU, NEW p \in Slot, ForkReadTicks(c, p) PROVE PidInv'
  BY <1>18 DEF ForkReadTicks
<1>19. ASSUME NEW c \in CPU, NEW p \in Slot, SleepReturn(c, p) PROVE PidInv'
  BY <1>19 DEF SleepReturn
<1>20. ASSUME NEW c \in CPU, NEW p \in Slot, SleepTest(c, p) PROVE PidInv'
  BY <1>20 DEF SleepTest
<1>21. ASSUME NEW c \in CPU, NEW p \in Slot, SleepBlock(c, p) PROVE PidInv'
  BY <1>21 DEF SleepBlock
<1>22. ASSUME NEW c \in CPU, NEW p \in Slot, SleepWoken(c, p) PROVE PidInv'
  BY <1>22 DEF SleepWoken
<1>23. ASSUME NEW c \in CPU, NEW p \in Slot, SleepReacquire(c, p) PROVE PidInv'
  BY <1>23 DEF SleepReacquire
<1>24. ASSUME NEW c \in CPU, NEW p \in Slot, ForkFail(c, p) PROVE PidInv'
  <2>1. PICK e \in Slot : ForkFailAt(p, e)
    BY <1>24, ForkFailNamed
  <2>. QED
    BY <1>24, <2>1 DEF ForkFailAt, ForkFail
<1>. QED
  BY <1>1, <1>2, <1>3, <1>4, <1>5, <1>6, <1>7, <1>8, <1>9, <1>10, <1>11, <1>12, <1>13, <1>14, <1>15, <1>16, <1>17, <1>18, <1>19, <1>20, <1>21, <1>22, <1>23, <1>24
  DEF Next, SystemCall, KernelStep

\* Every process but initproc has a parent that can wait() for it.
LEMMA FamilyStep ==
  TypeOK /\ CpuInv /\ ThreadInv /\ ForkInv /\ FamilyInv /\ [Next]_vars => FamilyInv'
<1>. SUFFICES ASSUME TypeOK, CpuInv, ThreadInv, ForkInv, FamilyInv, [Next]_vars PROVE FamilyInv'
  OBVIOUS
<1>. USE ProcTableAssumption, Init1Type DEF TypeOK, ProcState, SwitchToScheduler, slotVars, threadVars, cpuVars, lockVars, At, Runs, CpuInv, FamilyInv, Live
<1>1. CASE UNCHANGED vars
  BY <1>1 DEF vars
<1>2. ASSUME NEW c \in CPU, SchedulerBack(c) PROVE FamilyInv'
  BY <1>2 DEF SchedulerBack
<1>3. ASSUME NEW c \in CPU, TimerTick(c) PROVE FamilyInv'
  BY <1>3 DEF TimerTick, LeftAfterTick, Interruptible
<1>4. ASSUME NEW c \in CPU, TimerWakeup(c) PROVE FamilyInv'
  BY <1>4 DEF TimerWakeup, Wakeup1
<1>5. ASSUME NEW c \in CPU, NEW p \in Slot, Scheduler(c, p) PROVE FamilyInv'
  BY <1>5 DEF Scheduler, ThreadInv
<1>6. ASSUME NEW c \in CPU, NEW p \in Slot, Yield(c, p) PROVE FamilyInv'
  BY <1>6 DEF Yield
<1>7. ASSUME NEW c \in CPU, NEW p \in Slot, Fault(c, p) PROVE FamilyInv'
  BY <1>7 DEF Fault
<1>8. ASSUME NEW c \in CPU, NEW p \in Slot, ForkAlloc(c, p) PROVE FamilyInv'
  <2>1. PICK np \in Slot : ForkAllocAt(p, np)
    BY <1>8, ForkAllocNamed
  <2>. QED
    BY <1>8, <2>1 DEF ForkAllocAt, ForkAlloc
<1>9. ASSUME NEW c \in CPU, NEW p \in Slot, Exit(c, p) PROVE FamilyInv'
  <2>1. p # Init1 /\ state[p] = "RUNNING" /\ state'[p] = "ZOMBIE"
    BY <1>9 DEF Exit, Wakeup1
  <2>2. \A i \in Slot : i # p =>
          \/ state'[i] = state[i]
          \/ state[i] = "SLEEPING" /\ state'[i] = "RUNNABLE"
    BY <1>9 DEF Exit, Wakeup1
  <2>3. \A i \in Slot : parent'[i] = IF parent[i] = p THEN Init1 ELSE parent[i]
    BY <1>9 DEF Exit, Reparented, Kids
  <2>4. parent[Init1] # p
    OBVIOUS
  <2>. QED
    BY <2>1, <2>2, <2>3, <2>4
<1>10. ASSUME NEW c \in CPU, NEW p \in Slot, WaitReap(c, p) PROVE FamilyInv'
  <2>1. PICK z \in Slot : WaitReapAt(p, z)
    BY <1>10, WaitReapNamed
  <2>. QED
    BY <1>10, <2>1 DEF WaitReapAt, WaitReap
<1>11. ASSUME NEW c \in CPU, NEW p \in Slot, WaitNothing(c, p) PROVE FamilyInv'
  BY <1>11 DEF WaitNothing, AtWaitScan
<1>12. ASSUME NEW c \in CPU, NEW p \in Slot, WaitSleep(c, p) PROVE FamilyInv'
  BY <1>12 DEF WaitSleep, AtWaitScan
<1>13. ASSUME NEW c \in CPU, NEW p \in Slot, NEW k \in KillPid, Kill(c, p, k)
       PROVE FamilyInv'
  BY <1>13 DEF Kill, StateAfterKill
<1>14. ASSUME NEW c \in CPU, NEW p \in Slot, NEW n \in 0 .. MaxSleep, SleepEnter(c, p, n)
       PROVE FamilyInv'
  BY <1>14 DEF SleepEnter
<1>15. ASSUME NEW c \in CPU, NEW p \in Slot, Forkret(c, p) PROVE FamilyInv'
  BY <1>15 DEF Forkret
<1>16. ASSUME NEW c \in CPU, NEW p \in Slot, YieldReturn(c, p) PROVE FamilyInv'
  BY <1>16 DEF YieldReturn
<1>17. ASSUME NEW c \in CPU, NEW p \in Slot, ForkRunnable(c, p) PROVE FamilyInv'
  BY <1>17 DEF ForkRunnable, ForkInv
<1>18. ASSUME NEW c \in CPU, NEW p \in Slot, ForkReadTicks(c, p)
       PROVE FamilyInv'
  BY <1>18 DEF ForkReadTicks
<1>19. ASSUME NEW c \in CPU, NEW p \in Slot, SleepReturn(c, p) PROVE FamilyInv'
  BY <1>19 DEF SleepReturn
<1>20. ASSUME NEW c \in CPU, NEW p \in Slot, SleepTest(c, p) PROVE FamilyInv'
  BY <1>20 DEF SleepTest
<1>21. ASSUME NEW c \in CPU, NEW p \in Slot, SleepBlock(c, p) PROVE FamilyInv'
  BY <1>21 DEF SleepBlock
<1>22. ASSUME NEW c \in CPU, NEW p \in Slot, SleepWoken(c, p) PROVE FamilyInv'
  BY <1>22 DEF SleepWoken
<1>23. ASSUME NEW c \in CPU, NEW p \in Slot, SleepReacquire(c, p)
       PROVE FamilyInv'
  BY <1>23 DEF SleepReacquire
<1>24. ASSUME NEW c \in CPU, NEW p \in Slot, ForkFail(c, p) PROVE FamilyInv'
  <2>1. PICK e \in Slot : ForkFailAt(p, e)
    BY <1>24, ForkFailNamed
  <2>. QED
    BY <1>24, <2>1 DEF ForkFailAt, ForkFail
<1>. QED
  BY <1>1, <1>2, <1>3, <1>4, <1>5, <1>6, <1>7, <1>8, <1>9, <1>10, <1>11, <1>12, <1>13, <1>14, <1>15, <1>16, <1>17, <1>18, <1>19, <1>20, <1>21, <1>22, <1>23, <1>24
  DEF Next, SystemCall, KernelStep

\* Nobody sleeps in wait() with a zombie child, unless an exit() is under way.
LEMMA WaitStep ==
  TypeOK /\ CpuInv /\ ThreadInv /\ ForkInv /\ FamilyInv /\ WaitInv /\ [Next]_vars => WaitInv'
<1>. SUFFICES ASSUME TypeOK, CpuInv, ThreadInv, ForkInv, FamilyInv, WaitInv, [Next]_vars PROVE WaitInv'
  OBVIOUS
<1>. USE ProcTableAssumption, Init1Type DEF TypeOK, ProcState, SwitchToScheduler, slotVars, threadVars, cpuVars, lockVars, At, Runs, CpuInv, WaitInv, ZombieKids, Kids, Live
<1>1. CASE UNCHANGED vars
  BY <1>1 DEF vars
<1>2. ASSUME NEW c \in CPU, SchedulerBack(c) PROVE WaitInv'
  BY <1>2 DEF SchedulerBack
<1>3. ASSUME NEW c \in CPU, TimerTick(c) PROVE WaitInv'
  BY <1>3 DEF TimerTick, LeftAfterTick, Interruptible
<1>4. ASSUME NEW c \in CPU, TimerWakeup(c) PROVE WaitInv'
  BY <1>4 DEF TimerWakeup, Wakeup1
<1>5. ASSUME NEW c \in CPU, NEW p \in Slot, Scheduler(c, p) PROVE WaitInv'
  BY <1>5 DEF Scheduler, ThreadInv
<1>6. ASSUME NEW c \in CPU, NEW p \in Slot, Yield(c, p) PROVE WaitInv'
  BY <1>6 DEF Yield
<1>7. ASSUME NEW c \in CPU, NEW p \in Slot, Fault(c, p) PROVE WaitInv'
  BY <1>7 DEF Fault
<1>8. ASSUME NEW c \in CPU, NEW p \in Slot, ForkAlloc(c, p) PROVE WaitInv'
  <2>1. PICK np \in Slot : ForkAllocAt(p, np)
    BY <1>8, ForkAllocNamed
  <2>. QED
    BY <1>8, <2>1 DEF ForkAllocAt, ForkAlloc
<1>9. ASSUME NEW c \in CPU, NEW p \in Slot, Exit(c, p) PROVE WaitInv'
  BY <1>9 DEF Exit, Wakeup1, Reparented, WokenByExit, FamilyInv
<1>10. ASSUME NEW c \in CPU, NEW p \in Slot, WaitReap(c, p) PROVE WaitInv'
  <2>1. PICK z \in Slot : WaitReapAt(p, z)
    BY <1>10, WaitReapNamed
  <2>. QED
    BY <1>10, <2>1 DEF WaitReapAt, WaitReap
<1>11. ASSUME NEW c \in CPU, NEW p \in Slot, WaitNothing(c, p) PROVE WaitInv'
  BY <1>11 DEF WaitNothing, AtWaitScan
<1>12. ASSUME NEW c \in CPU, NEW p \in Slot, WaitSleep(c, p) PROVE WaitInv'
  BY <1>12 DEF WaitSleep, AtWaitScan
<1>13. ASSUME NEW c \in CPU, NEW p \in Slot, NEW k \in KillPid, Kill(c, p, k)
       PROVE WaitInv'
  BY <1>13 DEF Kill, StateAfterKill
<1>14. ASSUME NEW c \in CPU, NEW p \in Slot, NEW n \in 0 .. MaxSleep, SleepEnter(c, p, n)
       PROVE WaitInv'
  BY <1>14 DEF SleepEnter
<1>15. ASSUME NEW c \in CPU, NEW p \in Slot, Forkret(c, p) PROVE WaitInv'
  BY <1>15 DEF Forkret
<1>16. ASSUME NEW c \in CPU, NEW p \in Slot, YieldReturn(c, p) PROVE WaitInv'
  BY <1>16 DEF YieldReturn
<1>17. ASSUME NEW c \in CPU, NEW p \in Slot, ForkRunnable(c, p) PROVE WaitInv'
  BY <1>17 DEF ForkRunnable, ForkInv, FamilyInv
<1>18. ASSUME NEW c \in CPU, NEW p \in Slot, ForkReadTicks(c, p) PROVE WaitInv'
  BY <1>18 DEF ForkReadTicks
<1>19. ASSUME NEW c \in CPU, NEW p \in Slot, SleepReturn(c, p) PROVE WaitInv'
  BY <1>19 DEF SleepReturn
<1>20. ASSUME NEW c \in CPU, NEW p \in Slot, SleepTest(c, p) PROVE WaitInv'
  BY <1>20 DEF SleepTest
<1>21. ASSUME NEW c \in CPU, NEW p \in Slot, SleepBlock(c, p) PROVE WaitInv'
  BY <1>21 DEF SleepBlock
<1>22. ASSUME NEW c \in CPU, NEW p \in Slot, SleepWoken(c, p) PROVE WaitInv'
  BY <1>22 DEF SleepWoken
<1>23. ASSUME NEW c \in CPU, NEW p \in Slot, SleepReacquire(c, p) PROVE WaitInv'
  BY <1>23 DEF SleepReacquire
<1>24. ASSUME NEW c \in CPU, NEW p \in Slot, ForkFail(c, p) PROVE WaitInv'
  <2>1. PICK e \in Slot : ForkFailAt(p, e)
    BY <1>24, ForkFailNamed
  <2>. QED
    BY <1>24, <2>1 DEF ForkFailAt, ForkFail
<1>. QED
  BY <1>1, <1>2, <1>3, <1>4, <1>5, <1>6, <1>7, <1>8, <1>9, <1>10, <1>11, <1>12, <1>13, <1>14, <1>15, <1>16, <1>17, <1>18, <1>19, <1>20, <1>21, <1>22, <1>23, <1>24
  DEF Next, SystemCall, KernelStep

\* Nobody sleeps on &ticks past its time, unless a tick is under way.
LEMMA SleepStep ==
  TypeOK /\ CpuInv /\ ThreadInv /\ ForkInv /\ LockInv /\ SleepInv /\ [Next]_vars => SleepInv'
<1>. SUFFICES ASSUME TypeOK, CpuInv, ThreadInv, ForkInv, LockInv, SleepInv, [Next]_vars PROVE SleepInv'
  OBVIOUS
<1>. USE ProcTableAssumption, Init1Type DEF TypeOK, ProcState, SwitchToScheduler, slotVars, threadVars, cpuVars, lockVars, At, Runs, CpuInv, SleepInv, NoLostTick
<1>1. CASE UNCHANGED vars
  BY <1>1 DEF vars
<1>2. ASSUME NEW c \in CPU, SchedulerBack(c) PROVE SleepInv'
  BY <1>2 DEF SchedulerBack
<1>3. ASSUME NEW c \in CPU, TimerTick(c) PROVE SleepInv'
  BY <1>3 DEF TimerTick, LeftAfterTick, Interruptible, LockInv, TicksPoint, ThreadInv
<1>4. ASSUME NEW c \in CPU, TimerWakeup(c) PROVE SleepInv'
  BY <1>4 DEF TimerWakeup, Wakeup1
<1>5. ASSUME NEW c \in CPU, NEW p \in Slot, Scheduler(c, p) PROVE SleepInv'
  BY <1>5 DEF Scheduler, ThreadInv
<1>6. ASSUME NEW c \in CPU, NEW p \in Slot, Yield(c, p) PROVE SleepInv'
  BY <1>6 DEF Yield
<1>7. ASSUME NEW c \in CPU, NEW p \in Slot, Fault(c, p) PROVE SleepInv'
  BY <1>7 DEF Fault
<1>8. ASSUME NEW c \in CPU, NEW p \in Slot, ForkAlloc(c, p) PROVE SleepInv'
  <2>1. PICK np \in Slot : ForkAllocAt(p, np)
    BY <1>8, ForkAllocNamed
  <2>. QED
    BY <1>8, <2>1 DEF ForkAllocAt, ForkAlloc
<1>9. ASSUME NEW c \in CPU, NEW p \in Slot, Exit(c, p) PROVE SleepInv'
  BY <1>9 DEF Exit, Wakeup1
<1>10. ASSUME NEW c \in CPU, NEW p \in Slot, WaitReap(c, p) PROVE SleepInv'
  <2>1. PICK z \in Slot : WaitReapAt(p, z)
    BY <1>10, WaitReapNamed
  <2>. QED
    BY <1>10, <2>1 DEF WaitReapAt, WaitReap
<1>11. ASSUME NEW c \in CPU, NEW p \in Slot, WaitNothing(c, p) PROVE SleepInv'
  BY <1>11 DEF WaitNothing, AtWaitScan
<1>12. ASSUME NEW c \in CPU, NEW p \in Slot, WaitSleep(c, p) PROVE SleepInv'
  BY <1>12 DEF WaitSleep, AtWaitScan, ThreadInv
<1>13. ASSUME NEW c \in CPU, NEW p \in Slot, NEW k \in KillPid, Kill(c, p, k)
       PROVE SleepInv'
  BY <1>13 DEF Kill, StateAfterKill
<1>14. ASSUME NEW c \in CPU, NEW p \in Slot, NEW n \in 0 .. MaxSleep, SleepEnter(c, p, n)
       PROVE SleepInv'
  BY <1>14 DEF SleepEnter
<1>15. ASSUME NEW c \in CPU, NEW p \in Slot, Forkret(c, p) PROVE SleepInv'
  BY <1>15 DEF Forkret
<1>16. ASSUME NEW c \in CPU, NEW p \in Slot, YieldReturn(c, p) PROVE SleepInv'
  BY <1>16 DEF YieldReturn
<1>17. ASSUME NEW c \in CPU, NEW p \in Slot, ForkRunnable(c, p) PROVE SleepInv'
  BY <1>17 DEF ForkRunnable, ForkInv
<1>18. ASSUME NEW c \in CPU, NEW p \in Slot, ForkReadTicks(c, p) PROVE SleepInv'
  BY <1>18 DEF ForkReadTicks
<1>19. ASSUME NEW c \in CPU, NEW p \in Slot, SleepReturn(c, p) PROVE SleepInv'
  BY <1>19 DEF SleepReturn
<1>20. ASSUME NEW c \in CPU, NEW p \in Slot, SleepTest(c, p) PROVE SleepInv'
  BY <1>20 DEF SleepTest
<1>21. ASSUME NEW c \in CPU, NEW p \in Slot, SleepBlock(c, p) PROVE SleepInv'
  BY <1>21 DEF SleepBlock
<1>22. ASSUME NEW c \in CPU, NEW p \in Slot, SleepWoken(c, p) PROVE SleepInv'
  BY <1>22 DEF SleepWoken
<1>23. ASSUME NEW c \in CPU, NEW p \in Slot, SleepReacquire(c, p)
       PROVE SleepInv'
  BY <1>23 DEF SleepReacquire
<1>24. ASSUME NEW c \in CPU, NEW p \in Slot, ForkFail(c, p) PROVE SleepInv'
  <2>1. PICK e \in Slot : ForkFailAt(p, e)
    BY <1>24, ForkFailNamed
  <2>. QED
    BY <1>24, <2>1 DEF ForkFailAt, ForkFail
<1>. QED
  BY <1>1, <1>2, <1>3, <1>4, <1>5, <1>6, <1>7, <1>8, <1>9, <1>10, <1>11, <1>12, <1>13, <1>14, <1>15, <1>16, <1>17, <1>18, <1>19, <1>20, <1>21, <1>22, <1>23, <1>24
  DEF Next, SystemCall, KernelStep

-----------------------------------------------------------------------------
(* The theorems.                                                           *)

IInv ==
  CpuInv /\ ThreadInv /\ ForkInv /\ LockInv /\ PidInv /\ FamilyInv /\ WaitInv /\ SleepInv

\* The conjunction is inductive, and so it holds in every reachable state.
LEMMA Invariance == Spec => [](TypeOK /\ IInv)
<1>1. Init => TypeOK /\ IInv
  <2>. SUFFICES ASSUME Init PROVE TypeOK /\ IInv
    OBVIOUS
  <2>. USE ProcTableAssumption, Init1Type DEF Init
  <2>1. TypeOK
    BY DEF TypeOK, ProcState, KernelPoint, Slot
  <2>2. CpuInv /\ ThreadInv /\ ForkInv
    BY DEF CpuInv, ThreadInv, ForkInv, Runs
  <2>3. LockInv
    BY DEF LockInv, LockHandoff, LockPoint, TicksPoint, Runs
  <2>4. PidInv /\ FamilyInv
    BY DEF PidInv, FamilyInv, Live
  <2>5. WaitInv /\ SleepInv
    BY DEF WaitInv, SleepInv, NoLostTick
  <2>. QED
    BY <2>1, <2>2, <2>3, <2>4, <2>5 DEF IInv
<1>2. TypeOK /\ IInv /\ [Next]_vars => IInv'
  BY CpuStep, ThreadStep, ForkStep, LockStep, PidStep, FamilyStep, WaitStep, SleepStep
  DEF IInv, LockInv
<1>. QED
  BY <1>1, <1>2, TypeCorrect, PTL DEF Spec

\* Both locks are handed from thread to thread without loss: whoever reaches
\* swtch() holds ptable.lock and nothing else.
THEOREM LocksCorrect == Spec => [](LockHandoff /\ SchedLocks)
<1>1. IInv => LockHandoff
  BY DEF IInv, LockInv
<1>2. TypeOK /\ IInv => SchedLocks
  <2>. SUFFICES ASSUME TypeOK, IInv, NEW c \in CPU, spc[c] = "back"
                PROVE  ptlock = c /\ tickslock # c
    BY DEF SchedLocks
  <2>1. ptlock = c
    BY DEF IInv, LockInv, LockHandoff, LockPoint
  <2>2. ~TicksPoint(c)
    BY DEF IInv, LockInv, TicksPoint, Runs, Open
  <2>. QED
    BY <2>1, <2>2 DEF IInv, LockInv
<1>. QED
  BY <1>1, <1>2, Invariance, PTL

\* No two CPUs ever run on the same kernel stack.
THEOREM StacksCorrect == Spec => []OneCpuPerStack
<1>1. TypeOK /\ IInv => OneCpuPerStack
  BY ProcTableAssumption DEF TypeOK, IInv, CpuInv, OneCpuPerStack, Runs
<1>. QED
  BY <1>1, Invariance, PTL

\* fork() owns the EMBRYO it fills in outside of the lock.
THEOREM EmbryosCorrect == Spec => []EmbryoOwned
<1>1. IInv => EmbryoOwned
  BY DEF IInv, ForkInv, EmbryoOwned
<1>. QED
  BY <1>1, Invariance, PTL

\* No two processes have the same pid.
THEOREM PidsCorrect == Spec => []PidUnique
<1>1. IInv => PidUnique
  BY DEF IInv, PidInv, PidUnique
<1>. QED
  BY <1>1, Invariance, PTL

\* Every process has a parent that can still wait for it.
THEOREM ParentsCorrect == Spec => []ParentAlive
<1>1. IInv => ParentAlive
  BY ProcTableAssumption DEF IInv, FamilyInv, ParentAlive, Live
<1>. QED
  BY <1>1, Invariance, PTL

\* wait() loses no exit and no kill, and sys_sleep() loses no tick.
THEOREM SleepersCorrect == Spec => []NoLostWakeup
<1>1. IInv => NoLostWakeup
  BY DEF IInv, WaitInv, SleepInv, NoLostExit, NoLostWakeup
<1>. QED
  BY <1>1, Invariance, PTL

\* Every step moves every slot along an edge of LegalEdge.
LEMMA LegalStep ==
  TypeOK /\ IInv /\ [Next]_vars => LegalEdge
<1>. SUFFICES ASSUME TypeOK, IInv, [Next]_vars PROVE LegalEdge
  OBVIOUS
<1>. USE ProcTableAssumption DEF SwitchToScheduler, slotVars, threadVars, cpuVars, lockVars, At, Runs, IInv, CpuInv, LegalEdge, TypeOK
<1>1. CASE UNCHANGED vars
  BY <1>1 DEF vars
<1>2. ASSUME NEW c \in CPU, SchedulerBack(c) PROVE LegalEdge
  BY <1>2 DEF SchedulerBack
<1>3. ASSUME NEW c \in CPU, TimerTick(c) PROVE LegalEdge
  BY <1>3 DEF TimerTick
<1>4. ASSUME NEW c \in CPU, TimerWakeup(c) PROVE LegalEdge
  BY <1>4 DEF TimerWakeup, Wakeup1
<1>5. ASSUME NEW c \in CPU, NEW p \in Slot, Scheduler(c, p) PROVE LegalEdge
  BY <1>5 DEF Scheduler
<1>6. ASSUME NEW c \in CPU, NEW p \in Slot, Yield(c, p) PROVE LegalEdge
  BY <1>6 DEF Yield
<1>7. ASSUME NEW c \in CPU, NEW p \in Slot, Fault(c, p) PROVE LegalEdge
  BY <1>7 DEF Fault
<1>8. ASSUME NEW c \in CPU, NEW p \in Slot, ForkAlloc(c, p) PROVE LegalEdge
  <2>1. PICK np \in Slot : ForkAllocAt(p, np)
    BY <1>8, ForkAllocNamed
  <2>. QED
    BY <2>1 DEF ForkAllocAt
<1>9. ASSUME NEW c \in CPU, NEW p \in Slot, Exit(c, p) PROVE LegalEdge
  BY <1>9 DEF Exit, Wakeup1
<1>10. ASSUME NEW c \in CPU, NEW p \in Slot, WaitReap(c, p) PROVE LegalEdge
  <2>1. PICK z \in Slot : WaitReapAt(p, z)
    BY <1>10, WaitReapNamed
  <2>. QED
    BY <2>1 DEF WaitReapAt
<1>11. ASSUME NEW c \in CPU, NEW p \in Slot, WaitNothing(c, p) PROVE LegalEdge
  BY <1>11 DEF WaitNothing, AtWaitScan
<1>12. ASSUME NEW c \in CPU, NEW p \in Slot, WaitSleep(c, p) PROVE LegalEdge
  BY <1>12 DEF WaitSleep, AtWaitScan
<1>13. ASSUME NEW c \in CPU, NEW p \in Slot, NEW k \in KillPid, Kill(c, p, k)
       PROVE LegalEdge
  BY <1>13 DEF Kill, StateAfterKill
<1>14. ASSUME NEW c \in CPU, NEW p \in Slot, NEW n \in 0 .. MaxSleep, SleepEnter(c, p, n)
       PROVE LegalEdge
  BY <1>14 DEF SleepEnter
<1>15. ASSUME NEW c \in CPU, NEW p \in Slot, Forkret(c, p) PROVE LegalEdge
  BY <1>15 DEF Forkret
<1>16. ASSUME NEW c \in CPU, NEW p \in Slot, YieldReturn(c, p) PROVE LegalEdge
  BY <1>16 DEF YieldReturn
<1>17. ASSUME NEW c \in CPU, NEW p \in Slot, ForkRunnable(c, p) PROVE LegalEdge
  BY <1>17 DEF ForkRunnable, ForkInv
<1>18. ASSUME NEW c \in CPU, NEW p \in Slot, ForkReadTicks(c, p) PROVE LegalEdge
  BY <1>18 DEF ForkReadTicks
<1>19. ASSUME NEW c \in CPU, NEW p \in Slot, SleepReturn(c, p) PROVE LegalEdge
  BY <1>19 DEF SleepReturn
<1>20. ASSUME NEW c \in CPU, NEW p \in Slot, SleepTest(c, p) PROVE LegalEdge
  BY <1>20 DEF SleepTest
<1>21. ASSUME NEW c \in CPU, NEW p \in Slot, SleepBlock(c, p) PROVE LegalEdge
  BY <1>21 DEF SleepBlock
<1>22. ASSUME NEW c \in CPU, NEW p \in Slot, SleepWoken(c, p) PROVE LegalEdge
  BY <1>22 DEF SleepWoken
<1>23. ASSUME NEW c \in CPU, NEW p \in Slot, SleepReacquire(c, p) PROVE LegalEdge
  BY <1>23 DEF SleepReacquire
<1>24. ASSUME NEW c \in CPU, NEW p \in Slot, ForkFail(c, p) PROVE LegalEdge
  <2>1. PICK e \in Slot : ForkFailAt(p, e)
    BY <1>24, ForkFailNamed
  <2>. QED
    BY <2>1 DEF ForkFailAt
<1>. QED
  BY <1>1, <1>2, <1>3, <1>4, <1>5, <1>6, <1>7, <1>8, <1>9, <1>10, <1>11, <1>12, <1>13, <1>14, <1>15, <1>16, <1>17, <1>18, <1>19, <1>20, <1>21, <1>22, <1>23, <1>24
  DEF Next, SystemCall, KernelStep

\* A process that ran is a ZOMBIE before its slot is free again, and a ZOMBIE
\* does not run again.
THEOREM TransitionsCorrect == Spec => LegalTransition
<1>1. TypeOK /\ IInv /\ [Next]_vars => [LegalEdge]_vars
  BY LegalStep
<1>. QED
  BY <1>1, Invariance, PTL DEF Spec, LegalTransition
=============================================================================
