-------------------------------- MODULE Mlfq ---------------------------------
(***************************************************************************)
(* The scheduling policy of the Lab 3 kernel (proc.c): three queues, each  *)
(* with its own rule, per-CPU round-robin cursors, and the aging pass of   *)
(* the timer interrupt, which lets go of ptable.lock before every          *)
(* promotion.                                                              *)
(*                                                                         *)
(* Each step is one critical section of ptable.lock, which ProcTable shows *)
(* to be handed over soundly.  A process here is UNUSED, RUNNABLE,         *)
(* RUNNING or SLEEPING: an EMBRYO and a ZOMBIE are as good as UNUSED to    *)
(* the policy.                                                             *)
(***************************************************************************)
EXTENDS Integers

CONSTANTS
  NPROC,            \* number of slots of ptable.proc
  CPU,              \* the CPUs
  BootCPU,          \* the CPU that counts ticks and runs the aging pass
  AGING_THRESHOLD,  \* ticks a process waits before it is promoted
  MaxClock,         \* bound on start times
  MaxRank,          \* bound on the rank of a BJF process
  MaxChange,        \* bound on the calls of the tuning system calls
  None              \* no process

Slot == 0 .. NPROC - 1

ASSUME MlfqAssumption ==
  /\ NPROC \in Nat \ {0}
  /\ BootCPU \in CPU
  /\ AGING_THRESHOLD \in Nat /\ MaxClock \in Nat /\ MaxRank \in Nat /\ MaxChange \in Nat
  /\ None \notin Slot

Queue == {"ROUND_ROBIN", "LCFS", "BJF"}

VARIABLES
  state, queue,  \* of each slot
  start,         \* start_time of each slot, in forks rather than ticks
  rank,          \* bjfrank() of each slot
  age,           \* ticks - last_run of each slot, up to AGING_THRESHOLD + 1
  proc,          \* c->proc of each CPU
  prev,          \* the local variable prev of scheduler() on each CPU
  pass,          \* the progress of the timer interrupt on BootCPU
  pos,           \* p, the loop variable of ageprocs()
  target,        \* whose pid ageprocs() has read, or None if it is gone
  clock,         \* the start time a process forked now would get
  changes        \* calls of the tuning system calls so far

slotVars == <<state, queue, start, rank, age>>
agingVars == <<pass, pos, target>>
vars == <<slotVars, proc, prev, agingVars, clock, changes>>

TypeOK ==
  /\ state \in [Slot -> {"UNUSED", "RUNNABLE", "RUNNING", "SLEEPING"}]
  /\ queue \in [Slot -> Queue]
  /\ start \in [Slot -> 0 .. MaxClock]
  /\ rank \in [Slot -> 0 .. MaxRank]
  /\ age \in [Slot -> 0 .. AGING_THRESHOLD + 1]
  /\ proc \in [CPU -> Slot \cup {None}]
  /\ prev \in [CPU -> Slot]
  /\ pass \in {"off", "scan", "read", "set", "yield"}
  /\ pos \in 0 .. NPROC /\ (pass \in {"read", "set"} => pos \in Slot)
  /\ target \in Slot \cup {None}
  /\ clock \in 0 .. MaxClock
  /\ changes \in 0 .. MaxChange

\* The first process is runnable; its start time is never set.
Init ==
  /\ state = [i \in Slot |-> IF i = 0 THEN "RUNNABLE" ELSE "UNUSED"]
  /\ queue = [i \in Slot |-> "ROUND_ROBIN"]
  /\ start = [i \in Slot |-> 0]
  /\ rank = [i \in Slot |-> 0]
  /\ age = [i \in Slot |-> 0]
  /\ proc = [c \in CPU |-> None]
  /\ prev = [c \in CPU |-> NPROC - 1]
  /\ pass = "off" /\ pos = 0 /\ target = None
  /\ clock = 0 /\ changes = 0

-----------------------------------------------------------------------------
(* The three finders.                                                      *)

Waiting(q) == {i \in Slot : state[i] = "RUNNABLE" /\ queue[i] = q}

\* How many steps p++, wrapping at the end of the table, lead from i to j.
Dist(i, j) == IF j > i THEN j - i ELSE j - i + NPROC

\* Mutant of RoundRobin: the scan starts at the head of the table.
MutRoundRobin(last, p) ==
  /\ p \in Waiting("ROUND_ROBIN")
  /\ \A q \in Waiting("ROUND_ROBIN") : p <= q

\* roundrobin(): the first one after the last one scheduled, which comes last.
RoundRobin(last, p) ==
  /\ p \in Waiting("ROUND_ROBIN")
  /\ \A q \in Waiting("ROUND_ROBIN") : Dist(last, p) <= Dist(last, q)

\* lcfs_finder(): the latest start time above 0, in the lowest slot.
Lcfs(p) ==
  /\ p \in Waiting("LCFS") /\ start[p] > 0
  /\ \A q \in Waiting("LCFS") :
       start[q] < start[p] \/ (start[q] = start[p] /\ p <= q)

\* bestjobfirst(): the least rank, in the lowest slot.
BestJobFirst(p) ==
  /\ p \in Waiting("BJF")
  /\ \A q \in Waiting("BJF") : rank[p] < rank[q] \/ (rank[p] = rank[q] /\ p <= q)

\* What one iteration of scheduler() on c settles on.
Chosen(c, p) ==
  \/ RoundRobin(prev[c], p)
  \/ Waiting("ROUND_ROBIN") = {} /\ Lcfs(p)
  \/ /\ Waiting("ROUND_ROBIN") = {} /\ \A q \in Slot : ~Lcfs(q)
     /\ BestJobFirst(p)

-----------------------------------------------------------------------------
InTick(c) == c = BootCPU /\ pass # "off"

\* scheduler(): prev moves only for a round-robin process, and the
\* executed_cycle in the rank goes up.
Schedule(c, p) ==
  /\ proc[c] = None /\ ~InTick(c)
  /\ Chosen(c, p)
  /\ proc' = [proc EXCEPT ![c] = p]
  /\ prev' = [prev EXCEPT ![c] = IF queue[p] = "ROUND_ROBIN" THEN p ELSE prev[c]]
  /\ state' = [state EXCEPT ![p] = "RUNNING"]
  /\ age' = [age EXCEPT ![p] = 0]
  /\ rank' = [rank EXCEPT ![p] = IF rank[p] < MaxRank THEN rank[p] + 1 ELSE rank[p]]
  /\ UNCHANGED <<queue, start, agingVars, clock, changes>>

\* Runs(c, p): c executes p, outside of the timer interrupt.
Runs(c, p) == proc[c] = p /\ ~InTick(c)

\* c goes back to its scheduler, and its process to state s.
Leave(c, p, s) ==
  /\ state' = [state EXCEPT ![p] = s]
  /\ proc' = [proc EXCEPT ![c] = None]

\* The timer interrupt of c ends in yield(); on BootCPU, after the aging pass.
Yield(c, p) ==
  /\ proc[c] = p
  /\ c = BootCPU => pass = "yield"
  /\ Leave(c, p, "RUNNABLE")
  /\ pass' = IF c = BootCPU THEN "off" ELSE pass
  /\ UNCHANGED <<queue, start, rank, age, prev, pos, target, clock, changes>>

Sleep(c, p) ==
  /\ Runs(c, p)
  /\ Leave(c, p, "SLEEPING")
  /\ UNCHANGED <<queue, start, rank, age, prev, agingVars, clock, changes>>

Wakeup(p) ==
  /\ state[p] = "SLEEPING"
  /\ state' = [state EXCEPT ![p] = "RUNNABLE"]
  /\ UNCHANGED <<queue, start, rank, age, proc, prev, agingVars, clock, changes>>

\* exit(), and the parent's wait(): the pid is gone.
Exit(c, p) ==
  /\ Runs(c, p) /\ p # 0
  /\ Leave(c, p, "UNUSED")
  /\ target' = IF target = p THEN None ELSE target
  /\ UNCHANGED <<queue, start, rank, age, prev, pass, pos, clock, changes>>

\* allocproc() and fork(): the first free slot, in the LCFS queue; the rank
\* starts from the arrival time and what the slot's last owner executed.
Fork(c, p, np, r, t) ==
  /\ Runs(c, p)
  /\ state[np] = "UNUSED" /\ \A i \in Slot : state[i] = "UNUSED" => np <= i
  /\ state' = [state EXCEPT ![np] = "RUNNABLE"]
  /\ queue' = [queue EXCEPT ![np] = "LCFS"]
  /\ start' = [start EXCEPT ![np] = t]
  /\ rank' = [rank EXCEPT ![np] = r]
  /\ age' = [age EXCEPT ![np] = 0]
  /\ t \in clock .. MaxClock /\ clock' = t
  /\ UNCHANGED <<proc, prev, agingVars, changes>>

\* The system calls change_scheduling_queue, set_bjf_params_proc and
\* set_bjf_params_sys, which changes the ratios of every slot at once.
ChangeQueue(c, p, i, q) ==
  /\ Runs(c, p) /\ state[i] # "UNUSED"
  /\ changes < MaxChange /\ changes' = changes + 1
  /\ queue' = [queue EXCEPT ![i] = q]
  /\ UNCHANGED <<state, start, rank, age, proc, prev, agingVars, clock>>

SetBjfParams(c, p, i, r) ==
  /\ Runs(c, p) /\ state[i] # "UNUSED"
  /\ changes < MaxChange /\ changes' = changes + 1
  /\ rank' = [rank EXCEPT ![i] = r]
  /\ UNCHANGED <<state, queue, start, age, proc, prev, agingVars, clock>>

SetBjfParamsSys(c, p, ranks) ==
  /\ Runs(c, p)
  /\ changes < MaxChange /\ changes' = changes + 1
  /\ rank' = ranks
  /\ UNCHANGED <<state, queue, start, age, proc, prev, agingVars, clock>>

-----------------------------------------------------------------------------
(* The timer interrupt of BootCPU: ticks++ and ageprocs().                 *)

\* ticks - last_run, which matters only up to the threshold.
AgeAfterTick ==
  [i \in Slot |-> IF age[i] > AGING_THRESHOLD THEN age[i] ELSE age[i] + 1]

Tick ==
  /\ pass = "off"
  /\ pass' = "scan" /\ pos' = 0
  /\ age' = AgeAfterTick
  /\ UNCHANGED <<state, queue, start, rank, proc, prev, target, clock, changes>>

\* Mutant of Starved: only the second queue ages.
MutStarved(i) ==
  state[i] = "RUNNABLE" /\ queue[i] = "LCFS" /\ age[i] > AGING_THRESHOLD

Starved(i) ==
  state[i] = "RUNNABLE" /\ queue[i] # "ROUND_ROBIN" /\ age[i] > AGING_THRESHOLD

\* With ptable.lock held: on to the next starved process, or to the end.
AgeScan ==
  /\ pass = "scan"
  /\ \/ \E i \in Slot :
          /\ i >= pos /\ Starved(i)
          /\ \A j \in Slot : j >= pos /\ Starved(j) => i <= j
          /\ pos' = i /\ pass' = "read"
     \/ /\ \A i \in Slot : i >= pos => ~Starved(i)
        /\ pos' = 0
        /\ pass' = IF proc[BootCPU] = None THEN "off" ELSE "yield"
  /\ UNCHANGED <<slotVars, proc, prev, target, clock, changes>>

\* Mutant of AgeRead: p++ comes before the promotion.
MutAgeRead ==
  /\ pass = "read"
  /\ target' = IF state[pos] = "UNUSED" THEN None ELSE pos
  /\ pass' = "set" /\ pos' = pos + 1
  /\ UNCHANGED <<slotVars, proc, prev, clock, changes>>

\* Without ptable.lock: p->pid, which is 0 in a slot that was given back.
AgeRead ==
  /\ pass = "read"
  /\ target' = IF state[pos] = "UNUSED" THEN None ELSE pos
  /\ pass' = "set"
  /\ UNCHANGED <<slotVars, proc, prev, pos, clock, changes>>

\* change_scheduling_queue(pid, ROUND_ROBIN), and p++.  The queue of an
\* UNUSED slot, which pid 0 finds, is set anew by allocproc().
AgePromote ==
  /\ pass = "set"
  /\ queue' = IF target = None THEN queue
              ELSE [queue EXCEPT ![target] = "ROUND_ROBIN"]
  /\ target' = None
  /\ pass' = "scan" /\ pos' = pos + 1
  /\ UNCHANGED <<state, start, rank, age, proc, prev, clock, changes>>

Process(c, p) ==
  \/ Sleep(c, p) \/ Exit(c, p)
  \/ \E np \in Slot, r \in 0 .. MaxRank, t \in 0 .. MaxClock : Fork(c, p, np, r, t)
  \/ \E i \in Slot, q \in Queue : ChangeQueue(c, p, i, q)
  \/ \E i \in Slot, r \in 0 .. MaxRank : SetBjfParams(c, p, i, r)
  \/ \E ranks \in [Slot -> 0 .. MaxRank] : SetBjfParamsSys(c, p, ranks)

Next ==
  \/ Tick \/ AgeScan \/ AgeRead \/ AgePromote
  \/ \E p \in Slot :
       \/ Wakeup(p)
       \/ \E c \in CPU : Schedule(c, p) \/ Yield(c, p) \/ Process(c, p)

Spec == Init /\ [][Next]_vars

\* The timer ticks on, its handler finishes, every CPU gets its timer
\* interrupt, and an idle CPU gets through an iteration of scheduler()
\* between two ticks.
FairSpec ==
  /\ Spec
  /\ WF_vars(Tick) /\ WF_vars(AgeScan) /\ WF_vars(AgeRead \/ AgePromote)
  /\ \A c \in CPU :
       /\ SF_vars(\E p \in Slot : Schedule(c, p))
       /\ WF_vars(\E p \in Slot : Yield(c, p))

-----------------------------------------------------------------------------
\* A CPU's round-robin cursor never passes over a runnable process of the
\* first queue: whatever it schedules, it comes closer to everyone it leaves
\* waiting.  With NPROC - 1 steps at most, every CPU gets to everyone.
RoundRobinProgress ==
  [][\A c \in CPU, p \in Slot :
       /\ prev'[c] # prev[c]
       /\ p \in Waiting("ROUND_ROBIN") /\ p \in Waiting("ROUND_ROBIN")'
       => Dist(prev'[c], p) < Dist(prev[c], p)]_vars

\* Aging and the round-robin order together let nobody starve, in whichever
\* queue, with whichever start time or rank.
NoStarvation == \A p \in Slot : state[p] = "RUNNABLE" ~> state[p] # "RUNNABLE"
=============================================================================
