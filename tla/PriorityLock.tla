----------------------------- MODULE PriorityLock ----------------------------
(***************************************************************************)
(* The priority lock of Lab 5 (prioritylock.c), as the system call         *)
(* testpriority uses it: a process acquires the lock, runs its critical    *)
(* section and releases it.                                                *)
(*                                                                         *)
(* A step is one critical section of the spin lock lk->lk: from acquire()  *)
(* to release() or to the sleep() that gives it up.  A sleeping process is *)
(* woken by the wakeup() of a release and by kill(), and then looks at the *)
(* lock again in a step of its own.                                        *)
(***************************************************************************)
EXTENDS Naturals, FiniteSets

CONSTANTS Pid,     \* the pids of the processes that use the lock
          NPROC    \* the length of the queue, and the most processes there are

ASSUME PriorityLockAssumption ==
  /\ Pid \subseteq Nat \ {0}
  /\ IsFiniteSet(Pid)
  /\ NPROC \in Nat \ {0}
  /\ Cardinality(Pid) <= NPROC

Index == 0 .. NPROC - 1

VARIABLES locked,   \* lk->locked
          pid,      \* lk->pid
          queue,    \* lk->queue, an array whose first 0 ends the queue
          pc        \* where each process stands

vars == <<locked, pid, queue, pc>>

\* The pids in the queue.
Queued == {queue[i] : i \in Index} \ {0}

\* The queue is kept with distinct pids, the highest first, and then zeros.
TypeOK ==
  /\ locked \in BOOLEAN
  /\ pid \in Pid \cup {0}
  /\ queue \in [Index -> Pid \cup {0}]
  /\ pc \in [Pid -> {"idle", "asleep", "awake", "critical"}]
  /\ \A i, j \in Index : i < j /\ queue[j] # 0 => queue[j] < queue[i]

\* init_prioritylock()
Init ==
  /\ locked = FALSE /\ pid = 0
  /\ queue = [i \in Index |-> 0]
  /\ pc = [p \in Pid |-> "idle"]

-----------------------------------------------------------------------------
(* The queue.                                                              *)

IsEmpty == queue[0] = 0

\* Mutant of Dequeued: the head stays in the queue.
MutDequeued == queue

\* dequeue() moves the elements up to the first zero one place to the front;
\* the last place of the array keeps its value.
Dequeued ==
  [i \in Index |-> IF i < NPROC - 1 /\ \A j \in 0 .. i : queue[j] # 0
                   THEN queue[i + 1] ELSE queue[i]]

\* Mutant of Place: the comparison is turned around.
MutPlace(p, k) ==
  /\ k \in Index
  /\ \/ queue[k] >= p /\ \A i \in 0 .. k - 1 : queue[i] < p
     \/ k = 0 /\ \A i \in Index : queue[i] < p

\* The index enqueue() inserts p at: the first place not above p, or 0.
Place(p, k) ==
  /\ k \in Index
  /\ \/ queue[k] <= p /\ \A i \in 0 .. k - 1 : queue[i] > p
     \/ k = 0 /\ \A i \in Index : queue[i] > p

\* insert()
Inserted(p, k) ==
  [i \in Index |-> IF i < k THEN queue[i] ELSE IF i = k THEN p ELSE queue[i - 1]]

\* acquire_priority() enqueues p, unless it is in the queue already.
Enqueue(p) ==
  IF p \in Queued THEN UNCHANGED queue
  ELSE \E k \in Index : Place(p, k) /\ queue' = Inserted(p, k)

-----------------------------------------------------------------------------
\* acquire_priority(): free, with nobody waiting.
AcquireFree(p) ==
  /\ pc[p] = "idle"
  /\ IsEmpty /\ ~locked
  /\ locked' = TRUE /\ pid' = p
  /\ pc' = [pc EXCEPT ![p] = "critical"]
  /\ UNCHANGED queue

\* The condition of the while loop of acquire_priority().
MustWait(p) == locked /\ pid # p

\* acquire_priority(): into the queue, and to sleep if the loop says so.
AcquireQueued(p) ==
  /\ pc[p] = "idle"
  /\ ~(IsEmpty /\ ~locked)
  /\ Enqueue(p)
  /\ pc' = [pc EXCEPT ![p] = IF MustWait(p) THEN "asleep" ELSE "critical"]
  /\ UNCHANGED <<locked, pid>>

\* Mutant of Recheck: the while loop is an if, a wakeup counts as the lock.
MutRecheck(p) ==
  /\ pc[p] = "awake"
  /\ pc' = [pc EXCEPT ![p] = "critical"]
  /\ UNCHANGED <<locked, pid, queue>>

\* Back from sleep(), the condition is looked at again.
Recheck(p) ==
  /\ pc[p] = "awake"
  /\ pc' = [pc EXCEPT ![p] = IF MustWait(p) THEN "asleep" ELSE "critical"]
  /\ UNCHANGED <<locked, pid, queue>>

\* Mutant of Woken: only one sleeper is woken, the lowest.
MutWoken(p) ==
  [q \in Pid |-> IF q = p THEN "idle"
                 ELSE IF pc[q] = "asleep" /\ \A r \in Pid : pc[r] = "asleep" => q <= r
                      THEN "awake" ELSE pc[q]]

\* wakeup(lk) wakes every sleeper; p leaves its critical section.
Woken(p) ==
  [q \in Pid |-> IF q = p THEN "idle" ELSE IF pc[q] = "asleep" THEN "awake" ELSE pc[q]]

\* release_priority(): free the lock, or hand it to the head of the queue.
ReleaseFree(p) ==
  /\ pc[p] = "critical"
  /\ IsEmpty
  /\ locked' = FALSE /\ pid' = 0
  /\ pc' = Woken(p)
  /\ UNCHANGED queue

ReleasePass(p) ==
  /\ pc[p] = "critical"
  /\ ~IsEmpty
  /\ locked' = TRUE /\ pid' = queue[0]
  /\ queue' = Dequeued
  /\ pc' = Woken(p)

\* kill() makes a sleeper runnable; acquire_priority() does not look at killed.
Kill(p) ==
  /\ pc[p] = "asleep"
  /\ pc' = [pc EXCEPT ![p] = "awake"]
  /\ UNCHANGED <<locked, pid, queue>>

Acquire(p) == AcquireFree(p) \/ AcquireQueued(p)
Release(p) == ReleaseFree(p) \/ ReleasePass(p)

Next == \E p \in Pid : Acquire(p) \/ Recheck(p) \/ Release(p) \/ Kill(p)

Spec == Init /\ [][Next]_vars

\* A woken process is scheduled, and a critical section ends.
FairSpec == Spec /\ \A p \in Pid : WF_vars(Recheck(p)) /\ WF_vars(Release(p))

-----------------------------------------------------------------------------
\* Whoever is past acquire_priority() is the process in lk->pid, so no two are.
MutualExclusion == \A p \in Pid : pc[p] = "critical" => locked /\ pid = p

\* The queue holds exactly the processes in acquire_priority() that have not
\* been given the lock: none is forgotten, none is left over, and the array
\* is never full.
QueueIsWaiters ==
  /\ Queued = {p \in Pid : pc[p] \in {"asleep", "awake"} /\ pid # p}
  /\ queue[NPROC - 1] = 0

\* The process the lock was handed to is never asleep, and the lock is never
\* free with processes waiting: no wakeup is lost.
NoLostHandoff ==
  /\ locked => pid \in Pid /\ pc[pid] \in {"awake", "critical"}
  /\ ~locked => IsEmpty /\ pid = 0

\* A refinement: the lock goes to the highest waiting pid in the step that
\* releases it, and nobody can slip in between.
Mutex == INSTANCE PriorityMutex WITH owner <- pid, waiting <- Queued

ImplementsMutex == Mutex!Spec

Waits(p) == pc[p] \in {"asleep", "awake"}

\* A process is served once the processes with higher pids leave the lock
\* alone; the one with the highest pid always is.
Served ==
  \A p \in Pid :
    (\A q \in Pid : q > p => <>[](pc[q] = "idle")) => (Waits(p) ~> pc[p] = "critical")
=============================================================================
