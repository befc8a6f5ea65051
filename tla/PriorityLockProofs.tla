-------------------------- MODULE PriorityLockProofs --------------------------
(***************************************************************************)
(* Proofs about PriorityLock, for every finite set of pids that fits in    *)
(* the queue: mutual exclusion, the queue never full, no lost handoff, and *)
(* the refinement of PriorityMutex.                                        *)
(***************************************************************************)
EXTENDS PriorityLock, FiniteSetTheorems, TLAPS

IInv == TypeOK /\ MutualExclusion /\ QueueIsWaiters /\ NoLostHandoff

\* The indices of the array are the naturals up to NPROC - 1.
LEMMA IndexFacts ==
  /\ 0 \in Index /\ NPROC - 1 \in Index
  /\ \A i \in Index : i \in Nat /\ i <= NPROC - 1
  /\ \A i \in Nat : i <= NPROC - 1 => i \in Index
BY PriorityLockAssumption DEF Index

\* A pid is never 0, the mark of an empty place.
LEMMA PidFacts == \A p \in Pid : p \in Nat /\ p > 0
BY PriorityLockAssumption

\* The entries of the queue are naturals, and in order up to the first zero.
LEMMA QueueFacts ==
  ASSUME TypeOK
  PROVE  /\ \A i \in Index : queue[i] \in Nat /\ queue[i] \in Pid \cup {0}
         /\ \A i, j \in Index : i < j /\ queue[j] # 0 => queue[j] < queue[i]
         /\ \A i, j \in Index : i <= j => queue[j] <= queue[i]
<1>1. \A i \in Index : queue[i] \in Pid \cup {0}
  BY DEF TypeOK
<1>2. \A i \in Index : queue[i] \in Nat
  BY <1>1, PidFacts
<1>3. \A i, j \in Index : i < j /\ queue[j] # 0 => queue[j] < queue[i]
  BY DEF TypeOK
<1>4. \A i, j \in Index : i <= j => queue[j] <= queue[i]
  BY <1>2, <1>3, IndexFacts
<1>. QED
  BY <1>1, <1>2, <1>3, <1>4

\* The owner of the lock does not stand in the queue, and so the last place of
\* the array is free: the others are at most NPROC - 1.
LEMMA NotFull ==
  ASSUME TypeOK, pid \in Pid, pid \notin Queued
  PROVE  queue[NPROC - 1] = 0
<1>. SUFFICES ASSUME queue[NPROC - 1] # 0 PROVE FALSE
  OBVIOUS
<1>. USE PriorityLockAssumption, IndexFacts, PidFacts, QueueFacts
<1>1. \A i \in Index : queue[i] \in Pid \ {pid}
  <2>. SUFFICES ASSUME NEW i \in Index PROVE queue[i] \in Pid \ {pid}
    OBVIOUS
  <2>1. queue[i] # 0
    BY DEF TypeOK
  <2>. QED
    BY <2>1 DEF TypeOK, Queued
<1>2. \A i, j \in Index : queue[i] = queue[j] => i = j
  <2>. SUFFICES ASSUME NEW i \in Index, NEW j \in Index, i < j PROVE queue[i] # queue[j]
    OBVIOUS
  <2>. QED
    BY <1>1 DEF TypeOK
<1>3. queue \in Injection(Index, Pid \ {pid})
  <2>1. queue \in [Index -> Pid \ {pid}]
    BY <1>1 DEF TypeOK
  <2>. QED
    BY <2>1, <1>2 DEF Injection, IsInjective
<1>4. IsFiniteSet(Pid \ {pid}) /\ Cardinality(Pid \ {pid}) = Cardinality(Pid) - 1
  BY FS_RemoveElement
<1>5. Cardinality(Index) <= Cardinality(Pid \ {pid})
  BY <1>3, <1>4, FS_Injection
<1>6. Cardinality(Index) = NPROC
  BY FS_Interval DEF Index
<1>. QED
  BY <1>4, <1>5, <1>6, FS_CardinalityType

\* A queue whose first place is empty holds nobody.
LEMMA EmptyQueue == ASSUME TypeOK, IsEmpty PROVE Queued = {}
<1>1. \A i \in Index : queue[i] = 0
  BY IndexFacts, QueueFacts DEF IsEmpty
<1>. QED
  BY <1>1 DEF Queued

\* enqueue() adds p in its place.
LEMMA EnqueueCorrect ==
  ASSUME TypeOK, queue[NPROC - 1] = 0, NEW p \in Pid, p \notin Queued, Enqueue(p)
  PROVE  /\ queue' \in [Index -> Pid \cup {0}]
         /\ \A i, j \in Index : i < j /\ queue'[j] # 0 => queue'[j] < queue'[i]
         /\ Queued' = Queued \cup {p}
<1>. USE PriorityLockAssumption, IndexFacts, PidFacts, QueueFacts
<1>1. PICK k \in Index : Place(p, k) /\ queue' = Inserted(p, k)
  BY DEF Enqueue
<1>2. \A i \in Index : i < k => queue[i] > p
  BY <1>1 DEF Place, TypeOK
<1>3. queue[k] < p
  <2>1. queue[k] # p
    BY DEF Queued
  <2>2. queue[k] <= p
    BY <1>1 DEF Place, TypeOK
  <2>. QED
    BY <2>1, <2>2 DEF TypeOK
<1>4. \A i \in Index : queue'[i] = IF i < k THEN queue[i] ELSE IF i = k THEN p ELSE queue[i - 1]
  BY <1>1 DEF Inserted
<1>5. \A i \in Index : i > k => i - 1 \in Index /\ i - 1 >= k
  OBVIOUS
<1>6. queue' \in [Index -> Pid \cup {0}]
  BY <1>1, <1>5 DEF Inserted, TypeOK
<1>7. \A i \in Index : i >= k => queue[i] < p
  BY <1>3 DEF TypeOK
<1>8. ASSUME NEW i \in Index, NEW j \in Index, i < j, queue'[j] # 0
      PROVE  queue'[j] < queue'[i]
  <2>1. CASE j < k
    BY <2>1, <1>4, <1>8 DEF TypeOK
  <2>2. CASE j = k
    BY <2>2, <1>2, <1>4, <1>8 DEF TypeOK
  <2>3. CASE j > k /\ i < k
    <3>1. queue[j - 1] < p /\ queue[i] > p
      BY <2>3, <1>2, <1>5, <1>7
    <3>. QED
      BY <2>3, <3>1, <1>4, <1>5 DEF TypeOK
  <2>4. CASE j > k /\ i = k
    BY <2>4, <1>4, <1>5, <1>7
  <2>5. CASE j > k /\ i > k
    BY <2>5, <1>4, <1>5, <1>8 DEF TypeOK
  <2>. QED
    BY <2>1, <2>2, <2>3, <2>4, <2>5
<1>9. Queued' \subseteq Queued \cup {p}
  BY <1>4, <1>5 DEF Queued
<1>10. ASSUME NEW q \in Queued PROVE q \in Queued'
  <2>1. PICK i \in Index : queue[i] = q /\ q # 0
    BY DEF Queued
  <2>2. CASE i < k
    BY <2>1, <2>2, <1>4 DEF Queued
  <2>3. CASE i >= k
    <3>1. i # NPROC - 1 /\ i + 1 \in Index
      BY <2>1
    <3>2. queue'[i + 1] = q
      BY <2>1, <2>3, <3>1, <1>4
    <3>. QED
      BY <2>1, <3>1, <3>2 DEF Queued
  <2>. QED
    BY <2>2, <2>3
<1>11. p \in Queued'
  BY <1>4 DEF Queued
<1>. QED
  BY <1>6, <1>8, <1>9, <1>10, <1>11

\* dequeue() removes the head, which is the greatest, and nothing else.
LEMMA DequeueCorrect ==
  ASSUME TypeOK, queue[NPROC - 1] = 0, ~IsEmpty, queue' = Dequeued
  PROVE  /\ queue' \in [Index -> Pid \cup {0}]
         /\ \A i, j \in Index : i < j /\ queue'[j] # 0 => queue'[j] < queue'[i]
         /\ Queued' = Queued \ {queue[0]}
         /\ queue[0] \in Queued /\ \A q \in Queued : q <= queue[0]
         /\ queue'[NPROC - 1] = 0
<1>. USE PriorityLockAssumption, IndexFacts, PidFacts, QueueFacts
<1>1. \A i \in Index : i < NPROC - 1 => i + 1 \in Index
  OBVIOUS
<1>2. ASSUME NEW i \in Index, i < NPROC - 1 PROVE queue'[i] = queue[i + 1]
  <2>1. CASE \A j \in 0 .. i : queue[j] # 0
    BY <1>2, <2>1 DEF Dequeued
  <2>2. CASE \E j \in 0 .. i : queue[j] = 0
    <3>1. PICK j \in Index : j <= i /\ queue[j] = 0
      BY <2>2
    <3>2. queue[i] = 0 /\ queue[i + 1] = 0
      BY <3>1, <1>1, <1>2 DEF TypeOK
    <3>. QED
      BY <1>2, <2>2, <3>2 DEF Dequeued
  <2>. QED
    BY <2>1, <2>2
<1>3. queue'[NPROC - 1] = 0
  BY DEF Dequeued
<1>4. queue' \in [Index -> Pid \cup {0}]
  BY <1>1 DEF Dequeued, TypeOK
<1>5. ASSUME NEW i \in Index, NEW j \in Index, i < j, queue'[j] # 0
      PROVE  queue'[j] < queue'[i]
  <2>1. j < NPROC - 1 /\ i < NPROC - 1
    BY <1>3, <1>5
  <2>2. queue'[j] = queue[j + 1] /\ queue'[i] = queue[i + 1]
    BY <2>1, <1>2
  <2>. QED
    BY <2>1, <2>2, <1>1, <1>5 DEF TypeOK
<1>6. queue[0] \in Queued
  BY DEF Queued, IsEmpty
<1>7. \A i \in Index : i > 0 /\ queue[i] # 0 => queue[i] < queue[0]
  BY DEF TypeOK
<1>8. \A q \in Queued : q <= queue[0]
  BY <1>7 DEF Queued, TypeOK
<1>9. ASSUME NEW q \in Queued' PROVE q \in Queued \ {queue[0]}
  <2>1. PICK i \in Index : queue'[i] = q /\ q # 0
    BY DEF Queued
  <2>2. i < NPROC - 1 /\ queue[i + 1] = q
    BY <2>1, <1>2, <1>3
  <2>. QED
    BY <2>1, <2>2, <1>1, <1>7 DEF Queued, TypeOK
<1>10. ASSUME NEW q \in Queued \ {queue[0]} PROVE q \in Queued'
  <2>1. PICK i \in Index : queue[i] = q /\ q # 0 /\ i > 0
    BY DEF Queued
  <2>2. i - 1 \in Index /\ queue'[i - 1] = q
    BY <2>1, <1>2
  <2>. QED
    BY <2>1, <2>2 DEF Queued
<1>. QED
  BY <1>3, <1>4, <1>5, <1>6, <1>8, <1>9, <1>10

-----------------------------------------------------------------------------
(* One lemma per action: each preserves the invariant.                     *)

\* A waiting process is not the owner, and an owner that is not in its critical
\* section has been woken.
LEMMA OwnerFacts ==
  ASSUME IInv
  PROVE  /\ locked \in BOOLEAN /\ pid \in Pid \cup {0}
         /\ pid \notin Queued
         /\ locked <=> pid # 0
<1>1. pid \notin Queued
  BY DEF IInv, QueueIsWaiters
<1>. QED
  BY <1>1, PidFacts DEF IInv, TypeOK, NoLostHandoff

\* Taking the free lock, with nobody waiting, preserves the invariant.
LEMMA AcquireFreeStep ==
  ASSUME IInv, NEW p \in Pid, AcquireFree(p)
  PROVE  IInv'
<1>. USE PidFacts DEF IInv, AcquireFree
<1>1. Queued = {} /\ Queued' = {}
  BY EmptyQueue DEF Queued
<1>2. TypeOK'
  BY DEF TypeOK
<1>3. MutualExclusion'
  BY DEF MutualExclusion, TypeOK
<1>4. QueueIsWaiters'
  <2>1. \A q \in Pid : pc[q] \notin {"asleep", "awake"}
    BY <1>1 DEF QueueIsWaiters, NoLostHandoff
  <2>2. \A q \in Pid : pc'[q] \notin {"asleep", "awake"}
    BY <2>1 DEF TypeOK
  <2>. QED
    BY <1>1, <2>2 DEF QueueIsWaiters
<1>5. NoLostHandoff'
  BY DEF NoLostHandoff, TypeOK
<1>. QED
  BY <1>2, <1>3, <1>4, <1>5

\* A process that joins the queue: the lock is held by another.
LEMMA AcquireQueuedStep ==
  ASSUME IInv, NEW p \in Pid, AcquireQueued(p)
  PROVE  /\ IInv'
         /\ Queued' = Queued \cup {p} /\ pid \notin {0, p} /\ UNCHANGED pid
<1>. USE PidFacts DEF IInv
<1>1. locked /\ pid \in Pid /\ pid # p
  BY DEF AcquireQueued, NoLostHandoff, TypeOK
<1>2. p \notin Queued
  BY DEF AcquireQueued, QueueIsWaiters
<1>3. /\ queue' \in [Index -> Pid \cup {0}]
      /\ \A i, j \in Index : i < j /\ queue'[j] # 0 => queue'[j] < queue'[i]
      /\ Queued' = Queued \cup {p}
  BY <1>2, EnqueueCorrect DEF AcquireQueued, QueueIsWaiters
<1>4. /\ pc' = [pc EXCEPT ![p] = "asleep"]
      /\ UNCHANGED <<locked, pid>>
  BY <1>1 DEF AcquireQueued, MustWait
<1>5. TypeOK'
  BY <1>3, <1>4 DEF TypeOK
<1>6. MutualExclusion'
  BY <1>4 DEF MutualExclusion, TypeOK
<1>7. QueueIsWaiters'
  <2>1. Queued' = {q \in Pid : pc'[q] \in {"asleep", "awake"} /\ pid' # q}
    BY <1>1, <1>3, <1>4 DEF QueueIsWaiters, TypeOK
  <2>2. pid' \in Pid /\ pid' \notin Queued'
    BY <1>1, <1>4, <2>1
  <2>3. queue'[NPROC - 1] = 0
    <3>1. (TypeOK /\ pid \in Pid /\ pid \notin Queued => queue[NPROC - 1] = 0)'
      BY NotFull, PTL
    <3>. QED
      BY <3>1, <2>2, <1>5
  <2>. QED
    BY <2>1, <2>3 DEF QueueIsWaiters
<1>8. NoLostHandoff'
  BY <1>1, <1>4 DEF NoLostHandoff, TypeOK
<1>. QED
  BY <1>1, <1>3, <1>4, <1>5, <1>6, <1>7, <1>8

\* The test of the while loop preserves the invariant and moves nobody.
LEMMA RecheckStep ==
  ASSUME IInv, NEW p \in Pid, Recheck(p)
  PROVE  IInv' /\ UNCHANGED <<pid, Queued>>
<1>. USE PidFacts DEF IInv, Recheck, MustWait
<1>1. Queued' = Queued
  BY DEF Queued
<1>2. p \notin Queued => pid = p /\ locked
  BY OwnerFacts DEF QueueIsWaiters
<1>3. TypeOK'
  BY DEF TypeOK
<1>4. ~locked => p \notin Queued
  BY EmptyQueue DEF NoLostHandoff
<1>5. MutualExclusion'
  BY <1>2, <1>4 DEF MutualExclusion, TypeOK
<1>6. QueueIsWaiters'
  BY <1>1, <1>2, <1>4 DEF QueueIsWaiters, TypeOK
<1>7. NoLostHandoff'
  BY DEF NoLostHandoff, TypeOK, IsEmpty
<1>. QED
  BY <1>1, <1>3, <1>5, <1>6, <1>7

\* kill() of a sleeper preserves the invariant and moves nobody.
LEMMA KillStep ==
  ASSUME IInv, NEW p \in Pid, Kill(p)
  PROVE  IInv' /\ UNCHANGED <<pid, Queued>>
<1>. USE PidFacts DEF IInv, Kill
<1>1. Queued' = Queued
  BY DEF Queued
<1>2. TypeOK'
  BY DEF TypeOK
<1>3. MutualExclusion'
  BY DEF MutualExclusion, TypeOK
<1>4. QueueIsWaiters'
  BY <1>1 DEF QueueIsWaiters, TypeOK
<1>5. NoLostHandoff'
  BY DEF NoLostHandoff, TypeOK, IsEmpty
<1>. QED
  BY <1>1, <1>2, <1>3, <1>4, <1>5

\* A release with an empty queue finds nobody asleep.
LEMMA ReleaseFreeStep ==
  ASSUME IInv, NEW p \in Pid, ReleaseFree(p)
  PROVE  IInv' /\ pid = p /\ pid' = 0 /\ Queued = {} /\ Queued' = {}
<1>. USE PidFacts DEF IInv, ReleaseFree, Woken
<1>1. Queued = {} /\ Queued' = {}
  BY EmptyQueue DEF Queued
<1>2. pid = p
  BY DEF MutualExclusion
<1>3. TypeOK'
  BY DEF TypeOK
<1>4. \A q \in Pid : pc[q] = "idle" \/ q = p
  BY <1>1, <1>2 DEF QueueIsWaiters, MutualExclusion, TypeOK
<1>5. \A q \in Pid : pc'[q] = "idle"
  BY <1>4
<1>6. MutualExclusion'
  BY <1>5 DEF MutualExclusion
<1>7. QueueIsWaiters'
  BY <1>1, <1>5 DEF QueueIsWaiters
<1>8. NoLostHandoff'
  BY DEF NoLostHandoff, IsEmpty
<1>. QED
  BY <1>1, <1>2, <1>3, <1>6, <1>7, <1>8

\* The head of the queue becomes the owner, and nobody waits asleep.
LEMMA ReleasePassStep ==
  ASSUME IInv, NEW p \in Pid, ReleasePass(p)
  PROVE  /\ IInv'
         /\ pid = p /\ pid' \in Queued /\ \A q \in Queued : q <= pid'
         /\ Queued' = Queued \ {pid'}
<1>. USE PidFacts DEF IInv, ReleasePass
<1>1. pid = p /\ p \notin Queued
  BY DEF MutualExclusion, QueueIsWaiters
<1>2. /\ queue' \in [Index -> Pid \cup {0}]
      /\ \A i, j \in Index : i < j /\ queue'[j] # 0 => queue'[j] < queue'[i]
      /\ Queued' = Queued \ {queue[0]}
      /\ queue[0] \in Queued /\ \A q \in Queued : q <= queue[0]
      /\ queue'[NPROC - 1] = 0
  BY DequeueCorrect DEF QueueIsWaiters
<1>3. queue[0] \in Pid /\ pc[queue[0]] \in {"asleep", "awake"} /\ queue[0] # p
  BY <1>1, <1>2 DEF QueueIsWaiters
<1>4. pc' \in [Pid -> {"idle", "asleep", "awake", "critical"}]
  BY DEF Woken, TypeOK
<1>5. \A q \in Pid : pc'[q] = IF q = p THEN "idle" ELSE IF pc[q] = "asleep" THEN "awake" ELSE pc[q]
  BY DEF Woken
<1>6. TypeOK'
  BY <1>2, <1>3, <1>4 DEF TypeOK
<1>7. MutualExclusion'
  BY <1>1, <1>5 DEF MutualExclusion
<1>8. QueueIsWaiters'
  BY <1>1, <1>2, <1>3, <1>5 DEF QueueIsWaiters
<1>9. NoLostHandoff'
  BY <1>3, <1>5 DEF NoLostHandoff
<1>. QED
  BY <1>1, <1>2, <1>6, <1>7, <1>8, <1>9

\* init_prioritylock() establishes the invariant.
LEMMA Initially == Init => IInv
<1>. SUFFICES ASSUME Init PROVE IInv
  OBVIOUS
<1>. USE PidFacts, IndexFacts DEF Init
<1>1. Queued = {}
  BY DEF Queued
<1>2. TypeOK
  BY DEF TypeOK
<1>. QED
  BY <1>1, <1>2 DEF IInv, MutualExclusion, QueueIsWaiters, NoLostHandoff, IsEmpty

\* The invariant is inductive: one lemma per action, and stuttering.
LEMMA Invariance == Spec => []IInv
<1>1. IInv /\ [Next]_vars => IInv'
  <2>. SUFFICES ASSUME IInv, [Next]_vars PROVE IInv'
    OBVIOUS
  <2>1. ASSUME NEW p \in Pid, Acquire(p) PROVE IInv'
    BY <2>1, AcquireFreeStep, AcquireQueuedStep DEF Acquire
  <2>2. ASSUME NEW p \in Pid, Release(p) PROVE IInv'
    BY <2>2, ReleaseFreeStep, ReleasePassStep DEF Release
  <2>3. CASE UNCHANGED vars
    BY <2>3 DEF vars, IInv, TypeOK, MutualExclusion, QueueIsWaiters, NoLostHandoff, IsEmpty, Queued
  <2>. QED
    BY <2>1, <2>2, <2>3, RecheckStep, KillStep DEF Next
<1>. QED
  BY <1>1, Initially, PTL DEF Spec

\* The queue stays an array of distinct pids, highest first, then zeros.
THEOREM TypeCorrect == Spec => []TypeOK
BY Invariance, PTL DEF IInv

\* At most one process is past acquire_priority(): the one in lk->pid.
THEOREM ExclusionCorrect == Spec => []MutualExclusion
BY Invariance, PTL DEF IInv

\* The queue holds exactly the waiting processes, and is never full.
THEOREM QueueCorrect == Spec => []QueueIsWaiters
BY Invariance, PTL DEF IInv

\* No wakeup is lost: the process the lock is handed to is awake.
THEOREM HandoffCorrect == Spec => []NoLostHandoff
BY Invariance, PTL DEF IInv

\* prioritylock.c implements PriorityMutex: a release passes the lock to the
\* highest waiting pid in the same step.
THEOREM Refinement == Spec => ImplementsMutex
<1>1. Init => Mutex!Init
  BY IndexFacts DEF Init, Mutex!Init, Queued
<1>2. IInv /\ [Next]_vars => [Mutex!Next]_Mutex!vars
  <2>. SUFFICES ASSUME IInv, [Next]_vars PROVE [Mutex!Next]_Mutex!vars
    OBVIOUS
  <2>. USE DEF Mutex!Next, Mutex!vars
  <2>1. ASSUME NEW p \in Pid, AcquireFree(p) PROVE Mutex!Take(p)
    BY <2>1 DEF AcquireFree, Mutex!Take, IInv, NoLostHandoff, Queued
  <2>2. ASSUME NEW p \in Pid, AcquireQueued(p) PROVE Mutex!Wait(p)
    BY <2>2, AcquireQueuedStep DEF Mutex!Wait
  <2>3. ASSUME NEW p \in Pid, ReleaseFree(p) PROVE Mutex!Free
    BY <2>3, ReleaseFreeStep, PidFacts DEF Mutex!Free
  <2>4. ASSUME NEW p \in Pid, ReleasePass(p)
        PROVE  Mutex!Pass(pid') /\ pid' \in Pid
    BY <2>4, ReleasePassStep, PidFacts DEF Mutex!Pass, IInv, QueueIsWaiters
  <2>5. ASSUME NEW p \in Pid, Recheck(p) \/ Kill(p) PROVE UNCHANGED <<pid, Queued>>
    BY <2>5, RecheckStep, KillStep
  <2>6. CASE UNCHANGED vars
    BY <2>6 DEF vars, Queued
  <2>7. CASE Next
    BY <2>7, <2>1, <2>2, <2>3, <2>4, <2>5 DEF Next, Acquire, Release
  <2>. QED
    BY <2>6, <2>7
<1>. QED
  BY <1>1, <1>2, Invariance, PTL DEF Spec, ImplementsMutex, Mutex!Spec
=============================================================================
