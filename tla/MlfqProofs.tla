----------------------------- MODULE MlfqProofs ------------------------------
(***************************************************************************)
(* Proofs about Mlfq: the round-robin cursors make progress, for every     *)
(* number of slots and CPUs, whatever the aging pass and the tuning system *)
(* calls do to the queues in between.                                      *)
(***************************************************************************)
EXTENDS Mlfq, TLAPS

\* Every variable keeps its type.
THEOREM TypeCorrect == Spec => []TypeOK
<1>. USE MlfqAssumption DEF TypeOK
<1>1. Init => TypeOK
  BY DEF Init, Slot, Queue
<1>2. TypeOK /\ [Next]_vars => TypeOK'
  <2>. SUFFICES ASSUME TypeOK, [Next]_vars PROVE TypeOK'
    OBVIOUS
  <2>. USE DEF slotVars, agingVars, Leave
  <2>1. CASE UNCHANGED vars
    BY <2>1 DEF vars
  <2>2. CASE Tick
    <3>1. age' \in [Slot -> 0 .. AGING_THRESHOLD + 1]
      BY <2>2 DEF Tick, AgeAfterTick
    <3>. QED
      BY <2>2, <3>1 DEF Tick
  <2>3. CASE AgeScan
    <3>1. \/ \E i \in Slot : pos' = i /\ pass' = "read"
          \/ pos' = 0 /\ pass' \in {"off", "yield"}
      BY <2>3 DEF AgeScan
    <3>2. pos' \in 0 .. NPROC /\ (pass' \in {"read", "set"} => pos' \in Slot)
      BY <3>1 DEF Slot
    <3>3. pass' \in {"off", "read", "yield"}
      BY <3>1
    <3>. QED
      BY <2>3, <3>2, <3>3 DEF AgeScan
  <2>4. CASE AgeRead
    BY <2>4 DEF AgeRead
  <2>5. CASE AgePromote
    <3>1. pos' \in 0 .. NPROC
      BY <2>5 DEF AgePromote, Slot
    <3>2. queue' \in [Slot -> Queue]
      BY <2>5 DEF AgePromote, Queue
    <3>. QED
      BY <2>5, <3>1, <3>2 DEF AgePromote
  <2>6. ASSUME NEW p \in Slot, Wakeup(p) PROVE TypeOK'
    BY <2>6 DEF Wakeup
  <2>7. ASSUME NEW c \in CPU, NEW p \in Slot, Schedule(c, p) PROVE TypeOK'
    BY <2>7 DEF Schedule
  <2>8. ASSUME NEW c \in CPU, NEW p \in Slot, Yield(c, p) PROVE TypeOK'
    BY <2>8 DEF Yield
  <2>9. ASSUME NEW c \in CPU, NEW p \in Slot, Sleep(c, p) PROVE TypeOK'
    BY <2>9 DEF Sleep
  <2>10. ASSUME NEW c \in CPU, NEW p \in Slot, Exit(c, p) PROVE TypeOK'
    BY <2>10 DEF Exit
  <2>11. ASSUME NEW c \in CPU, NEW p \in Slot, NEW np \in Slot,
                NEW r \in 0 .. MaxRank, NEW t \in 0 .. MaxClock, Fork(c, p, np, r, t)
         PROVE TypeOK'
    BY <2>11 DEF Fork, Queue
  <2>12. ASSUME NEW c \in CPU, NEW p \in Slot, NEW i \in Slot, NEW q \in Queue,
                ChangeQueue(c, p, i, q)
         PROVE TypeOK'
    BY <2>12 DEF ChangeQueue
  <2>13. ASSUME NEW c \in CPU, NEW p \in Slot, NEW i \in Slot, NEW r \in 0 .. MaxRank,
                SetBjfParams(c, p, i, r)
         PROVE TypeOK'
    BY <2>13 DEF SetBjfParams
  <2>14. ASSUME NEW c \in CPU, NEW p \in Slot, NEW ranks \in [Slot -> 0 .. MaxRank],
                SetBjfParamsSys(c, p, ranks)
         PROVE TypeOK'
    BY <2>14 DEF SetBjfParamsSys
  <2>. QED
    BY <2>1, <2>2, <2>3, <2>4, <2>5, <2>6, <2>7, <2>8, <2>9, <2>10, <2>11,
       <2>12, <2>13, <2>14 DEF Next, Process
<1>. QED
  BY <1>1, <1>2, PTL DEF Spec

\* The slot found first, going round from i, is strictly closer to every slot
\* farther away than i was.
LEMMA Closer ==
  ASSUME NEW i \in Slot, NEW p \in Slot, NEW q \in Slot, p # q, Dist(i, p) <= Dist(i, q)
  PROVE  Dist(p, q) < Dist(i, q)
BY MlfqAssumption DEF Slot, Dist

\* scheduler() moves a cursor only as RoundRobinProgress allows.
LEMMA ScheduleStep ==
  ASSUME TypeOK, NEW c \in CPU, NEW p \in Slot, Schedule(c, p),
         NEW d \in CPU, NEW q \in Slot, prev'[d] # prev[d],
         q \in Waiting("ROUND_ROBIN"), q \in Waiting("ROUND_ROBIN")'
  PROVE  Dist(prev'[d], q) < Dist(prev[d], q)
<1>1. d = c /\ queue[p] = "ROUND_ROBIN" /\ prev'[c] = p
  BY DEF TypeOK, Schedule
<1>2. \A r \in Waiting("ROUND_ROBIN") : Dist(prev[c], p) <= Dist(prev[c], r)
  BY <1>1 DEF Schedule, Chosen, RoundRobin, Lcfs, BestJobFirst, Waiting
<1>3. state'[p] = "RUNNING"
  BY DEF TypeOK, Schedule
<1>4. p # q
  BY <1>3 DEF Waiting
<1>. QED
  BY <1>1, <1>2, <1>4, Closer DEF TypeOK

\* No CPU's cursor ever passes over a waiting process of the first queue.
THEOREM RoundRobinCorrect == Spec => RoundRobinProgress
<1>. DEFINE Step ==
       \A c \in CPU, p \in Slot :
         /\ prev'[c] # prev[c]
         /\ p \in Waiting("ROUND_ROBIN") /\ p \in Waiting("ROUND_ROBIN")'
         => Dist(prev'[c], p) < Dist(prev[c], p)
<1>1. TypeOK /\ [Next]_vars => [Step]_vars
  <2>. SUFFICES ASSUME TypeOK, Next PROVE Step
    OBVIOUS
  <2>1. CASE \E c \in CPU, p \in Slot : Schedule(c, p)
    BY <2>1, ScheduleStep
  <2>2. CASE ~\E c \in CPU, p \in Slot : Schedule(c, p)
    <3>1. prev' = prev
      BY <2>2 DEF Next, Process, Tick, AgeScan, AgeRead, AgePromote, Wakeup, Yield,
         Sleep, Exit, Fork, ChangeQueue, SetBjfParams, SetBjfParamsSys, agingVars
    <3>. QED
      BY <3>1
  <2>. QED
    BY <2>1, <2>2
<1>. QED
  BY <1>1, TypeCorrect, PTL DEF Spec, RoundRobinProgress
=============================================================================
