---------------------------- MODULE PriorityMutex ----------------------------
(***************************************************************************)
(* What the priority lock of Lab 5 promises: at most one process owns it,  *)
(* and a release passes it, in the same step, to the waiting process with  *)
(* the highest pid.                                                        *)
(***************************************************************************)
EXTENDS Naturals

CONSTANT Pid        \* the pids of the processes that use the lock

VARIABLES owner,    \* the pid of the process that owns the lock, or 0
          waiting   \* the pids of the processes that wait for it

vars == <<owner, waiting>>

Init == owner = 0 /\ waiting = {}

Take(p) ==
  /\ owner = 0
  /\ owner' = p
  /\ UNCHANGED waiting

Wait(p) ==
  /\ owner \notin {0, p}
  /\ waiting' = waiting \cup {p}
  /\ UNCHANGED owner

Free ==
  /\ owner # 0 /\ waiting = {}
  /\ owner' = 0
  /\ UNCHANGED waiting

Pass(p) ==
  /\ owner # 0
  /\ p \in waiting /\ \A q \in waiting : q <= p
  /\ owner' = p
  /\ waiting' = waiting \ {p}

Next == Free \/ \E p \in Pid : Take(p) \/ Wait(p) \/ Pass(p)

Spec == Init /\ [][Next]_vars
=============================================================================
