------------------------------ MODULE SharedMem ------------------------------
(***************************************************************************)
(* The shared pages of Lab 5 (proc.c) and what they touch: the page tables *)
(* that fork(), exec(), sbrk() and the end of a process build and free     *)
(* (vm.c), and the free list of kalloc.c.                                  *)
(*                                                                         *)
(* A step is one system call, or the reaping of a process by wait():       *)
(* open and close run under the lock of the table, and the others touch    *)
(* only the page table of their own process and the free list.             *)
(***************************************************************************)
EXTENDS Integers, FiniteSets

CONSTANTS Proc,      \* the slots of the process table
          InitProc,  \* initproc, which never exits
          Id,        \* the ids that programs pass to open and close, above
                     \*   0: -1 and 0 are what a slot without an id has
          NPAGE,     \* the slots of sharingPages, 10 in the source
          NFRAME,    \* the physical frames, enough that kalloc() never fails
          MaxSz      \* bound: the pages of a process, proc->sz / PGSIZE

ASSUME SharedMemAssumption ==
  /\ IsFiniteSet(Proc) /\ InitProc \in Proc
  /\ Id \subseteq Nat \ {0}
  /\ NPAGE \in Nat \ {0} /\ MaxSz \in Nat \ {0}
  /\ NFRAME \in Nat \ {0}

Frame == 1 .. NFRAME
Page  == 0 .. MaxSz      \* page numbers; a mapping lies above the heap
Slot  == 0 .. NPAGE - 1

VARIABLES life,        \* p->state: "unused", "alive" or "zombie"
          sz,          \* p->sz, in pages
          pgdir,       \* p->pgdir: the frame at each page, or 0
          sharingMem,  \* p->sharingMem: the page of the mapping, 0 if none yet
          shmid, shaddr, refrences,   \* the fields of sharingPages
          freelist,    \* how often each frame stands in kmem.freelist
          panicked,    \* has the kernel called panic()?
          opened       \* the id the program has open, as it knows itself, or 0

procVars  == <<life, sz>>
tableVars == <<shmid, shaddr, refrences>>
vars == <<procVars, pgdir, sharingMem, tableVars, freelist, panicked, opened>>

\* The types; and a slot has an id exactly while it counts references, so that
\* close_sharedmem() never takes a counter below zero.
TypeOK ==
  /\ life \in [Proc -> {"unused", "alive", "zombie"}]
  /\ sz \in [Proc -> 0 .. MaxSz]
  /\ pgdir \in [Proc -> [Page -> Frame \cup {0}]]
  /\ sharingMem \in [Proc -> Page]
  /\ shmid \in [Slot -> Id \cup {-1, 0}]
  /\ shaddr \in [Slot -> Frame \cup {0}]
  /\ refrences \in [Slot -> Nat]
  /\ \A i \in Slot : refrences[i] = 0 <=> shmid[i] \in {-1, 0}
  /\ freelist \in [Frame -> Nat]
  /\ panicked \in BOOLEAN
  /\ opened \in [Proc -> Id \cup {0}]

NoPages == [a \in Page |-> 0]

\* userinit(): one process, with one page; the table is zero.
Init ==
  /\ life = [p \in Proc |-> IF p = InitProc THEN "alive" ELSE "unused"]
  /\ sz = [p \in Proc |-> IF p = InitProc THEN 1 ELSE 0]
  /\ pgdir = [p \in Proc |-> IF p = InitProc THEN [NoPages EXCEPT ![0] = 1] ELSE NoPages]
  /\ sharingMem = [p \in Proc |-> 0]
  /\ shmid = [i \in Slot |-> 0] /\ shaddr = [i \in Slot |-> 0]
  /\ refrences = [i \in Slot |-> 0]
  /\ freelist = [f \in Frame |-> IF f = 1 THEN 0 ELSE 1]
  /\ panicked = FALSE
  /\ opened = [p \in Proc |-> 0]

-----------------------------------------------------------------------------
(* kalloc.c and vm.c.                                                      *)

Free == {f \in Frame : freelist[f] > 0}

\* Mutant of Kalloc: the head of the list is returned and not taken off it.
MutKalloc(n) == n

\* The frame the n-th of a run of calls of kalloc() returns.  The list hands
\* out its frames in some order; which one does not matter here.
Kalloc(n) == CHOOSE f \in Free : Cardinality({g \in Free : g < f}) = n - 1

\* The free list after n calls of kalloc() and kfree() of the pages of table t.
FreeAfter(n, t) ==
  [f \in Frame |-> freelist[f]
                   - (IF \E k \in 1 .. n : Kalloc(k) = f THEN 1 ELSE 0)
                   + Cardinality({a \in DOMAIN t : t[a] = f})]

\* A page table of n fresh pages: copyuvm() and exec().
Fresh(n) == [a \in Page |-> IF a < n THEN Kalloc(a + 1) ELSE 0]

Alive(p) == life[p] = "alive" /\ ~panicked

Panic ==
  /\ panicked' = TRUE
  /\ UNCHANGED <<procVars, pgdir, sharingMem, tableVars, freelist, opened>>

\* copyuvm() panics on a hole below sz, and kalloc()s the child's pages.
Fork(p, c) ==
  /\ Alive(p) /\ life[c] = "unused"
  /\ \/ /\ \E a \in 0 .. sz[p] - 1 : pgdir[p][a] = 0
        /\ Panic
     \/ /\ \A a \in 0 .. sz[p] - 1 : pgdir[p][a] # 0
        /\ Cardinality(Free) >= sz[p]
        /\ life' = [life EXCEPT ![c] = "alive"]
        /\ sz' = [sz EXCEPT ![c] = sz[p]]
        /\ pgdir' = [pgdir EXCEPT ![c] = Fresh(sz[p])]
        /\ freelist' = FreeAfter(sz[p], NoPages)
        /\ sharingMem' = [sharingMem EXCEPT ![c] = 0]
        /\ opened' = [opened EXCEPT ![c] = 0]
        /\ UNCHANGED <<tableVars, panicked>>

\* exec() of a program of n pages: sharingMem stays as it is.
Exec(p, n) ==
  /\ Alive(p) /\ Cardinality(Free) >= n
  /\ sz' = [sz EXCEPT ![p] = n]
  /\ pgdir' = [pgdir EXCEPT ![p] = Fresh(n)]
  /\ freelist' = FreeAfter(n, pgdir[p])
  /\ opened' = [opened EXCEPT ![p] = 0]
  /\ UNCHANGED <<life, sharingMem, tableVars, panicked>>

\* sbrk() of one page: mappages() panics if something is mapped there.
Grow(p) ==
  /\ Alive(p) /\ sz[p] < MaxSz /\ Free # {}
  /\ \/ pgdir[p][sz[p]] # 0 /\ Panic
     \/ /\ pgdir[p][sz[p]] = 0
        /\ sz' = [sz EXCEPT ![p] = @ + 1]
        /\ pgdir' = [pgdir EXCEPT ![p][sz[p]] = Kalloc(1)]
        /\ freelist' = FreeAfter(1, NoPages)
        /\ UNCHANGED <<life, sharingMem, tableVars, panicked, opened>>

\* sbrk() of minus one page: deallocuvm() frees what is mapped there.
Shrink(p) ==
  /\ Alive(p) /\ sz[p] > 1
  /\ sz' = [sz EXCEPT ![p] = @ - 1]
  /\ pgdir' = [pgdir EXCEPT ![p][sz[p] - 1] = 0]
  /\ freelist' = FreeAfter(0, [a \in {sz[p] - 1} |-> pgdir[p][a]])
  /\ UNCHANGED <<life, sharingMem, tableVars, panicked, opened>>

\* sbrk() of minus sz: deallocuvm() frees every page and returns 0, which
\* growproc() takes for a failure, so that sz stays.
ShrinkAll(p) ==
  /\ Alive(p)
  /\ pgdir' = [pgdir EXCEPT ![p] = [a \in Page |-> IF a < sz[p] THEN 0 ELSE pgdir[p][a]]]
  /\ freelist' = FreeAfter(0, [a \in 0 .. sz[p] - 1 |-> pgdir[p][a]])
  /\ UNCHANGED <<procVars, sharingMem, tableVars, panicked, opened>>

\* exit() keeps the page table, it is in use until the next process runs.
Exit(p) ==
  /\ Alive(p) /\ p # InitProc
  /\ life' = [life EXCEPT ![p] = "zombie"]
  /\ opened' = [opened EXCEPT ![p] = 0]
  /\ UNCHANGED <<sz, pgdir, sharingMem, tableVars, freelist, panicked>>

\* wait() by the parent: freevm() frees every user page that is mapped.
Wait(c) ==
  /\ life[c] = "zombie" /\ ~panicked
  /\ life' = [life EXCEPT ![c] = "unused"]
  /\ pgdir' = [pgdir EXCEPT ![c] = NoPages]
  /\ freelist' = FreeAfter(0, pgdir[c])
  /\ UNCHANGED <<sz, sharingMem, tableVars, panicked, opened>>

-----------------------------------------------------------------------------
(* The shared pages.                                                       *)

\* The slot the loop over the table ends with, which does not stop at the first.
Holds(id, i) == shmid[i] = id /\ \A j \in Slot : j > i => shmid[j] # id

\* Mutant of SlotFor: a free slot is taken before the id is looked for.
MutSlotFor(id, i) ==
  \/ shmid[i] = -1 /\ \A j \in Slot : j < i => shmid[j] # -1
  \/ (\A j \in Slot : shmid[j] # -1) /\ Holds(id, i)

\* open_sharedmem() takes the slot of the id, or else the first that is free.
SlotFor(id, i) ==
  \/ Holds(id, i)
  \/ /\ \A j \in Slot : shmid[j] # id
     /\ shmid[i] = -1 /\ \A j \in Slot : j < i => shmid[j] # -1

InitSharedmem(p) ==
  /\ Alive(p)
  /\ shmid' = [i \in Slot |-> -1] /\ refrences' = [i \in Slot |-> 0]
  /\ UNCHANGED <<procVars, pgdir, sharingMem, shaddr, freelist, panicked, opened>>

\* Mutant of OpenSharedmem: the page is allocated anew at every open.
MutOpenSharedmem(p, id) ==
  /\ Alive(p) /\ sharingMem[p] = 0 /\ Free # {}
  /\ \E i \in Slot :
       /\ SlotFor(id, i)
       /\ pgdir' = [pgdir EXCEPT ![p][sz[p]] = Kalloc(1)]
       /\ shaddr' = [shaddr EXCEPT ![i] = Kalloc(1)]
       /\ freelist' = FreeAfter(1, NoPages)
       /\ refrences' = [refrences EXCEPT ![i] = @ + 1]
       /\ shmid' = [shmid EXCEPT ![i] = id]
  /\ sharingMem' = [sharingMem EXCEPT ![p] = sz[p]]
  /\ opened' = [opened EXCEPT ![p] = id]
  /\ UNCHANGED <<procVars, panicked>>

\* The page goes right above the heap, where nothing is mapped before the first
\* open; the first reference allocates it.
OpenSharedmem(p, id) ==
  /\ Alive(p) /\ sharingMem[p] = 0
  /\ \E i \in Slot :
       /\ SlotFor(id, i)
       /\ refrences[i] = 0 => Free # {}
       /\ LET n == IF refrences[i] = 0 THEN 1 ELSE 0
              f == IF refrences[i] = 0 THEN Kalloc(1) ELSE shaddr[i]
          IN  /\ pgdir' = [pgdir EXCEPT ![p][sz[p]] = f]
              /\ shaddr' = [shaddr EXCEPT ![i] = f]
              /\ freelist' = FreeAfter(n, NoPages)
       /\ refrences' = [refrences EXCEPT ![i] = @ + 1]
       /\ shmid' = [shmid EXCEPT ![i] = id]
  /\ sharingMem' = [sharingMem EXCEPT ![p] = sz[p]]
  /\ opened' = [opened EXCEPT ![p] = id]
  /\ UNCHANGED <<procVars, panicked>>

\* Mutant of Unmapped: the entry of the page table stays.
MutUnmapped(p) == pgdir

\* close_sharedmem() clears the entry at sharingMem, page 0 if it was never set.
Unmapped(p) == [pgdir EXCEPT ![p][sharingMem[p]] = 0]

\* Mutant of CloseSharedmem: the last close forgets kfree().
MutCloseSharedmem(p, id) ==
  /\ Alive(p)
  /\ \E i \in Slot :
       /\ Holds(id, i)
       /\ refrences' = [refrences EXCEPT ![i] = @ - 1]
       /\ shmid' = IF refrences[i] = 1 THEN [shmid EXCEPT ![i] = -1] ELSE shmid
       /\ shaddr' = IF refrences[i] = 1 THEN [shaddr EXCEPT ![i] = 0] ELSE shaddr
  /\ pgdir' = Unmapped(p)
  /\ opened' = [opened EXCEPT ![p] = 0]
  /\ UNCHANGED <<procVars, sharingMem, freelist, panicked>>

\* sharingMem keeps its value: a process opens a shared page once in its life.
CloseSharedmem(p, id) ==
  /\ Alive(p)
  /\ \E i \in Slot :
       /\ Holds(id, i)
       /\ refrences' = [refrences EXCEPT ![i] = @ - 1]
       /\ \/ /\ refrences[i] = 1
             /\ freelist' = FreeAfter(0, [a \in {0} |-> shaddr[i]])
             /\ shmid' = [shmid EXCEPT ![i] = -1]
             /\ shaddr' = [shaddr EXCEPT ![i] = 0]
          \/ refrences[i] # 1 /\ UNCHANGED <<freelist, shmid, shaddr>>
  /\ pgdir' = Unmapped(p)
  /\ opened' = [opened EXCEPT ![p] = 0]
  /\ UNCHANGED <<procVars, sharingMem, panicked>>

-----------------------------------------------------------------------------
Heap(p) == \/ \E c \in Proc : Fork(p, c)
           \/ \E n \in 1 .. MaxSz : Exec(p, n)
           \/ Grow(p) \/ Shrink(p) \/ ShrinkAll(p) \/ Exit(p) \/ Wait(p)

\* The calls a program may make, in any order.
Next ==
  \E p \in Proc :
    \/ Heap(p) \/ InitSharedmem(p)
    \/ \E id \in Id : OpenSharedmem(p, id) \/ CloseSharedmem(p, id)

Spec == Init /\ [][Next]_vars

\* The calls in the order sharingMemory.c makes them: the table is initialized
\* before it is used, a page is closed by its opener, and while it is open the
\* process does not grow, exec() or exit().  No program gives up its last page.
DisciplinedNext ==
  \E p \in Proc :
    \/ \E c \in Proc : Fork(p, c)
    \/ Shrink(p) \/ Wait(p)
    \/ opened[p] = 0 /\ (Grow(p) \/ Exit(p) \/ \E n \in 1 .. MaxSz : Exec(p, n))
    \/ (\A q \in Proc : opened[q] = 0) /\ InitSharedmem(p)
    \/ \E id \in Id : OpenSharedmem(p, id)
    \/ opened[p] # 0 /\ CloseSharedmem(p, opened[p])

DisciplinedSpec == Init /\ [][DisciplinedNext]_vars

-----------------------------------------------------------------------------
Owners(f) == {x \in Proc \X Page : pgdir[x[1]][x[2]] = f}

\* Two processes that opened the same id map one frame, and the frames of two
\* ids differ.
SharedFrame ==
  \A p \in Proc : opened[p] # 0 =>
    \E i \in Slot :
      /\ \A j \in Slot : shmid[j] = opened[p] <=> j = i
      /\ shaddr[i] # 0 /\ pgdir[p][sharingMem[p]] = shaddr[i]
      /\ \A j \in Slot : shaddr[j] = shaddr[i] => j = i

\* The counter of a slot is the number of processes that have its page open.
RefsCountOpeners ==
  \A i \in Slot :
    refrences[i] = Cardinality({p \in Proc : opened[p] # 0 /\ opened[p] = shmid[i]})

\* No frame leaks, none is freed while a page table maps it, and only the page
\* of a slot has more than one entry that maps it.
FramesAccounted ==
  \A f \in Frame :
    \/ freelist[f] = 1 /\ Owners(f) = {} /\ f \notin {shaddr[i] : i \in Slot}
    \/ freelist[f] = 0 /\ Cardinality(Owners(f)) = 1
    \/ freelist[f] = 0 /\ \E i \in Slot : shaddr[i] = f /\ Cardinality(Owners(f)) = refrences[i]

\* copyuvm() finds every page below sz, and growing after a close does not
\* meet the mapping that was there.
NoPanic == ~panicked

\* kfree() is given pages that kalloc() returned: none is in the list twice.
FreedOnce == \A f \in Frame : freelist[f] <= 1
=============================================================================
