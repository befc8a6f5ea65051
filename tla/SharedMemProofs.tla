--------------------------- MODULE SharedMemProofs ---------------------------
(***************************************************************************)
(* Proofs about SharedMem, for programs that keep the order of calls of    *)
(* DisciplinedSpec and any number of processes, ids, slots, pages and      *)
(* frames: the counters of the shared pages are exact, openers of one id   *)
(* share a frame, no frame leaks or is freed early, and nothing panics.    *)
(***************************************************************************)
EXTENDS SharedMem, Functions, FiniteSetTheorems, TLAPS

\* A living process has all the pages below sz, and above them at most the
\* shared page it has open; a slot that is not in use has no pages.
ProcOk(p) ==
  /\ life[p] = "unused" => pgdir[p] = NoPages
  /\ life[p] = "alive" => sz[p] > 0
  /\ life[p] = "alive" => \A a \in Page : a < sz[p] => pgdir[p][a] # 0
  /\ life[p] = "alive" =>
       \A a \in Page : a >= sz[p] /\ pgdir[p][a] # 0 => opened[p] # 0 /\ a = sharingMem[p]
  /\ opened[p] # 0 => life[p] = "alive" /\ sharingMem[p] >= sz[p]

ProcInv == \A p \in Proc : ProcOk(p)

Openers(id) == {p \in Proc : opened[p] # 0 /\ opened[p] = id}

\* An id has one slot, and a slot a frame of its own while it is referenced.
TableInv ==
  /\ \A i, j \in Slot : shmid[i] = shmid[j] /\ shmid[i] > 0 => i = j
  /\ \A i \in Slot : shaddr[i] # 0 <=> refrences[i] # 0
  /\ \A i, j \in Slot : shaddr[i] = shaddr[j] /\ shaddr[i] # 0 => i = j

\* The mapping of p at page a is that of the shared page it has open.
IsShared(p, a) == opened[p] # 0 /\ a = sharingMem[p]

\* A frame is free once or mapped, and mapped twice only by openers of one id.
FrameInv ==
  /\ \A f \in Frame : freelist[f] \in {0, 1}
  /\ \A p \in Proc, a \in Page : pgdir[p][a] # 0 => freelist[pgdir[p][a]] = 0
  /\ \A f \in Frame : freelist[f] = 0 => \E p \in Proc, a \in Page : pgdir[p][a] = f
  /\ \A p, q \in Proc, a, b \in Page :
       pgdir[p][a] = pgdir[q][b] /\ pgdir[p][a] # 0 =>
         \/ p = q /\ a = b
         \/ IsShared(p, a) /\ IsShared(q, b) /\ opened[p] = opened[q]
  /\ \A p \in Proc, a \in Page, i \in Slot :
       pgdir[p][a] = shaddr[i] /\ shaddr[i] # 0 => IsShared(p, a) /\ opened[p] = shmid[i]

IInv == NoPanic /\ ProcInv /\ TableInv /\ SharedFrame /\ RefsCountOpeners /\ FrameInv

-----------------------------------------------------------------------------
(* The free list.                                                          *)

LEMMA ConstantFacts ==
  /\ \A f \in Frame : f \in Nat /\ f > 0
  /\ 0 \notin Frame /\ 1 \in Frame
  /\ \A a \in Page : a \in Nat /\ a <= MaxSz
  /\ \A a \in Nat : a <= MaxSz => a \in Page
  /\ 0 \in Page /\ 1 \in 0 .. MaxSz
  /\ \A id \in Id : id \in Nat /\ id > 0
  /\ \A i \in Slot : i \in Nat
  /\ IsFiniteSet(Page)
<1>1. IsFiniteSet(Page)
  BY SharedMemAssumption, FS_Interval DEF Page
<1>. QED
  BY <1>1, SharedMemAssumption DEF Frame, Page, Slot

LEMMA FreeFacts ==
  /\ IsFiniteSet(Free) /\ Cardinality(Free) \in Nat
  /\ Free \subseteq Frame
  /\ Free # {} => 1 <= Cardinality(Free)
<1>1. IsFiniteSet(Frame)
  BY SharedMemAssumption, FS_Interval DEF Frame
<1>2. Free \subseteq Frame
  BY DEF Free
<1>3. IsFiniteSet(Free)
  BY <1>1, <1>2, FS_Subset
<1>. QED
  BY <1>2, <1>3, FS_CardinalityType, FS_EmptySet

Rank(f) == Cardinality({g \in Free : g < f})

\* Frames of the free list have different ranks, below the number of frames.
LEMMA RankFacts ==
  /\ \A f \in Free : Rank(f) \in 0 .. Cardinality(Free) - 1
  /\ \A f, g \in Free : f < g => Rank(f) < Rank(g)
<1>. USE FreeFacts, ConstantFacts
<1>1. \A f \in Free : Rank(f) \in Nat /\ IsFiniteSet({g \in Free : g < f})
  <2>. TAKE f \in Free
  <2>1. IsFiniteSet({g \in Free : g < f})
    BY FS_Subset
  <2>. QED
    BY <2>1, FS_CardinalityType DEF Rank
<1>2. ASSUME NEW f \in Free PROVE Rank(f) < Cardinality(Free)
  <2>. DEFINE S == {g \in Free : g < f}
  <2>1. S \in SUBSET Free /\ f \notin S
    OBVIOUS
  <2>2. Cardinality(S) <= Cardinality(Free) /\ Cardinality(Free) # Cardinality(S)
    BY <2>1, FS_Subset
  <2>. QED
    BY <1>1, <2>2 DEF Rank
<1>3. ASSUME NEW f \in Free, NEW g \in Free, f < g PROVE Rank(f) < Rank(g)
  <2>. DEFINE S == {h \in Free : h < f}
              T == {h \in Free : h < g}
  <2>1. S \in SUBSET T /\ f \notin S /\ f \in T
    BY <1>3
  <2>2. IsFiniteSet(T) /\ Cardinality(S) \in Nat /\ Cardinality(T) \in Nat
    BY <1>1 DEF Rank
  <2>3. Cardinality(S) <= Cardinality(T) /\ Cardinality(T) # Cardinality(S)
    BY <2>1, <2>2, FS_Subset
  <2>. QED
    BY <2>2, <2>3 DEF Rank
<1>4. \A f \in Free : Rank(f) \in 0 .. Cardinality(Free) - 1
  <2>. TAKE f \in Free
  <2>1. Rank(f) \in Nat /\ Rank(f) < Cardinality(Free)
    BY <1>1, <1>2
  <2>. QED
    BY <2>1
<1>. QED
  BY <1>3, <1>4

\* While kalloc() has a frame to give, its calls return different free frames.
LEMMA KallocFacts ==
  ASSUME NEW k \in Nat, 1 <= k, k <= Cardinality(Free)
  PROVE  Kalloc(k) \in Free /\ Rank(Kalloc(k)) = k - 1
<1>. DEFINE N == Cardinality(Free)
            F == [f \in Free |-> Rank(f)]
<1>1. \A f, g \in Free : Rank(f) = Rank(g) => f = g
  BY RankFacts, FreeFacts, ConstantFacts
<1>2. F \in Injection(Free, 0 .. N - 1)
  BY <1>1, RankFacts DEF Injection, IsInjective
<1>3. IsFiniteSet(0 .. N - 1) /\ Cardinality(0 .. N - 1) = N
  <2>1. N \in Nat /\ N >= 1
    BY FreeFacts
  <2>2. 0 \in Int /\ N - 1 \in Int /\ ~(0 > N - 1) /\ N - 1 - 0 + 1 = N
    BY <2>1
  <2>. HIDE DEF N
  <2>. QED
    BY <2>2, FS_Interval
<1>4. F \in Surjection(Free, 0 .. N - 1)
  BY <1>2, <1>3, FS_Injection
<1>5. k - 1 \in 0 .. N - 1
  BY FreeFacts
<1>6. \E f \in Free : Rank(f) = k - 1
  BY <1>4, <1>5 DEF Surjection
<1>. QED
  BY <1>6 DEF Kalloc, Rank

Taken(n) == {Kalloc(k) : k \in 1 .. n}

LEMMA TakenFacts ==
  ASSUME NEW n \in Nat, n <= Cardinality(Free)
  PROVE  /\ Taken(n) \subseteq Free
         /\ \A k, l \in 1 .. n : Kalloc(k) = Kalloc(l) => k = l
<1>1. \A k \in 1 .. n : Kalloc(k) \in Free /\ Rank(Kalloc(k)) = k - 1
  BY KallocFacts, FreeFacts
<1>. QED
  BY <1>1 DEF Taken

\* The free list stays a list of frames.
LEMMA FreeAfterType ==
  ASSUME TypeOK, NEW n \in Nat, n <= Cardinality(Free), NEW t, IsFiniteSet(DOMAIN t)
  PROVE  FreeAfter(n, t) \in [Frame -> Nat]
<1>. SUFFICES ASSUME NEW f \in Frame
              PROVE  freelist[f] - (IF \E k \in 1 .. n : Kalloc(k) = f THEN 1 ELSE 0)
                     + Cardinality({a \in DOMAIN t : t[a] = f}) \in Nat
  BY DEF FreeAfter
<1>1. Cardinality({a \in DOMAIN t : t[a] = f}) \in Nat
  <2>1. IsFiniteSet({a \in DOMAIN t : t[a] = f})
    BY FS_Subset
  <2>. QED
    BY <2>1, FS_CardinalityType
<1>2. (\E k \in 1 .. n : Kalloc(k) = f) => freelist[f] > 0
  BY TakenFacts DEF Taken, Free
<1>3. freelist[f] \in Nat
  BY DEF TypeOK
<1>. QED
  BY <1>1, <1>2, <1>3

\* What kalloc() and kfree() do to a frame, if the table maps no frame twice.
LEMMA FreeAfterFacts ==
  ASSUME TypeOK, NEW n \in Nat, n <= Cardinality(Free),
         NEW t, IsFiniteSet(DOMAIN t),
         \A a, b \in DOMAIN t : t[a] = t[b] /\ t[a] # 0 => a = b,
         NEW f \in Frame
  PROVE  /\ f \in Taken(n) /\ (\A a \in DOMAIN t : t[a] # f)
              => FreeAfter(n, t)[f] = freelist[f] - 1
         /\ f \notin Taken(n) /\ (\E a \in DOMAIN t : t[a] = f)
              => FreeAfter(n, t)[f] = freelist[f] + 1
         /\ f \notin Taken(n) /\ (\A a \in DOMAIN t : t[a] # f)
              => FreeAfter(n, t)[f] = freelist[f]
<1>. DEFINE S == {a \in DOMAIN t : t[a] = f}
<1>1. FreeAfter(n, t)[f] = freelist[f] - (IF f \in Taken(n) THEN 1 ELSE 0) + Cardinality(S)
  BY DEF FreeAfter, Taken
<1>2. freelist[f] \in Nat
  BY DEF TypeOK
<1>3. (\A a \in DOMAIN t : t[a] # f) => Cardinality(S) = 0
  BY FS_EmptySet
<1>4. ASSUME NEW a \in DOMAIN t, t[a] = f PROVE Cardinality(S) = 1
  <2>1. S = {a}
    BY <1>4, ConstantFacts
  <2>. QED
    BY <2>1, FS_Singleton
<1>. QED
  BY <1>1, <1>2, <1>3, <1>4

\* The pages of a new table are the frames kalloc() returned.
LEMMA FreshFacts ==
  ASSUME NEW n \in Nat, n <= Cardinality(Free), n <= MaxSz
  PROVE  /\ Fresh(n) \in [Page -> Frame \cup {0}]
         /\ \A a \in Page : a < n => Fresh(n)[a] \in Taken(n)
         /\ \A a \in Page : a >= n => Fresh(n)[a] = 0
         /\ \A a, b \in Page : Fresh(n)[a] = Fresh(n)[b] /\ Fresh(n)[a] # 0 => a = b
         /\ \A f \in Taken(n) : \E a \in Page : Fresh(n)[a] = f
<1>. USE ConstantFacts, SharedMemAssumption
<1>1. \A a \in Page : a < n => a + 1 \in 1 .. n /\ Fresh(n)[a] = Kalloc(a + 1)
  BY DEF Fresh
<1>2. \A a \in Page : a >= n => Fresh(n)[a] = 0
  BY DEF Fresh
<1>3. \A a \in Page : a < n => Fresh(n)[a] \in Taken(n)
  BY <1>1 DEF Taken
<1>4. Taken(n) \subseteq Frame
  BY TakenFacts, FreeFacts
<1>5. Fresh(n) \in [Page -> Frame \cup {0}]
  <2>1. \A a \in Page : Fresh(n)[a] \in Frame \cup {0}
    BY <1>2, <1>3, <1>4
  <2>. QED
    BY <2>1 DEF Fresh
<1>6. \A a, b \in Page : Fresh(n)[a] = Fresh(n)[b] /\ Fresh(n)[a] # 0 => a = b
  <2>. SUFFICES ASSUME NEW a \in Page, NEW b \in Page,
                       Fresh(n)[a] = Fresh(n)[b], Fresh(n)[a] # 0
                PROVE  a = b
    OBVIOUS
  <2>1. a < n /\ b < n
    BY <1>2
  <2>2. a + 1 = b + 1
    BY <1>1, <2>1, TakenFacts
  <2>. QED
    BY <2>2
<1>7. ASSUME NEW f \in Taken(n) PROVE \E a \in Page : Fresh(n)[a] = f
  <2>1. PICK k \in 1 .. n : f = Kalloc(k)
    BY DEF Taken
  <2>2. k - 1 \in Page /\ k - 1 < n /\ (k - 1) + 1 = k
    OBVIOUS
  <2>. QED
    BY <1>1, <2>1, <2>2
<1>. QED
  BY <1>2, <1>3, <1>5, <1>6, <1>7

-----------------------------------------------------------------------------
(* Types.                                                                  *)

LEMMA TypeInit == Init => TypeOK
<1>. SUFFICES ASSUME Init PROVE TypeOK
  OBVIOUS
<1>. USE ConstantFacts
<1>1. NoPages \in [Page -> Frame \cup {0}]
  BY DEF NoPages
<1>2. [NoPages EXCEPT ![0] = 1] \in [Page -> Frame \cup {0}]
  BY <1>1
<1>3. 0 \in 0 .. MaxSz
  BY SharedMemAssumption
<1>4. pgdir \in [Proc -> [Page -> Frame \cup {0}]]
  <2>. DEFINE t == [NoPages EXCEPT ![0] = 1]
  <2>1. pgdir = [p \in Proc |-> IF p = InitProc THEN t ELSE NoPages]
    BY DEF Init
  <2>. HIDE DEF t
  <2>. QED
    BY <1>1, <1>2, <2>1 DEF t
<1>5. life \in [Proc -> {"unused", "alive", "zombie"}]
  BY DEF Init
<1>6. sz \in [Proc -> 0 .. MaxSz]
  BY <1>3 DEF Init
<1>7. freelist \in [Frame -> Nat]
  BY DEF Init
<1>8. sharingMem \in [Proc -> Page] /\ opened \in [Proc -> Id \cup {0}]
  BY DEF Init
<1>9. /\ shmid \in [Slot -> Id \cup {-1, 0}] /\ shaddr \in [Slot -> Frame \cup {0}]
      /\ refrences \in [Slot -> Nat]
      /\ \A i \in Slot : refrences[i] = 0 <=> shmid[i] \in {-1, 0}
  BY DEF Init
<1>10. panicked \in BOOLEAN
  BY DEF Init
<1>. QED
  BY <1>4, <1>5, <1>6, <1>7, <1>8, <1>9, <1>10 DEF TypeOK

LEMMA ForkType ==
  ASSUME TypeOK, NEW p \in Proc, NEW c \in Proc, Fork(p, c)
  PROVE  TypeOK'
<1>1. CASE Panic
  BY <1>1 DEF Panic, TypeOK, procVars, tableVars
<1>2. CASE ~Panic
  <2>1. /\ Cardinality(Free) >= sz[p]
        /\ life' = [life EXCEPT ![c] = "alive"]
        /\ sz' = [sz EXCEPT ![c] = sz[p]]
        /\ pgdir' = [pgdir EXCEPT ![c] = Fresh(sz[p])]
        /\ freelist' = FreeAfter(sz[p], NoPages)
        /\ sharingMem' = [sharingMem EXCEPT ![c] = 0]
        /\ opened' = [opened EXCEPT ![c] = 0]
        /\ UNCHANGED <<tableVars, panicked>>
    BY <1>2 DEF Fork
  <2>2. sz[p] \in Nat /\ sz[p] <= Cardinality(Free) /\ sz[p] <= MaxSz
    BY <2>1, FreeFacts, SharedMemAssumption DEF TypeOK
  <2>3. Fresh(sz[p]) \in [Page -> Frame \cup {0}]
    BY <2>2, FreshFacts
  <2>4. FreeAfter(sz[p], NoPages) \in [Frame -> Nat]
    BY <2>2, FreeAfterType, ConstantFacts DEF NoPages
  <2>. QED
    BY <2>1, <2>3, <2>4, ConstantFacts DEF TypeOK, tableVars
<1>. QED
  BY <1>1, <1>2

LEMMA ExecType ==
  ASSUME TypeOK, NEW p \in Proc, NEW n \in 1 .. MaxSz, Exec(p, n)
  PROVE  TypeOK'
<1>1. n \in Nat /\ n <= Cardinality(Free) /\ n <= MaxSz /\ n \in 0 .. MaxSz
  BY FreeFacts, SharedMemAssumption DEF Exec
<1>2. Fresh(n) \in [Page -> Frame \cup {0}]
  BY <1>1, FreshFacts
<1>3. FreeAfter(n, pgdir[p]) \in [Frame -> Nat]
  <2>1. IsFiniteSet(DOMAIN pgdir[p])
    BY ConstantFacts DEF TypeOK
  <2>. QED
    BY <1>1, <2>1, FreeAfterType
<1>. QED
  BY <1>1, <1>2, <1>3 DEF Exec, TypeOK, tableVars

LEMMA GrowType ==
  ASSUME TypeOK, NEW p \in Proc, Grow(p)
  PROVE  TypeOK'
<1>1. CASE Panic
  BY <1>1 DEF Panic, TypeOK, procVars, tableVars
<1>2. CASE ~Panic
  <2>1. /\ sz[p] < MaxSz /\ Free # {}
        /\ sz' = [sz EXCEPT ![p] = @ + 1]
        /\ pgdir' = [pgdir EXCEPT ![p][sz[p]] = Kalloc(1)]
        /\ freelist' = FreeAfter(1, NoPages)
        /\ UNCHANGED <<life, sharingMem, tableVars, panicked, opened>>
    BY <1>2 DEF Grow
  <2>2. Kalloc(1) \in Frame
    BY <2>1, FreeFacts, KallocFacts
  <2>3. FreeAfter(1, NoPages) \in [Frame -> Nat]
    BY <2>1, FreeFacts, FreeAfterType, ConstantFacts DEF NoPages
  <2>4. sz[p] + 1 \in 0 .. MaxSz
    BY <2>1, SharedMemAssumption DEF TypeOK
  <2>. QED
    BY <2>1, <2>2, <2>3, <2>4 DEF TypeOK, tableVars
<1>. QED
  BY <1>1, <1>2

LEMMA ShrinkType ==
  ASSUME TypeOK, NEW p \in Proc, Shrink(p)
  PROVE  TypeOK'
<1>. DEFINE t == [a \in {sz[p] - 1} |-> pgdir[p][a]]
<1>1. FreeAfter(0, t) \in [Frame -> Nat]
  <2>1. DOMAIN t = {sz[p] - 1} /\ IsFiniteSet({sz[p] - 1})
    BY FS_Singleton
  <2>. HIDE DEF t
  <2>. QED
    BY <2>1, FreeFacts, FreeAfterType
<1>2. sz[p] - 1 \in 0 .. MaxSz
  BY SharedMemAssumption DEF Shrink, TypeOK
<1>. QED
  BY <1>1, <1>2 DEF Shrink, TypeOK, tableVars

LEMMA ShrinkAllType ==
  ASSUME TypeOK, NEW p \in Proc, ShrinkAll(p)
  PROVE  TypeOK'
<1>. DEFINE t == [a \in 0 .. sz[p] - 1 |-> pgdir[p][a]]
            u == [a \in Page |-> IF a < sz[p] THEN 0 ELSE pgdir[p][a]]
<1>1. FreeAfter(0, t) \in [Frame -> Nat]
  <2>1. sz[p] - 1 \in Int
    BY SharedMemAssumption DEF TypeOK
  <2>2. DOMAIN t = 0 .. sz[p] - 1 /\ IsFiniteSet(0 .. sz[p] - 1)
    BY <2>1, FS_Interval
  <2>. HIDE DEF t
  <2>. QED
    BY <2>2, FreeFacts, FreeAfterType
<1>2. u \in [Page -> Frame \cup {0}]
  BY DEF TypeOK
<1>3. pgdir' = [pgdir EXCEPT ![p] = u] /\ freelist' = FreeAfter(0, t)
  BY DEF ShrinkAll
<1>. HIDE DEF t, u
<1>. QED
  BY <1>1, <1>2, <1>3 DEF ShrinkAll, TypeOK, procVars, tableVars

LEMMA WaitType ==
  ASSUME TypeOK, NEW p \in Proc, Wait(p)
  PROVE  TypeOK'
<1>1. IsFiniteSet(DOMAIN pgdir[p])
  BY ConstantFacts DEF TypeOK
<1>2. FreeAfter(0, pgdir[p]) \in [Frame -> Nat]
  BY <1>1, FreeFacts, FreeAfterType
<1>3. NoPages \in [Page -> Frame \cup {0}]
  BY DEF NoPages
<1>. QED
  BY <1>2, <1>3 DEF Wait, TypeOK, tableVars

LEMMA OpenType ==
  ASSUME TypeOK, NEW p \in Proc, NEW id \in Id, OpenSharedmem(p, id)
  PROVE  TypeOK'
<1>. DEFINE n(i) == IF refrences[i] = 0 THEN 1 ELSE 0
            f(i) == IF refrences[i] = 0 THEN Kalloc(1) ELSE shaddr[i]
<1>1. PICK i \in Slot :
        /\ refrences[i] = 0 => Free # {}
        /\ pgdir' = [pgdir EXCEPT ![p][sz[p]] = f(i)]
        /\ shaddr' = [shaddr EXCEPT ![i] = f(i)]
        /\ freelist' = FreeAfter(n(i), NoPages)
        /\ refrences' = [refrences EXCEPT ![i] = @ + 1]
        /\ shmid' = [shmid EXCEPT ![i] = id]
  BY Zenon DEF OpenSharedmem
<1>2. refrences[i] = 0 => Kalloc(1) \in Frame /\ 1 <= Cardinality(Free)
  BY <1>1, FreeFacts, KallocFacts
<1>3. f(i) \in Frame \cup {0}
  BY <1>2 DEF TypeOK
<1>4. FreeAfter(n(i), NoPages) \in [Frame -> Nat]
  <2>1. n(i) \in Nat /\ n(i) <= Cardinality(Free)
    BY <1>2, FreeFacts
  <2>. HIDE DEF n
  <2>. QED
    BY <2>1, FreeAfterType, ConstantFacts DEF NoPages
<1>5. sz[p] \in Page
  BY DEF TypeOK, Page
<1>6. freelist' \in [Frame -> Nat]
  BY <1>1, <1>4
<1>7. pgdir' \in [Proc -> [Page -> Frame \cup {0}]] /\ shaddr' \in [Slot -> Frame \cup {0}]
  <2>. HIDE DEF f
  <2>. QED
    BY <1>1, <1>3 DEF TypeOK
<1>8. /\ refrences' \in [Slot -> Nat] /\ shmid' \in [Slot -> Id \cup {-1, 0}]
      /\ \A j \in Slot : refrences'[j] = 0 <=> shmid'[j] \in {-1, 0}
  <2>. USE ConstantFacts
  <2>1. /\ refrences' = [refrences EXCEPT ![i] = refrences[i] + 1]
        /\ shmid' = [shmid EXCEPT ![i] = id]
    BY <1>1
  <2>2. /\ refrences' \in [Slot -> Nat] /\ shmid' \in [Slot -> Id \cup {-1, 0}]
    BY <2>1 DEF TypeOK
  <2>3. id \notin {-1, 0} /\ refrences[i] + 1 # 0
    BY DEF TypeOK
  <2>. QED
    BY <2>1, <2>2, <2>3 DEF TypeOK
<1>. QED
  BY <1>1, <1>5, <1>6, <1>7, <1>8 DEF OpenSharedmem, TypeOK, procVars

LEMMA CloseType ==
  ASSUME TypeOK, NEW p \in Proc, NEW id \in Id, CloseSharedmem(p, id)
  PROVE  TypeOK'
<1>1. PICK i \in Slot :
        /\ shmid[i] = id
        /\ refrences' = [refrences EXCEPT ![i] = @ - 1]
        /\ \/ /\ refrences[i] = 1
              /\ freelist' = FreeAfter(0, [a \in {0} |-> shaddr[i]])
              /\ shmid' = [shmid EXCEPT ![i] = -1]
              /\ shaddr' = [shaddr EXCEPT ![i] = 0]
           \/ refrences[i] # 1 /\ UNCHANGED <<freelist, shmid, shaddr>>
  BY DEF CloseSharedmem, Holds
<1>2. FreeAfter(0, [a \in {0} |-> shaddr[i]]) \in [Frame -> Nat]
  <2>. DEFINE t == [a \in {0} |-> shaddr[i]]
  <2>1. DOMAIN t = {0} /\ IsFiniteSet({0})
    BY FS_Singleton
  <2>2. FreeAfter(0, t) \in [Frame -> Nat]
    <3>. HIDE DEF t
    <3>. QED
      BY <2>1, FreeFacts, FreeAfterType
  <2>. QED
    BY <2>2
<1>3. freelist' \in [Frame -> Nat]
  <2>. DEFINE g == FreeAfter(0, [a \in {0} |-> shaddr[i]])
  <2>1. freelist' = g \/ freelist' = freelist
    BY <1>1
  <2>. HIDE DEF g
  <2>. QED
    BY <1>2, <2>1 DEF TypeOK, g
<1>4. shmid' \in [Slot -> Id \cup {-1, 0}] /\ shaddr' \in [Slot -> Frame \cup {0}]
  <2>1. \/ shmid' = [shmid EXCEPT ![i] = -1] /\ shaddr' = [shaddr EXCEPT ![i] = 0]
        \/ shmid' = shmid /\ shaddr' = shaddr
    BY <1>1
  <2>. QED
    BY <2>1 DEF TypeOK
<1>5. /\ refrences' \in [Slot -> Nat]
      /\ \A j \in Slot : refrences'[j] = 0 <=> shmid'[j] \in {-1, 0}
  <2>0. shmid[i] \notin {-1, 0}
    <3>1. id \in Nat /\ id > 0
      BY ConstantFacts
    <3>. QED
      BY <1>1, <3>1
  <2>1. refrences[i] \in Nat /\ refrences[i] # 0
    BY <2>0 DEF TypeOK
  <2>2. refrences' = [refrences EXCEPT ![i] = refrences[i] - 1]
    BY <1>1
  <2>3. refrences' \in [Slot -> Nat]
    <3>1. refrences[i] - 1 \in Nat
      BY <2>1
    <3>. QED
      BY <2>2, <3>1 DEF TypeOK
  <2>4. ASSUME NEW j \in Slot PROVE refrences'[j] = 0 <=> shmid'[j] \in {-1, 0}
    <3>1. CASE j = i
      <4>1. CASE refrences[i] = 1
        BY <1>1, <2>2, <3>1, <4>1 DEF TypeOK
      <4>2. CASE refrences[i] # 1
        BY <1>1, <2>1, <2>2, <3>1, <4>2 DEF TypeOK
      <4>. QED
        BY <4>1, <4>2
    <3>2. CASE j # i
      <4>1. refrences'[j] = refrences[j] /\ shmid'[j] = shmid[j]
        BY <1>1, <2>2, <3>2 DEF TypeOK
      <4>. QED
        BY <4>1 DEF TypeOK
    <3>. QED
      BY <3>1, <3>2
  <2>. QED
    BY <2>3, <2>4
<1>. QED
  BY <1>3, <1>4, <1>5 DEF CloseSharedmem, Unmapped, TypeOK, procVars

LEMMA TypeStep == TypeOK /\ [Next]_vars => TypeOK'
<1>. SUFFICES ASSUME TypeOK, [Next]_vars PROVE TypeOK'
  OBVIOUS
<1>1. ASSUME UNCHANGED vars PROVE TypeOK'
  BY <1>1 DEF vars, procVars, tableVars, TypeOK
<1>2. ASSUME NEW p \in Proc, Heap(p) PROVE TypeOK'
  <2>1. ASSUME Exit(p) PROVE TypeOK'
    BY <2>1 DEF Exit, TypeOK, tableVars
  <2>. QED
    BY <1>2, <2>1, ForkType, ExecType, GrowType, ShrinkType, ShrinkAllType,
       WaitType DEF Heap
<1>3. ASSUME NEW p \in Proc, InitSharedmem(p) PROVE TypeOK'
  BY <1>3 DEF InitSharedmem, TypeOK, procVars
<1>. QED
  BY <1>1, <1>2, <1>3, OpenType, CloseType DEF Next

\* Every disciplined step is a step some program may make.
LEMMA DisciplinedIsNext == TypeOK /\ DisciplinedNext => Next
<1>. SUFFICES ASSUME TypeOK, DisciplinedNext PROVE Next
  OBVIOUS
<1>1. \A p \in Proc : opened[p] # 0 => opened[p] \in Id
  BY DEF TypeOK
<1>. QED
  BY <1>1 DEF DisciplinedNext, Next, Heap

-----------------------------------------------------------------------------
(* Steps that build or free pages.                                         *)

\* The page of a slot is mapped by whoever has its id open, and so not free.
LEMMA ShaddrMapped ==
  ASSUME TypeOK, IInv, NEW i \in Slot, shaddr[i] # 0
  PROVE  /\ shaddr[i] \in Frame /\ freelist[shaddr[i]] = 0
         /\ \E p \in Proc : opened[p] # 0 /\ opened[p] = shmid[i]
                            /\ pgdir[p][sharingMem[p]] = shaddr[i]
<1>1. refrences[i] # 0 /\ refrences[i] = Cardinality(Openers(shmid[i]))
  BY DEF IInv, TableInv, RefsCountOpeners, Openers
<1>2. Openers(shmid[i]) # {}
  BY <1>1, FS_EmptySet
<1>3. PICK p \in Proc : opened[p] # 0 /\ opened[p] = shmid[i]
  BY <1>2 DEF Openers
<1>4. pgdir[p][sharingMem[p]] = shaddr[i]
  BY <1>3 DEF IInv, SharedFrame
<1>5. sharingMem[p] \in Page
  BY DEF TypeOK
<1>. QED
  BY <1>3, <1>4, <1>5 DEF IInv, FrameInv, TypeOK

\* The frames q maps and would not map with the page table t.
Unmaps(q, t) == {f \in Frame : /\ \E a \in Page : pgdir[q][a] = f
                               /\ \A a \in Page : t[a] # f}

\* A process q gets the page table t, its new frames N taken from the free list
\* and those it no longer maps put back; what it has open stays mapped.
HeapChange(q, t, N) ==
  /\ t \in [Page -> Frame \cup {0}]
  /\ pgdir' = [pgdir EXCEPT ![q] = t]
  /\ N \subseteq Free
  /\ \A f \in Frame :
       /\ f \in N => freelist'[f] = freelist[f] - 1
       /\ f \in Unmaps(q, t) => freelist'[f] = freelist[f] + 1
       /\ f \notin N /\ f \notin Unmaps(q, t) => freelist'[f] = freelist[f]
  /\ \A a, b \in Page : t[a] = t[b] /\ t[a] # 0 => a = b
  /\ \A a \in Page : t[a] # 0 => t[a] \in N \/ t[a] = pgdir[q][a]
  /\ \A f \in N : \E a \in Page : t[a] = f
  /\ opened[q] # 0 => t[sharingMem[q]] = pgdir[q][sharingMem[q]]
  /\ \A p \in Proc : opened[p] # 0 => sharingMem'[p] = sharingMem[p]
  /\ UNCHANGED <<opened, shmid, shaddr, refrences>>

LEMMA HeapStep ==
  ASSUME TypeOK, IInv, NEW q \in Proc, NEW t, NEW N, HeapChange(q, t, N)
  PROVE  FrameInv' /\ SharedFrame'
<1>. USE ConstantFacts
<1>. DEFINE R == Unmaps(q, t)
<1>0. /\ t \in [Page -> Frame \cup {0}]
      /\ pgdir' = [pgdir EXCEPT ![q] = t]
      /\ N \subseteq Free
      /\ R = {f \in Frame : /\ \E a \in Page : pgdir[q][a] = f
                            /\ \A a \in Page : t[a] # f}
      /\ \A f \in Frame : f \in N => freelist'[f] = freelist[f] - 1
      /\ \A f \in Frame : f \in R => freelist'[f] = freelist[f] + 1
      /\ \A f \in Frame : f \notin N /\ f \notin R => freelist'[f] = freelist[f]
      /\ \A a, b \in Page : t[a] = t[b] /\ t[a] # 0 => a = b
      /\ \A a \in Page : t[a] # 0 => t[a] \in N \/ t[a] = pgdir[q][a]
      /\ \A f \in N : \E a \in Page : t[a] = f
      /\ opened[q] # 0 => t[sharingMem[q]] = pgdir[q][sharingMem[q]]
      /\ \A p \in Proc : opened[p] # 0 => sharingMem'[p] = sharingMem[p]
      /\ UNCHANGED <<opened, shmid, shaddr, refrences>>
  BY DEF HeapChange, Unmaps
<1>. USE <1>0
<1>. HIDE DEF R
<1>1. \A p \in Proc : pgdir'[p] = IF p = q THEN t ELSE pgdir[p]
  BY DEF TypeOK
<1>2. \A p \in Proc, a \in Page : pgdir[p][a] \in Frame \cup {0}
  BY DEF TypeOK
<1>3. \A p \in Proc, a \in Page : IsShared(p, a)' <=> IsShared(p, a)
  BY DEF IsShared, TypeOK
<1>4. \A p \in Proc, a \in Page : pgdir[p][a] # 0 => freelist[pgdir[p][a]] = 0
  BY DEF IInv, FrameInv
<1>5. \A f \in N : f \in Frame /\ freelist[f] # 0
  BY DEF Free
<1>6. \A f \in R : freelist[f] = 0 /\ f \notin N
  BY <1>4, <1>5
<1>7. \A p \in Proc, a \in Page : pgdir[p][a] # 0 => pgdir[p][a] \notin N
  BY <1>4, <1>5
<1>8. \A f \in Frame : freelist[f] \in {0, 1}
  BY DEF IInv, FrameInv
<1>9. \A p, r \in Proc, a, b \in Page :
        pgdir[p][a] = pgdir[r][b] /\ pgdir[p][a] # 0 =>
          \/ p = r /\ a = b
          \/ IsShared(p, a) /\ IsShared(r, b) /\ opened[p] = opened[r]
  BY DEF IInv, FrameInv
<1>10. ASSUME NEW p \in Proc, NEW a \in Page, pgdir'[p][a] # 0
       PROVE  freelist'[pgdir'[p][a]] = 0
  <2>. DEFINE g == pgdir'[p][a]
  <2>1. CASE p = q
    <3>1. g = t[a] /\ g \in Frame /\ g \notin R
      BY <1>1, <1>10, <2>1
    <3>2. CASE g \in N
      BY <3>1, <3>2, <1>5, <1>8
    <3>3. CASE g \notin N
      BY <3>1, <3>3, <2>1, <1>4, <1>10
    <3>. QED
      BY <3>2, <3>3
  <2>2. CASE p # q
    <3>1. g = pgdir[p][a] /\ g \in Frame /\ freelist[g] = 0 /\ g \notin N
      BY <1>1, <1>2, <1>4, <1>7, <1>10, <2>2
    <3>2. g \notin R
      <4>. SUFFICES ASSUME g \in R PROVE FALSE
        OBVIOUS
      <4>1. PICK b \in Page : pgdir[q][b] = g /\ t[b] # g
        OBVIOUS
      <4>2. IsShared(q, b)
        BY <4>1, <3>1, <2>2, <1>9
      <4>. QED
        BY <4>1, <4>2 DEF IsShared
    <3>. QED
      BY <3>1, <3>2
  <2>. QED
    BY <2>1, <2>2
<1>11. ASSUME NEW f \in Frame, freelist'[f] = 0
       PROVE  \E p \in Proc, a \in Page : pgdir'[p][a] = f
  <2>1. CASE f \in N
    BY <2>1, <1>1
  <2>2. CASE f \notin N
    <3>1. f \notin R /\ freelist[f] = 0
      BY <2>2, <1>6, <1>11, <1>8
    <3>2. PICK p \in Proc, a \in Page : pgdir[p][a] = f
      BY <3>1 DEF IInv, FrameInv
    <3>3. CASE p = q
      BY <3>1, <3>2, <3>3, <1>1
    <3>4. CASE p # q
      BY <3>2, <3>4, <1>1
    <3>. QED
      BY <3>3, <3>4
  <2>. QED
    BY <2>1, <2>2
<1>12. ASSUME NEW p \in Proc, NEW r \in Proc, NEW a \in Page, NEW b \in Page,
              pgdir'[p][a] = pgdir'[r][b], pgdir'[p][a] # 0
       PROVE  \/ p = r /\ a = b
              \/ IsShared(p, a) /\ IsShared(r, b) /\ opened[p] = opened[r]
  <2>1. CASE p = q /\ r = q
    BY <2>1, <1>1, <1>12
  <2>2. CASE p # q /\ r # q
    BY <2>2, <1>1, <1>9, <1>12
  <2>3. CASE p = q /\ r # q
    BY <2>3, <1>1, <1>7, <1>9, <1>12
  <2>4. CASE p # q /\ r = q
    BY <2>4, <1>1, <1>7, <1>9, <1>12
  <2>. QED
    BY <2>1, <2>2, <2>3, <2>4
<1>13. ASSUME NEW p \in Proc, NEW a \in Page, NEW i \in Slot,
              pgdir'[p][a] = shaddr[i], shaddr[i] # 0
       PROVE  IsShared(p, a) /\ opened[p] = shmid[i]
  <2>1. shaddr[i] \notin N
    BY <1>13, <1>5, ShaddrMapped
  <2>2. pgdir[p][a] = shaddr[i]
    BY <2>1, <1>1, <1>13
  <2>. QED
    BY <2>2, <1>13 DEF IInv, FrameInv
<1>14. ASSUME NEW f \in Frame PROVE freelist'[f] \in {0, 1}
  BY <1>5, <1>6, <1>8
<1>15. FrameInv'
  BY <1>3, <1>10, <1>11, <1>12, <1>13, <1>14 DEF FrameInv
<1>16. SharedFrame'
  <2>1. \A p \in Proc : opened[p] # 0 => pgdir'[p][sharingMem'[p]] = pgdir[p][sharingMem[p]]
    BY <1>1
  <2>. QED
    BY <2>1 DEF IInv, SharedFrame
<1>. QED
  BY <1>15, <1>16

\* What holds of the table only is kept when neither it nor who has what open
\* changes.
LEMMA TableSame ==
  ASSUME IInv, UNCHANGED <<opened, shmid, shaddr, refrences>>
  PROVE  TableInv' /\ RefsCountOpeners'
BY DEF IInv, TableInv, RefsCountOpeners

\* A process maps no frame at two of its pages.
LEMMA MapsOnce ==
  ASSUME TypeOK, IInv, NEW p \in Proc, NEW a \in Page, NEW b \in Page,
         pgdir[p][a] = pgdir[p][b], pgdir[p][a] # 0
  PROVE  a = b
BY DEF IInv, FrameInv, IsShared

LEMMA ForkInv ==
  ASSUME TypeOK, IInv, NEW p \in Proc, NEW c \in Proc, Fork(p, c)
  PROVE  IInv'
<1>. USE ConstantFacts
<1>1. \A a \in 0 .. sz[p] - 1 : a \in Page /\ a < sz[p]
  BY SharedMemAssumption DEF TypeOK
<1>2. life[p] = "alive" /\ life[c] = "unused"
  BY DEF Fork, Alive
<1>3. \A a \in 0 .. sz[p] - 1 : pgdir[p][a] # 0
  BY <1>1, <1>2 DEF IInv, ProcInv, ProcOk
<1>4. /\ Cardinality(Free) >= sz[p]
      /\ life' = [life EXCEPT ![c] = "alive"]
      /\ sz' = [sz EXCEPT ![c] = sz[p]]
      /\ pgdir' = [pgdir EXCEPT ![c] = Fresh(sz[p])]
      /\ freelist' = FreeAfter(sz[p], NoPages)
      /\ sharingMem' = [sharingMem EXCEPT ![c] = 0]
      /\ opened' = [opened EXCEPT ![c] = 0]
      /\ UNCHANGED <<tableVars, panicked>>
  BY <1>3 DEF Fork
<1>5. opened[c] = 0 /\ pgdir[c] = NoPages
  BY <1>2 DEF IInv, ProcInv, ProcOk
<1>6. UNCHANGED <<opened, shmid, shaddr, refrences>>
  BY <1>4, <1>5 DEF TypeOK, tableVars
<1>7. sz[p] \in Nat /\ sz[p] <= Cardinality(Free) /\ sz[p] <= MaxSz /\ sz[p] > 0
  BY <1>2, <1>4, FreeFacts, SharedMemAssumption DEF TypeOK, IInv, ProcInv, ProcOk
<1>. DEFINE t == Fresh(sz[p])
            N == Taken(sz[p])
<1>8. /\ t \in [Page -> Frame \cup {0}]
      /\ \A a \in Page : a < sz[p] => t[a] \in N
      /\ \A a \in Page : a >= sz[p] => t[a] = 0
      /\ \A a, b \in Page : t[a] = t[b] /\ t[a] # 0 => a = b
      /\ \A f \in N : \E a \in Page : t[a] = f
      /\ N \subseteq Free
  BY <1>7, FreshFacts, TakenFacts
<1>9. \A f \in Frame :
        /\ f \in N => freelist'[f] = freelist[f] - 1
        /\ f \notin N => freelist'[f] = freelist[f]
  BY <1>4, <1>7, FreeAfterFacts DEF NoPages
<1>. HIDE DEF t, N
<1>10. pgdir' = [pgdir EXCEPT ![c] = t]
  BY <1>4 DEF t
<1>11. FrameInv' /\ SharedFrame'
  <2>1. Unmaps(c, t) = {}
    BY <1>5 DEF NoPages, Unmaps
  <2>2. \A a \in Page : t[a] # 0 => t[a] \in N \/ t[a] = pgdir[c][a]
    BY <1>7, <1>8
  <2>3. \A r \in Proc : opened[r] # 0 => sharingMem'[r] = sharingMem[r]
    BY <1>4, <1>5 DEF TypeOK
  <2>4. HeapChange(c, t, N)
    BY <1>5, <1>6, <1>8, <1>9, <1>10, <2>1, <2>2, <2>3 DEF HeapChange
  <2>. QED
    BY <2>4, HeapStep
<1>12. ProcInv'
  <2>. SUFFICES ASSUME NEW r \in Proc PROVE ProcOk(r)'
    BY DEF ProcInv
  <2>1. CASE r = c
    <3>1. life'[r] = "alive" /\ sz'[r] = sz[p] /\ pgdir'[r] = t /\ opened'[r] = 0
      BY <1>4, <1>10, <2>1 DEF TypeOK
    <3>2. \A f \in N : f # 0
      BY <1>8, FreeFacts
    <3>. QED
      BY <1>7, <1>8, <3>1, <3>2 DEF ProcOk, NoPages
  <2>2. CASE r # c
    <3>1. /\ life'[r] = life[r] /\ sz'[r] = sz[r] /\ pgdir'[r] = pgdir[r]
          /\ opened'[r] = opened[r] /\ sharingMem'[r] = sharingMem[r]
      BY <1>4, <2>2 DEF TypeOK
    <3>. QED
      BY <3>1 DEF IInv, ProcInv, ProcOk, NoPages
  <2>. QED
    BY <2>1, <2>2
<1>13. NoPanic'
  BY <1>4 DEF IInv, NoPanic
<1>. QED
  BY <1>6, <1>11, <1>12, <1>13, TableSame DEF IInv

LEMMA ExecInv ==
  ASSUME TypeOK, IInv, NEW p \in Proc, NEW n \in 1 .. MaxSz, opened[p] = 0, Exec(p, n)
  PROVE  IInv'
<1>. USE ConstantFacts
<1>1. n \in Nat /\ n <= Cardinality(Free) /\ n <= MaxSz /\ n > 0
  BY FreeFacts, SharedMemAssumption DEF Exec
<1>2. UNCHANGED <<opened, shmid, shaddr, refrences, sharingMem, life, panicked>>
  BY DEF Exec, TypeOK, tableVars
<1>. DEFINE t == Fresh(n)
            N == Taken(n)
            R == Unmaps(p, t)
<1>3. /\ t \in [Page -> Frame \cup {0}]
      /\ \A a \in Page : a < n => t[a] \in N
      /\ \A a \in Page : a >= n => t[a] = 0
      /\ \A a, b \in Page : t[a] = t[b] /\ t[a] # 0 => a = b
      /\ \A f \in N : \E a \in Page : t[a] = f
      /\ N \subseteq Free
  BY <1>1, FreshFacts, TakenFacts
<1>4. \A f \in N : f \in Frame /\ f # 0 /\ \A a \in Page : pgdir[p][a] # f
  <2>1. \A f \in N : f \in Frame /\ freelist[f] > 0
    BY <1>3 DEF Free
  <2>. QED
    BY <2>1 DEF IInv, FrameInv
<1>5. DOMAIN pgdir[p] = Page
  BY DEF TypeOK
<1>6. \A a \in Page : t[a] # 0 => t[a] \in N
  BY <1>1, <1>3
<1>7. \A f \in Frame :
        /\ f \in N => freelist'[f] = freelist[f] - 1
        /\ f \in R => freelist'[f] = freelist[f] + 1
        /\ f \notin N /\ f \notin R => freelist'[f] = freelist[f]
  <2>. TAKE f \in Frame
  <2>1. freelist' = FreeAfter(n, pgdir[p])
    BY DEF Exec
  <2>2. \A a, b \in DOMAIN pgdir[p] : pgdir[p][a] = pgdir[p][b] /\ pgdir[p][a] # 0 => a = b
    BY <1>5, MapsOnce
  <2>3. f \notin N /\ f \notin R => \A a \in Page : pgdir[p][a] # f
    BY <1>6 DEF Unmaps
  <2>4. f \in R => f \notin N /\ \E a \in Page : pgdir[p][a] = f
    BY <1>4 DEF Unmaps
  <2>. HIDE DEF R, t
  <2>. QED
    BY <1>1, <1>4, <1>5, <2>1, <2>2, <2>3, <2>4, FreeAfterFacts
<1>. HIDE DEF t, N
<1>8. pgdir' = [pgdir EXCEPT ![p] = t]
  BY DEF Exec, t
<1>9. FrameInv' /\ SharedFrame'
  <2>1. HeapChange(p, t, N)
    BY <1>2, <1>3, <1>6, <1>7, <1>8 DEF HeapChange
  <2>. QED
    BY <2>1, HeapStep
<1>10. ProcInv'
  <2>. SUFFICES ASSUME NEW r \in Proc PROVE ProcOk(r)'
    BY DEF ProcInv
  <2>1. CASE r = p
    <3>1. life'[r] = "alive" /\ sz'[r] = n /\ pgdir'[r] = t /\ opened'[r] = 0
      BY <1>2, <1>8, <2>1 DEF TypeOK, Exec, Alive
    <3>. QED
      BY <1>1, <1>3, <1>4, <3>1 DEF ProcOk, NoPages
  <2>2. CASE r # p
    <3>1. sz'[r] = sz[r] /\ pgdir'[r] = pgdir[r]
      BY <1>8, <2>2 DEF TypeOK, Exec
    <3>. QED
      BY <1>2, <3>1 DEF IInv, ProcInv, ProcOk, NoPages
  <2>. QED
    BY <2>1, <2>2
<1>. QED
  BY <1>2, <1>9, <1>10, TableSame DEF IInv, NoPanic

LEMMA GrowInv ==
  ASSUME TypeOK, IInv, NEW p \in Proc, opened[p] = 0, Grow(p)
  PROVE  IInv'
<1>. USE ConstantFacts
<1>1. sz[p] \in Page /\ sz[p] \in Nat /\ life[p] = "alive" /\ sz[p] > 0
  BY SharedMemAssumption DEF TypeOK, Page, Grow, Alive, IInv, ProcInv, ProcOk
<1>2. pgdir[p][sz[p]] = 0
  BY <1>1 DEF IInv, ProcInv, ProcOk
<1>3. /\ Free # {}
      /\ sz' = [sz EXCEPT ![p] = @ + 1]
      /\ pgdir' = [pgdir EXCEPT ![p][sz[p]] = Kalloc(1)]
      /\ freelist' = FreeAfter(1, NoPages)
      /\ UNCHANGED <<life, sharingMem, shmid, shaddr, refrences, panicked, opened>>
  BY <1>2 DEF Grow, tableVars
<1>. DEFINE k == Kalloc(1)
            t == [pgdir[p] EXCEPT ![sz[p]] = k]
            N == Taken(1)
<1>4. k \in Free /\ k \in Frame /\ 1 <= Cardinality(Free) /\ N = {k}
  <2>1. 1 .. 1 = {1}
    OBVIOUS
  <2>. QED
    BY <1>3, <2>1, FreeFacts, KallocFacts DEF Taken
<1>5. \A f \in Frame :
        /\ f \in N => freelist'[f] = freelist[f] - 1
        /\ f \notin N => freelist'[f] = freelist[f]
  BY <1>3, <1>4, FreeAfterFacts DEF NoPages
<1>6. \A a \in Page : pgdir[p][a] # k
  BY <1>4 DEF Free, IInv, FrameInv
<1>. HIDE DEF k, N
<1>7. /\ t \in [Page -> Frame \cup {0}]
      /\ t[sz[p]] = k
      /\ \A a \in Page : a # sz[p] => t[a] = pgdir[p][a]
  BY <1>1, <1>4 DEF TypeOK
<1>8. \A a, b \in Page : t[a] = t[b] /\ t[a] # 0 => a = b
  BY <1>6, <1>7, MapsOnce
<1>9. Unmaps(p, t) = {}
  BY <1>2, <1>7 DEF Unmaps
<1>10. pgdir' = [pgdir EXCEPT ![p] = t]
  BY <1>3 DEF TypeOK, k
<1>. HIDE DEF t
<1>11. FrameInv' /\ SharedFrame'
  <2>2. \A a \in Page : t[a] # 0 => t[a] \in N \/ t[a] = pgdir[p][a]
    BY <1>4, <1>7
  <2>3. \A f \in N : \E a \in Page : t[a] = f
    BY <1>1, <1>4, <1>7
  <2>4. N \subseteq Free
    BY <1>4
  <2>5. HeapChange(p, t, N)
    BY <1>3, <1>5, <1>7, <1>8, <1>9, <1>10, <2>2, <2>3, <2>4 DEF HeapChange
  <2>. QED
    BY <2>5, HeapStep
<1>12. ProcInv'
  <2>. SUFFICES ASSUME NEW r \in Proc PROVE ProcOk(r)'
    BY DEF ProcInv
  <2>1. CASE r = p
    <3>1. life'[r] = "alive" /\ sz'[r] = sz[p] + 1 /\ pgdir'[r] = t /\ opened'[r] = 0
      BY <1>1, <1>3, <1>10, <2>1 DEF TypeOK
    <3>2. \A a \in Page : a < sz[p] => t[a] # 0
      BY <1>1, <1>7 DEF IInv, ProcInv, ProcOk
    <3>3. \A a \in Page : a > sz[p] => t[a] = 0
      BY <1>1, <1>7 DEF IInv, ProcInv, ProcOk
    <3>. QED
      BY <1>1, <1>4, <1>7, <3>1, <3>2, <3>3 DEF ProcOk, NoPages
  <2>2. CASE r # p
    <3>1. sz'[r] = sz[r] /\ pgdir'[r] = pgdir[r]
      BY <1>3, <1>10, <2>2 DEF TypeOK
    <3>. QED
      BY <1>3, <3>1 DEF IInv, ProcInv, ProcOk, NoPages
  <2>. QED
    BY <2>1, <2>2
<1>. QED
  BY <1>3, <1>11, <1>12, TableSame DEF IInv, NoPanic

LEMMA ShrinkInv ==
  ASSUME TypeOK, IInv, NEW p \in Proc, Shrink(p)
  PROVE  IInv'
<1>. USE ConstantFacts
<1>. DEFINE b == sz[p] - 1
            t == [pgdir[p] EXCEPT ![b] = 0]
            old == [a \in {b} |-> pgdir[p][a]]
<1>1. life[p] = "alive" /\ b \in Page /\ b \in Nat /\ b > 0 /\ b < sz[p] /\ sz[p] \in Nat
  BY SharedMemAssumption DEF TypeOK, Shrink, Alive
<1>2. /\ sz' = [sz EXCEPT ![p] = b]
      /\ pgdir' = [pgdir EXCEPT ![p][b] = 0]
      /\ freelist' = FreeAfter(0, old)
      /\ UNCHANGED <<life, sharingMem, shmid, shaddr, refrences, panicked, opened>>
  BY DEF Shrink, tableVars
<1>3. pgdir[p][b] # 0 /\ pgdir[p][b] \in Frame
  BY <1>1 DEF IInv, ProcInv, ProcOk, TypeOK
<1>4. opened[p] # 0 => sharingMem[p] # b
  BY <1>1 DEF IInv, ProcInv, ProcOk, TypeOK
<1>. HIDE DEF b
<1>5. /\ t \in [Page -> Frame \cup {0}]
      /\ t[b] = 0
      /\ \A a \in Page : a # b => t[a] = pgdir[p][a]
  BY <1>1 DEF TypeOK
<1>6. \A a, c \in Page : t[a] = t[c] /\ t[a] # 0 => a = c
  BY <1>5, MapsOnce
<1>7. pgdir' = [pgdir EXCEPT ![p] = t]
  BY <1>2 DEF TypeOK
<1>. HIDE DEF t
<1>8. Unmaps(p, t) = {pgdir[p][b]}
  <2>1. \A a \in Page : t[a] # pgdir[p][b]
    BY <1>1, <1>3, <1>5, MapsOnce
  <2>. QED
    BY <1>1, <1>3, <1>5, <2>1 DEF Unmaps
<1>9. \A f \in Frame :
        /\ f \in Unmaps(p, t) => freelist'[f] = freelist[f] + 1
        /\ f \notin Unmaps(p, t) => freelist'[f] = freelist[f]
  <2>. TAKE f \in Frame
  <2>1. Taken(0) = {}
    BY DEF Taken
  <2>2. DOMAIN old = {b} /\ IsFiniteSet({b}) /\ old[b] = pgdir[p][b]
    BY FS_Singleton
  <2>. HIDE DEF old
  <2>. QED
    BY <1>2, <1>8, <2>1, <2>2, FreeFacts, FreeAfterFacts
<1>10. FrameInv' /\ SharedFrame'
  <2>1. \A a \in Page : t[a] # 0 => t[a] = pgdir[p][a]
    BY <1>5
  <2>2. opened[p] # 0 => t[sharingMem[p]] = pgdir[p][sharingMem[p]]
    BY <1>4, <1>5 DEF TypeOK
  <2>3. HeapChange(p, t, {})
    BY <1>2, <1>5, <1>6, <1>7, <1>9, <2>1, <2>2 DEF HeapChange
  <2>. QED
    BY <2>3, HeapStep
<1>11. ProcInv'
  <2>. SUFFICES ASSUME NEW r \in Proc PROVE ProcOk(r)'
    BY DEF ProcInv
  <2>1. CASE r = p
    <3>1. /\ life'[r] = "alive" /\ sz'[r] = b /\ pgdir'[r] = t
          /\ opened'[r] = opened[p] /\ sharingMem'[r] = sharingMem[p]
      BY <1>1, <1>2, <1>7, <2>1 DEF TypeOK
    <3>2. \A a \in Page : a < b => t[a] # 0
      <4>. TAKE a \in Page
      <4>1. a < b => a < sz[p] /\ a # b
        BY <1>1
      <4>2. a < sz[p] => pgdir[p][a] # 0
        BY <1>1 DEF IInv, ProcInv, ProcOk
      <4>. QED
        BY <1>5, <4>1, <4>2
    <3>3. \A a \in Page : a > b => a >= sz[p]
      BY <1>1 DEF b
    <3>4. \A a \in Page : a > b /\ t[a] # 0 => opened[p] # 0 /\ a = sharingMem[p]
      BY <1>1, <1>5, <3>3 DEF IInv, ProcInv, ProcOk
    <3>5. opened[p] # 0 => sharingMem[p] >= b
      <4>1. opened[p] # 0 => sharingMem[p] >= sz[p]
        BY DEF IInv, ProcInv, ProcOk
      <4>2. sharingMem[p] \in Nat
        BY DEF TypeOK
      <4>. QED
        BY <1>1, <4>1, <4>2
    <3>6. \A a \in Page : a >= b => a > b \/ a = b
      BY <1>1
    <3>. QED
      BY <1>1, <1>5, <3>1, <3>2, <3>4, <3>5, <3>6 DEF ProcOk, NoPages
  <2>2. CASE r # p
    <3>1. sz'[r] = sz[r] /\ pgdir'[r] = pgdir[r]
      BY <1>2, <1>7, <2>2 DEF TypeOK
    <3>. QED
      BY <1>2, <3>1 DEF IInv, ProcInv, ProcOk, NoPages
  <2>. QED
    BY <2>1, <2>2
<1>. QED
  BY <1>2, <1>10, <1>11, TableSame DEF IInv, NoPanic

LEMMA WaitInv ==
  ASSUME TypeOK, IInv, NEW p \in Proc, Wait(p)
  PROVE  IInv'
<1>. USE ConstantFacts
<1>1. opened[p] = 0
  BY DEF Wait, IInv, ProcInv, ProcOk
<1>2. /\ life' = [life EXCEPT ![p] = "unused"]
      /\ pgdir' = [pgdir EXCEPT ![p] = NoPages]
      /\ freelist' = FreeAfter(0, pgdir[p])
      /\ UNCHANGED <<sz, sharingMem, shmid, shaddr, refrences, panicked, opened>>
  BY DEF Wait, tableVars
<1>3. /\ NoPages \in [Page -> Frame \cup {0}]
      /\ \A a \in Page : NoPages[a] = 0
  BY DEF NoPages
<1>4. \A f \in Frame :
        /\ f \in Unmaps(p, NoPages) => freelist'[f] = freelist[f] + 1
        /\ f \notin Unmaps(p, NoPages) => freelist'[f] = freelist[f]
  <2>. TAKE f \in Frame
  <2>1. Taken(0) = {}
    BY DEF Taken
  <2>2. DOMAIN pgdir[p] = Page
    BY DEF TypeOK
  <2>3. \A a, b \in Page : pgdir[p][a] = pgdir[p][b] /\ pgdir[p][a] # 0 => a = b
    BY MapsOnce
  <2>4. f \in Unmaps(p, NoPages) <=> \E a \in Page : pgdir[p][a] = f
    BY <1>3 DEF Unmaps
  <2>. QED
    BY <1>2, <2>1, <2>2, <2>3, <2>4, FreeFacts, FreeAfterFacts
<1>5. FrameInv' /\ SharedFrame'
  <2>1. HeapChange(p, NoPages, {})
    BY <1>1, <1>2, <1>3, <1>4 DEF HeapChange
  <2>. QED
    BY <2>1, HeapStep
<1>6. ProcInv'
  <2>. SUFFICES ASSUME NEW r \in Proc PROVE ProcOk(r)'
    BY DEF ProcInv
  <2>1. CASE r = p
    BY <1>1, <1>2, <2>1 DEF TypeOK, ProcOk, NoPages
  <2>2. CASE r # p
    <3>1. life'[r] = life[r] /\ pgdir'[r] = pgdir[r]
      BY <1>2, <2>2 DEF TypeOK
    <3>. QED
      BY <1>2, <3>1 DEF IInv, ProcInv, ProcOk, NoPages
  <2>. QED
    BY <2>1, <2>2
<1>. QED
  BY <1>2, <1>5, <1>6, TableSame DEF IInv, NoPanic

LEMMA ExitInv ==
  ASSUME TypeOK, IInv, NEW p \in Proc, opened[p] = 0, Exit(p)
  PROVE  IInv'
<1>1. UNCHANGED <<opened, sz, pgdir, sharingMem, shmid, shaddr, refrences, freelist, panicked>>
  BY DEF Exit, TypeOK, tableVars
<1>2. FrameInv' /\ SharedFrame'
  BY <1>1 DEF IInv, FrameInv, SharedFrame, IsShared
<1>3. ProcInv'
  <2>1. \A r \in Proc : life'[r] = IF r = p THEN "zombie" ELSE life[r]
    BY DEF Exit, TypeOK
  <2>. QED
    BY <1>1, <2>1 DEF IInv, ProcInv, ProcOk, NoPages
<1>. QED
  BY <1>1, <1>2, <1>3, TableSame DEF IInv, NoPanic

-----------------------------------------------------------------------------
(* The calls on shared pages.                                              *)

\* Initializing the table forgets nothing while no process has a page open.
LEMMA InitInv ==
  ASSUME TypeOK, IInv, NEW p \in Proc, \A q \in Proc : opened[q] = 0, InitSharedmem(p)
  PROVE  IInv'
<1>1. /\ \A i \in Slot : shmid'[i] = -1 /\ refrences'[i] = 0
      /\ UNCHANGED <<opened, life, sz, pgdir, sharingMem, shaddr, freelist, panicked>>
  BY DEF InitSharedmem, procVars
<1>2. \A i \in Slot : refrences[i] = 0 /\ shaddr[i] = 0
  <2>. TAKE i \in Slot
  <2>1. {q \in Proc : opened[q] # 0 /\ opened[q] = shmid[i]} = {}
    OBVIOUS
  <2>2. refrences[i] = 0
    BY <2>1, FS_EmptySet DEF IInv, RefsCountOpeners
  <2>. QED
    BY <2>2 DEF IInv, TableInv
<1>3. RefsCountOpeners'
  <2>1. \A i \in Slot : {q \in Proc : opened'[q] # 0 /\ opened'[q] = shmid'[i]} = {}
    BY <1>1
  <2>. QED
    BY <1>1, <2>1, FS_EmptySet DEF RefsCountOpeners
<1>4. TableInv'
  BY <1>1, <1>2 DEF TableInv
<1>5. SharedFrame'
  BY <1>1 DEF SharedFrame
<1>6. FrameInv'
  BY <1>1, <1>2 DEF IInv, FrameInv, IsShared
<1>7. ProcInv'
  BY <1>1 DEF IInv, ProcInv, ProcOk, NoPages
<1>. QED
  BY <1>1, <1>3, <1>4, <1>5, <1>6, <1>7 DEF IInv, NoPanic

LEMMA OpenersFinite ==
  \A id : IsFiniteSet(Openers(id)) /\ Cardinality(Openers(id)) \in Nat
<1>. TAKE id
<1>1. IsFiniteSet(Openers(id))
  BY SharedMemAssumption, FS_Subset DEF Openers
<1>. QED
  BY <1>1, FS_CardinalityType

LEMMA RefsAreOpeners ==
  RefsCountOpeners <=> \A i \in Slot : refrences[i] = Cardinality(Openers(shmid[i]))
BY DEF RefsCountOpeners, Openers

\* The slot of an id counts its openers; a free slot is taken if there are none.
LEMMA SlotFacts ==
  ASSUME TypeOK, IInv, NEW id \in Id, NEW i \in Slot, SlotFor(id, i)
  PROVE  /\ \A j \in Slot : shmid[j] = id => j = i
         /\ refrences[i] = Cardinality(Openers(id)) /\ refrences[i] \in Nat
         /\ refrences[i] # 0 => shmid[i] = id
<1>. USE ConstantFacts
<1>1. \A j \in Slot : refrences[j] = Cardinality(Openers(shmid[j]))
  BY RefsAreOpeners DEF IInv
<1>2. CASE shmid[i] = id
  BY <1>1, <1>2, OpenersFinite DEF IInv, TableInv
<1>3. CASE shmid[i] # id
  <2>1. shmid[i] = -1 /\ \A j \in Slot : shmid[j] # id
    BY <1>3 DEF SlotFor, Holds
  <2>2. Openers(id) = {}
    BY <2>1 DEF Openers, IInv, SharedFrame
  <2>3. \A p \in Proc : opened[p] \in Nat
    BY DEF TypeOK
  <2>4. Openers(-1) = {}
    BY <2>3 DEF Openers
  <2>. QED
    BY <1>1, <2>1, <2>2, <2>4, FS_EmptySet
<1>. QED
  BY <1>2, <1>3

LEMMA OpenInv ==
  ASSUME TypeOK, IInv, NEW p \in Proc, NEW id \in Id, OpenSharedmem(p, id)
  PROVE  IInv'
<1>. USE ConstantFacts
<1>. DEFINE n(i) == IF refrences[i] = 0 THEN 1 ELSE 0
            g(i) == IF refrences[i] = 0 THEN Kalloc(1) ELSE shaddr[i]
            a0 == sz[p]
<1>1. PICK i \in Slot :
        /\ SlotFor(id, i)
        /\ refrences[i] = 0 => Free # {}
        /\ pgdir' = [pgdir EXCEPT ![p][sz[p]] = g(i)]
        /\ shaddr' = [shaddr EXCEPT ![i] = g(i)]
        /\ freelist' = FreeAfter(n(i), NoPages)
        /\ refrences' = [refrences EXCEPT ![i] = @ + 1]
        /\ shmid' = [shmid EXCEPT ![i] = id]
  BY Zenon DEF OpenSharedmem
<1>2. /\ life[p] = "alive" /\ sharingMem[p] = 0
      /\ sharingMem' = [sharingMem EXCEPT ![p] = a0]
      /\ opened' = [opened EXCEPT ![p] = id]
      /\ UNCHANGED <<life, sz, panicked>>
  BY DEF OpenSharedmem, Alive, procVars
<1>3. a0 \in Page /\ a0 \in Nat /\ a0 > 0 /\ id # 0
  BY <1>2, SharedMemAssumption DEF TypeOK, Page, IInv, ProcInv, ProcOk
<1>4. opened[p] = 0
  BY <1>2, <1>3 DEF IInv, ProcInv, ProcOk
<1>5. \A a \in Page : a >= a0 => pgdir[p][a] = 0
  BY <1>2, <1>4 DEF IInv, ProcInv, ProcOk
<1>6. /\ \A j \in Slot : shmid[j] = id => j = i
      /\ refrences[i] = Cardinality(Openers(id)) /\ refrences[i] \in Nat
      /\ refrences[i] # 0 => shmid[i] = id
  BY <1>1, SlotFacts
<1>7. /\ g(i) \in Frame
      /\ refrences[i] = 0 => freelist[g(i)] = 1
      /\ refrences[i] # 0 => freelist[g(i)] = 0 /\ g(i) = shaddr[i] /\ shaddr[i] # 0
  <2>1. CASE refrences[i] = 0
    <3>1. g(i) \in Free
      BY <1>1, <2>1, FreeFacts, KallocFacts
    <3>. HIDE DEF g
    <3>. QED
      BY <2>1, <3>1 DEF Free, IInv, FrameInv
  <2>2. CASE refrences[i] # 0
    <3>1. shaddr[i] # 0 /\ g(i) = shaddr[i]
      BY <2>2 DEF IInv, TableInv
    <3>. HIDE DEF g
    <3>. QED
      BY <2>2, <3>1, ShaddrMapped
  <2>. QED
    BY <2>1, <2>2
<1>8. \A f \in Frame :
        freelist'[f] = IF f = g(i) THEN 0 ELSE freelist[f]
  <2>. TAKE f \in Frame
  <2>1. DOMAIN NoPages = Page /\ \A a \in Page : NoPages[a] = 0
    BY DEF NoPages
  <2>2. CASE refrences[i] = 0
    <3>1. freelist' = FreeAfter(1, NoPages) /\ g(i) = Kalloc(1)
      BY <1>1, <2>2
    <3>2. Taken(1) = {Kalloc(1)}
      <4>1. 1 .. 1 = {1}
        OBVIOUS
      <4>. QED
        BY <4>1 DEF Taken
    <3>. HIDE DEF g
    <3>. QED
      BY <1>1, <1>7, <2>1, <2>2, <3>1, <3>2, FreeFacts, FreeAfterFacts
  <2>3. CASE refrences[i] # 0
    <3>1. freelist' = FreeAfter(0, NoPages)
      BY <1>1, <2>3
    <3>2. Taken(0) = {}
      BY DEF Taken
    <3>. HIDE DEF g
    <3>. QED
      BY <1>7, <2>1, <2>3, <3>1, <3>2, FreeFacts, FreeAfterFacts
  <2>. QED
    BY <2>2, <2>3
<1>. DEFINE h == g(i)
<1>9. /\ \A r \in Proc, a \in Page :
           pgdir'[r][a] = IF r = p /\ a = a0 THEN h ELSE pgdir[r][a]
      /\ \A j \in Slot : shaddr'[j] = IF j = i THEN h ELSE shaddr[j]
  <2>. HIDE DEF g
  <2>. QED
    BY <1>1, <1>3 DEF TypeOK
<1>10. /\ \A j \in Slot : shmid'[j] = IF j = i THEN id ELSE shmid[j]
       /\ \A j \in Slot : refrences'[j] = IF j = i THEN refrences[i] + 1 ELSE refrences[j]
       /\ \A r \in Proc : /\ opened'[r] = IF r = p THEN id ELSE opened[r]
                          /\ sharingMem'[r] = IF r = p THEN a0 ELSE sharingMem[r]
  BY <1>1, <1>2 DEF TypeOK
<1>11. \A j \in Slot : shaddr[j] = h => j = i
  <2>. TAKE j \in Slot
  <2>. SUFFICES ASSUME shaddr[j] = h PROVE j = i
    OBVIOUS
  <2>. HIDE DEF g
  <2>1. freelist[h] = 0 /\ shaddr[j] # 0
    BY <1>7, ShaddrMapped
  <2>2. refrences[i] # 0 /\ h = shaddr[i]
    BY <1>7, <2>1
  <2>. QED
    BY <2>1, <2>2 DEF IInv, TableInv
<1>12. /\ h \in Frame /\ h # 0 /\ \A f \in Frame : freelist'[f] = IF f = h THEN 0 ELSE freelist[f]
       /\ refrences[i] = 0 => freelist[h] = 1
       /\ refrences[i] # 0 => h = shaddr[i] /\ shmid[i] = id
  BY <1>6, <1>7, <1>8
<1>. HIDE DEF g, h, a0
<1>13. \A r \in Proc, a \in Page :
         /\ IsShared(r, a)' <=> IF r = p THEN a = a0 ELSE IsShared(r, a)
         /\ ~IsShared(p, a)
  BY <1>3, <1>4, <1>10 DEF IsShared
<1>14. \A r \in Proc, a \in Page : pgdir[r][a] = h => IsShared(r, a) /\ opened[r] = id
  <2>. TAKE r \in Proc, a \in Page
  <2>. SUFFICES ASSUME pgdir[r][a] = h PROVE IsShared(r, a) /\ opened[r] = id
    OBVIOUS
  <2>1. freelist[h] = 0
    BY <1>12 DEF IInv, FrameInv
  <2>2. h = shaddr[i] /\ shmid[i] = id
    BY <1>12, <2>1
  <2>. QED
    BY <1>12, <2>2 DEF IInv, FrameInv
<1>15. RefsCountOpeners'
  <2>1. /\ IsFiniteSet(Openers(id)) /\ p \notin Openers(id)
    BY <1>3, <1>4, OpenersFinite DEF Openers
  <2>2. Cardinality(Openers(id) \cup {p}) = Cardinality(Openers(id)) + 1
    BY <2>1, FS_AddElement
  <2>3. ASSUME NEW j \in Slot
        PROVE  refrences'[j] = Cardinality({q \in Proc : opened'[q] # 0 /\ opened'[q] = shmid'[j]})
    <3>. DEFINE S == {q \in Proc : opened'[q] # 0 /\ opened'[q] = shmid'[j]}
    <3>1. CASE j = i
      <4>1. S = Openers(id) \cup {p}
        BY <1>3, <1>10, <3>1 DEF Openers
      <4>. QED
        BY <1>6, <1>10, <2>2, <3>1, <4>1
    <3>2. CASE j # i
      <4>1. S = Openers(shmid[j])
        BY <1>4, <1>6, <1>10, <3>2 DEF Openers
      <4>2. refrences[j] = Cardinality(Openers(shmid[j]))
        BY RefsAreOpeners DEF IInv
      <4>. QED
        BY <1>10, <3>2, <4>1, <4>2
    <3>. QED
      BY <3>1, <3>2
  <2>. QED
    BY <2>3 DEF RefsCountOpeners
<1>16. TableInv'
  <2>1. \A j, k \in Slot : shmid'[j] = shmid'[k] /\ shmid'[j] > 0 => j = k
    BY <1>6, <1>10 DEF IInv, TableInv
  <2>2. \A j \in Slot : shaddr'[j] # 0 <=> refrences'[j] # 0
    BY <1>6, <1>9, <1>10, <1>12 DEF IInv, TableInv
  <2>3. \A j, k \in Slot : shaddr'[j] = shaddr'[k] /\ shaddr'[j] # 0 => j = k
    BY <1>9, <1>11 DEF IInv, TableInv
  <2>. QED
    BY <2>1, <2>2, <2>3 DEF TableInv
<1>17. SharedFrame'
  <2>. SUFFICES ASSUME NEW r \in Proc, opened'[r] # 0
                PROVE  \E k \in Slot :
                         /\ \A j \in Slot : shmid'[j] = opened'[r] <=> j = k
                         /\ shaddr'[k] # 0 /\ pgdir'[r][sharingMem'[r]] = shaddr'[k]
                         /\ \A j \in Slot : shaddr'[j] = shaddr'[k] => j = k
    BY DEF SharedFrame
  <2>1. CASE r = p
    <3>1. \A j \in Slot : shmid'[j] = opened'[r] <=> j = i
      BY <1>6, <1>10, <2>1
    <3>2. shaddr'[i] # 0 /\ pgdir'[r][sharingMem'[r]] = shaddr'[i]
      BY <1>3, <1>9, <1>10, <1>12, <2>1
    <3>3. \A j \in Slot : shaddr'[j] = shaddr'[i] => j = i
      BY <1>9, <1>11
    <3>. QED
      BY <3>1, <3>2, <3>3
  <2>2. CASE r # p
    <3>1. opened'[r] = opened[r] /\ sharingMem'[r] = sharingMem[r] /\ sharingMem[r] \in Page
      BY <1>10, <2>2 DEF TypeOK
    <3>2. PICK k \in Slot :
             /\ \A j \in Slot : shmid[j] = opened[r] <=> j = k
             /\ shaddr[k] # 0 /\ pgdir[r][sharingMem[r]] = shaddr[k]
             /\ \A j \in Slot : shaddr[j] = shaddr[k] => j = k
      BY <3>1 DEF IInv, SharedFrame
    <3>3. pgdir'[r][sharingMem'[r]] = shaddr[k]
      BY <1>9, <2>2, <3>1, <3>2
    <3>4. shmid[k] = opened[r]
      BY <3>2
    <3>5. refrences[k] # 0
      BY <3>2 DEF IInv, TableInv
    <3>6. shaddr'[k] = shaddr[k]
      BY <1>9, <1>12, <3>5
    <3>7. \A j \in Slot : shmid'[j] = opened'[r] <=> j = k
      <4>. TAKE j \in Slot
      <4>1. CASE j = i /\ i # k
        <5>1. opened[r] # id
          <6>1. opened[r] = id => shmid[k] = id
            BY <3>4
          <6>. QED
            BY <1>6, <4>1, <6>1
        <5>. QED
          BY <1>10, <3>1, <4>1, <5>1
      <4>2. CASE j = i /\ i = k
        <5>1. shmid[i] = id
          BY <1>12, <3>5, <4>2
        <5>. QED
          BY <1>10, <3>1, <3>4, <4>2, <5>1
      <4>3. CASE j # i
        BY <1>10, <3>1, <3>2, <4>3
      <4>. QED
        BY <4>1, <4>2, <4>3
    <3>8. \A j \in Slot : shaddr'[j] = shaddr'[k] => j = k
      BY <1>9, <1>11, <3>2, <3>6
    <3>. QED
      BY <3>2, <3>3, <3>6, <3>7, <3>8
  <2>. QED
    BY <2>1, <2>2
<1>18. FrameInv'
  <2>1. \A f \in Frame : freelist'[f] \in {0, 1}
    BY <1>12 DEF IInv, FrameInv
  <2>2. \A r \in Proc, a \in Page : pgdir'[r][a] # 0 => freelist'[pgdir'[r][a]] = 0
    <3>. TAKE r \in Proc, a \in Page
    <3>1. pgdir[r][a] \in Frame \cup {0}
      BY DEF TypeOK
    <3>. QED
      BY <1>9, <1>12, <3>1 DEF IInv, FrameInv
  <2>3. \A f \in Frame : freelist'[f] = 0 => \E r \in Proc, a \in Page : pgdir'[r][a] = f
    <3>. SUFFICES ASSUME NEW f \in Frame, freelist'[f] = 0
                  PROVE  \E r \in Proc, a \in Page : pgdir'[r][a] = f
      OBVIOUS
    <3>1. CASE f = h
      BY <1>3, <1>9, <3>1
    <3>2. CASE f # h
      <4>1. PICK r \in Proc, a \in Page : pgdir[r][a] = f
        BY <1>12, <3>2 DEF IInv, FrameInv
      <4>2. ~(r = p /\ a = a0)
        BY <1>3, <1>5, <4>1 DEF a0
      <4>. QED
        BY <1>9, <4>1, <4>2
    <3>. QED
      BY <3>1, <3>2
  <2>4. ASSUME NEW r \in Proc, NEW q \in Proc, NEW a \in Page, NEW b \in Page,
               pgdir'[r][a] = pgdir'[q][b], pgdir'[r][a] # 0
        PROVE  \/ r = q /\ a = b
               \/ IsShared(r, a)' /\ IsShared(q, b)' /\ opened'[r] = opened'[q]
    <3>1. CASE r = p /\ a = a0
      <4>1. pgdir'[q][b] = h
        BY <1>9, <2>4, <3>1
      <4>2. CASE q = p /\ b = a0
        BY <3>1, <4>2
      <4>3. CASE ~(q = p /\ b = a0)
        <5>1. IsShared(q, b) /\ opened[q] = id
          BY <1>9, <1>14, <4>1, <4>3
        <5>2. q # p
          BY <1>13, <5>1
        <5>. QED
          BY <1>10, <1>13, <3>1, <5>1, <5>2
      <4>. QED
        BY <4>2, <4>3
    <3>2. CASE q = p /\ b = a0
      <4>1. pgdir'[r][a] = h
        BY <1>9, <2>4, <3>2
      <4>2. CASE r = p /\ a = a0
        BY <3>2, <4>2
      <4>3. CASE ~(r = p /\ a = a0)
        <5>1. IsShared(r, a) /\ opened[r] = id
          BY <1>9, <1>14, <4>1, <4>3
        <5>2. r # p
          BY <1>13, <5>1
        <5>. QED
          BY <1>10, <1>13, <3>2, <5>1, <5>2
      <4>. QED
        BY <4>2, <4>3
    <3>3. CASE ~(r = p /\ a = a0) /\ ~(q = p /\ b = a0)
      <4>1. pgdir[r][a] = pgdir[q][b] /\ pgdir[r][a] # 0
        BY <1>9, <2>4, <3>3
      <4>2. \/ r = q /\ a = b
            \/ IsShared(r, a) /\ IsShared(q, b) /\ opened[r] = opened[q]
        BY <4>1 DEF IInv, FrameInv
      <4>3. (IsShared(r, a) => r # p) /\ (IsShared(q, b) => q # p)
        BY <1>13
      <4>. QED
        BY <1>10, <1>13, <4>2, <4>3
    <3>. QED
      BY <3>1, <3>2, <3>3
  <2>5. ASSUME NEW r \in Proc, NEW a \in Page, NEW j \in Slot,
               pgdir'[r][a] = shaddr'[j], shaddr'[j] # 0
        PROVE  IsShared(r, a)' /\ opened'[r] = shmid'[j]
    <3>1. CASE r = p /\ a = a0
      <4>1. shaddr'[j] = h
        BY <1>9, <2>5, <3>1
      <4>2. j = i
        BY <1>9, <1>11, <4>1
      <4>. QED
        BY <1>10, <1>13, <3>1, <4>2
    <3>2. CASE ~(r = p /\ a = a0)
      <4>1. pgdir[r][a] = shaddr'[j]
        BY <1>9, <2>5, <3>2
      <4>2. CASE j = i
        <5>1. IsShared(r, a) /\ opened[r] = id
          BY <1>9, <1>14, <4>1, <4>2
        <5>2. r # p
          BY <1>13, <5>1
        <5>. QED
          BY <1>10, <1>13, <4>2, <5>1, <5>2
      <4>3. CASE j # i
        <5>1. pgdir[r][a] = shaddr[j] /\ shaddr[j] # 0
          BY <1>9, <2>5, <4>1, <4>3
        <5>2. IsShared(r, a) /\ opened[r] = shmid[j]
          BY <5>1 DEF IInv, FrameInv
        <5>3. r # p
          BY <1>13, <5>2
        <5>. QED
          BY <1>10, <1>13, <4>3, <5>2, <5>3
      <4>. QED
        BY <4>2, <4>3
    <3>. QED
      BY <3>1, <3>2
  <2>. QED
    BY <2>1, <2>2, <2>3, <2>4, <2>5 DEF FrameInv
<1>19. ProcInv'
  <2>. SUFFICES ASSUME NEW r \in Proc PROVE ProcOk(r)'
    BY DEF ProcInv
  <2>1. CASE r = p
    <3>1. life'[r] = "alive" /\ sz'[r] = a0 /\ opened'[r] # 0 /\ sharingMem'[r] = a0
      BY <1>2, <1>3, <1>10, <2>1 DEF a0
    <3>2. \A a \in Page : a < a0 => pgdir[p][a] # 0
      BY <1>2 DEF IInv, ProcInv, ProcOk, a0
    <3>3. \A a \in Page : a # a0 /\ a >= a0 => pgdir'[p][a] = 0
      BY <1>5, <1>9
    <3>4. \A a \in Page : a < a0 => pgdir'[p][a] # 0
      BY <1>3, <1>9, <3>2
    <3>. QED
      BY <1>3, <2>1, <3>1, <3>3, <3>4 DEF ProcOk, NoPages
  <2>2. CASE r # p
    <3>1. pgdir'[r] = pgdir[r]
      BY <1>1, <2>2 DEF TypeOK
    <3>. QED
      BY <1>2, <1>10, <2>2, <3>1 DEF IInv, ProcInv, ProcOk, NoPages
  <2>. QED
    BY <2>1, <2>2
<1>. QED
  BY <1>2, <1>15, <1>16, <1>17, <1>18, <1>19 DEF IInv, NoPanic

LEMMA CloseInv ==
  ASSUME TypeOK, IInv, NEW p \in Proc, opened[p] # 0, CloseSharedmem(p, opened[p])
  PROVE  IInv'
<1>. USE ConstantFacts
<1>. DEFINE id == opened[p]
            b0 == sharingMem[p]
<1>1. PICK i \in Slot :
        /\ Holds(id, i)
        /\ refrences' = [refrences EXCEPT ![i] = @ - 1]
        /\ \/ /\ refrences[i] = 1
              /\ freelist' = FreeAfter(0, [a \in {0} |-> shaddr[i]])
              /\ shmid' = [shmid EXCEPT ![i] = -1]
              /\ shaddr' = [shaddr EXCEPT ![i] = 0]
           \/ refrences[i] # 1 /\ UNCHANGED <<freelist, shmid, shaddr>>
  BY DEF CloseSharedmem
<1>2. /\ pgdir' = [pgdir EXCEPT ![p][b0] = 0]
      /\ opened' = [opened EXCEPT ![p] = 0]
      /\ UNCHANGED <<life, sz, sharingMem, panicked>>
  BY DEF CloseSharedmem, Unmapped, procVars
<1>3. id \in Id /\ id # 0 /\ b0 \in Page
  BY DEF TypeOK
<1>4. /\ \A j \in Slot : shmid[j] = id <=> j = i
      /\ shaddr[i] # 0 /\ pgdir[p][b0] = shaddr[i]
  <2>1. shmid[i] = id
    BY <1>1 DEF Holds
  <2>. QED
    BY <1>3, <2>1 DEF IInv, SharedFrame
<1>. DEFINE h == shaddr[i]
<1>5. h \in Frame /\ freelist[h] = 0 /\ \A j \in Slot : shaddr[j] = h => j = i
  BY <1>4, ShaddrMapped DEF IInv, TableInv
<1>6. \A r \in Proc, a \in Page : pgdir[r][a] = h => IsShared(r, a) /\ opened[r] = id
  BY <1>4 DEF IInv, FrameInv
<1>7. /\ refrences[i] = Cardinality(Openers(id)) /\ refrences[i] \in Nat
      /\ p \in Openers(id) /\ refrences[i] # 0
  <2>1. refrences[i] = Cardinality(Openers(id))
    BY <1>4, RefsAreOpeners DEF IInv
  <2>2. p \in Openers(id)
    BY DEF Openers
  <2>. QED
    BY <2>1, <2>2, OpenersFinite, FS_EmptySet
<1>. HIDE DEF id, b0, h
<1>8. /\ \A r \in Proc, a \in Page :
           pgdir'[r][a] = IF r = p /\ a = b0 THEN 0 ELSE pgdir[r][a]
      /\ \A r \in Proc : opened'[r] = IF r = p THEN 0 ELSE opened[r]
      /\ \A j \in Slot : refrences'[j] = IF j = i THEN refrences[i] - 1 ELSE refrences[j]
  BY <1>1, <1>2, <1>3 DEF TypeOK
<1>9. \A r \in Proc, a \in Page : IsShared(r, a)' <=> r # p /\ IsShared(r, a)
  BY <1>2, <1>8 DEF IsShared
<1>10. \A a \in Page : IsShared(p, a) <=> a = b0
  BY <1>3 DEF IsShared, id, b0
\* The last close frees the slot and its frame, an earlier one keeps them.
<1>11. ASSUME refrences[i] = 1
       PROVE  RefsCountOpeners' /\ TableInv' /\ SharedFrame' /\ FrameInv'
  <2>1. Openers(id) = {p}
    <3>1. PICK x : Openers(id) = {x}
      BY <1>7, <1>11, OpenersFinite, FS_Singleton
    <3>. QED
      BY <1>7, <3>1
  <2>2. /\ \A j \in Slot : shmid'[j] = IF j = i THEN -1 ELSE shmid[j]
        /\ \A j \in Slot : shaddr'[j] = IF j = i THEN 0 ELSE shaddr[j]
    BY <1>1, <1>11 DEF TypeOK
  <2>3. \A f \in Frame : freelist'[f] = IF f = h THEN 1 ELSE freelist[f]
    <3>. TAKE f \in Frame
    <3>. DEFINE t == [a \in {0} |-> shaddr[i]]
    <3>1. freelist' = FreeAfter(0, t)
      BY <1>1, <1>11
    <3>2. DOMAIN t = {0} /\ t[0] = h /\ IsFiniteSet({0})
      BY FS_Singleton DEF h
    <3>3. Taken(0) = {}
      BY DEF Taken
    <3>. HIDE DEF t
    <3>. QED
      BY <1>5, <3>1, <3>2, <3>3, FreeFacts, FreeAfterFacts
  <2>4. \A r \in Proc, a \in Page : pgdir[r][a] = h => r = p /\ a = b0
    <3>1. \A r \in Proc : opened[r] = id => r = p
      BY <1>3, <2>1 DEF Openers
    <3>. QED
      BY <1>6, <1>10, <3>1
  <2>5. \A r \in Proc : r # p => opened[r] # id
    BY <1>3, <2>1 DEF Openers
  <2>6. RefsCountOpeners'
    <3>1. ASSUME NEW j \in Slot
          PROVE  refrences'[j] = Cardinality({q \in Proc : opened'[q] # 0 /\ opened'[q] = shmid'[j]})
      <4>. DEFINE S == {q \in Proc : opened'[q] # 0 /\ opened'[q] = shmid'[j]}
      <4>1. CASE j = i
        <5>1. \A q \in Proc : opened[q] \in Nat
          BY DEF TypeOK
        <5>2. S = {}
          BY <1>8, <2>2, <4>1, <5>1
        <5>3. refrences'[j] = 0
          BY <1>8, <1>11, <4>1
        <5>4. Cardinality(S) = 0
          BY <5>2, FS_EmptySet
        <5>. QED
          BY <5>3, <5>4
      <4>2. CASE j # i
        <5>1. S = Openers(shmid[j])
          BY <1>4, <1>8, <2>2, <4>2 DEF Openers, id
        <5>. QED
          BY <1>8, <4>2, <5>1, RefsAreOpeners DEF IInv
      <4>. QED
        BY <4>1, <4>2
    <3>. QED
      BY <3>1 DEF RefsCountOpeners
  <2>7. TableInv'
    BY <1>8, <1>11, <2>2 DEF IInv, TableInv
  <2>8. SharedFrame'
    <3>. SUFFICES ASSUME NEW r \in Proc, opened'[r] # 0
                  PROVE  \E k \in Slot :
                           /\ \A j \in Slot : shmid'[j] = opened'[r] <=> j = k
                           /\ shaddr'[k] # 0 /\ pgdir'[r][sharingMem'[r]] = shaddr'[k]
                           /\ \A j \in Slot : shaddr'[j] = shaddr'[k] => j = k
      BY DEF SharedFrame
    <3>1. r # p /\ opened'[r] = opened[r] /\ sharingMem'[r] = sharingMem[r]
          /\ sharingMem[r] \in Page /\ opened[r] # id /\ opened[r] \in Nat
      BY <1>2, <1>8, <2>5 DEF TypeOK
    <3>2. PICK k \in Slot :
             /\ \A j \in Slot : shmid[j] = opened[r] <=> j = k
             /\ shaddr[k] # 0 /\ pgdir[r][sharingMem[r]] = shaddr[k]
             /\ \A j \in Slot : shaddr[j] = shaddr[k] => j = k
      BY <1>8, <3>1 DEF IInv, SharedFrame
    <3>3. k # i
      BY <1>4, <3>1, <3>2
    <3>4. \A j \in Slot : shmid'[j] = opened'[r] <=> j = k
      <4>. TAKE j \in Slot
      <4>1. shmid'[i] = -1 /\ opened'[r] # -1
        BY <2>2, <3>1
      <4>. QED
        BY <2>2, <3>1, <3>2, <3>3, <4>1
    <3>. QED
      BY <1>8, <2>2, <3>1, <3>2, <3>3, <3>4
  <2>9. FrameInv'
    <3>1. \A f \in Frame : freelist'[f] \in {0, 1}
      BY <2>3 DEF IInv, FrameInv
    <3>2. \A r \in Proc, a \in Page : pgdir'[r][a] # 0 => freelist'[pgdir'[r][a]] = 0
      <4>. TAKE r \in Proc, a \in Page
      <4>1. pgdir[r][a] \in Frame \cup {0}
        BY DEF TypeOK
      <4>. QED
        BY <1>8, <2>3, <2>4, <4>1 DEF IInv, FrameInv
    <3>3. \A f \in Frame : freelist'[f] = 0 => \E r \in Proc, a \in Page : pgdir'[r][a] = f
      <4>. SUFFICES ASSUME NEW f \in Frame, freelist'[f] = 0
                    PROVE  \E r \in Proc, a \in Page : pgdir'[r][a] = f
        OBVIOUS
      <4>1. f # h /\ freelist[f] = 0
        BY <2>3
      <4>2. PICK r \in Proc, a \in Page : pgdir[r][a] = f
        BY <4>1 DEF IInv, FrameInv
      <4>3. ~(r = p /\ a = b0)
        BY <1>4, <4>1, <4>2 DEF h, b0
      <4>. QED
        BY <1>8, <4>2, <4>3
    <3>4. ASSUME NEW r \in Proc, NEW q \in Proc, NEW a \in Page, NEW b \in Page,
                 pgdir'[r][a] = pgdir'[q][b], pgdir'[r][a] # 0
          PROVE  \/ r = q /\ a = b
                 \/ IsShared(r, a)' /\ IsShared(q, b)' /\ opened'[r] = opened'[q]
      <4>1. /\ ~(r = p /\ a = b0) /\ ~(q = p /\ b = b0)
            /\ pgdir[r][a] = pgdir[q][b] /\ pgdir[r][a] # 0
        BY <1>8, <3>4
      <4>2. \/ r = q /\ a = b
            \/ IsShared(r, a) /\ IsShared(q, b) /\ opened[r] = opened[q]
        BY <4>1 DEF IInv, FrameInv
      <4>. QED
        BY <1>8, <1>9, <1>10, <4>1, <4>2
    <3>5. ASSUME NEW r \in Proc, NEW a \in Page, NEW j \in Slot,
                 pgdir'[r][a] = shaddr'[j], shaddr'[j] # 0
          PROVE  IsShared(r, a)' /\ opened'[r] = shmid'[j]
      <4>1. j # i /\ shaddr'[j] = shaddr[j] /\ shmid'[j] = shmid[j]
        BY <2>2, <3>5
      <4>2. ~(r = p /\ a = b0) /\ pgdir[r][a] = shaddr[j]
        BY <1>8, <3>5, <4>1
      <4>3. IsShared(r, a) /\ opened[r] = shmid[j]
        BY <3>5, <4>1, <4>2 DEF IInv, FrameInv
      <4>4. r # p
        BY <1>10, <4>2, <4>3
      <4>. QED
        BY <1>8, <1>9, <4>1, <4>3, <4>4
    <3>. QED
      BY <3>1, <3>2, <3>3, <3>4, <3>5 DEF FrameInv
  <2>. QED
    BY <2>6, <2>7, <2>8, <2>9
<1>12. ASSUME refrences[i] # 1
       PROVE  RefsCountOpeners' /\ TableInv' /\ SharedFrame' /\ FrameInv'
  <2>1. UNCHANGED <<freelist, shmid, shaddr>>
    BY <1>1, <1>12
  <2>2. PICK s \in Proc : s # p /\ opened[s] = id
    <3>1. Openers(id) # {p}
      BY <1>7, <1>12, FS_Singleton
    <3>. QED
      BY <1>7, <3>1 DEF Openers
  <2>3. pgdir[s][sharingMem[s]] = h /\ sharingMem[s] \in Page
    <3>1. PICK k \in Slot : /\ \A j \in Slot : shmid[j] = opened[s] <=> j = k
                            /\ pgdir[s][sharingMem[s]] = shaddr[k]
      BY <1>3, <2>2 DEF IInv, SharedFrame
    <3>2. k = i
      BY <1>4, <2>2, <3>1
    <3>. QED
      BY <3>1, <3>2 DEF h, TypeOK
  <2>4. RefsCountOpeners'
    <3>1. ASSUME NEW j \in Slot
          PROVE  refrences'[j] = Cardinality({q \in Proc : opened'[q] # 0 /\ opened'[q] = shmid'[j]})
      <4>. DEFINE S == {q \in Proc : opened'[q] # 0 /\ opened'[q] = shmid'[j]}
      <4>1. CASE j = i
        <5>1. S = Openers(id) \ {p}
          BY <1>4, <1>8, <2>1, <4>1 DEF Openers
        <5>2. Cardinality(Openers(id) \ {p}) = Cardinality(Openers(id)) - 1
          BY <1>7, OpenersFinite, FS_RemoveElement
        <5>. QED
          BY <1>7, <1>8, <4>1, <5>1, <5>2
      <4>2. CASE j # i
        <5>1. S = Openers(shmid[j])
          BY <1>4, <1>8, <2>1, <4>2 DEF Openers, id
        <5>. QED
          BY <1>8, <4>2, <5>1, RefsAreOpeners DEF IInv
      <4>. QED
        BY <4>1, <4>2
    <3>. QED
      BY <3>1 DEF RefsCountOpeners
  <2>5. TableInv'
    BY <1>4, <1>7, <1>8, <1>12, <2>1 DEF IInv, TableInv
  <2>6. SharedFrame'
    <3>1. \A r \in Proc : opened'[r] # 0 =>
            /\ opened[r] # 0 /\ opened'[r] = opened[r]
            /\ pgdir'[r][sharingMem'[r]] = pgdir[r][sharingMem[r]]
      BY <1>2, <1>8 DEF TypeOK
    <3>. QED
      BY <2>1, <3>1 DEF IInv, SharedFrame
  <2>7. FrameInv'
    <3>1. \A f \in Frame : freelist'[f] \in {0, 1}
      BY <2>1 DEF IInv, FrameInv
    <3>2. \A r \in Proc, a \in Page : pgdir'[r][a] # 0 => freelist'[pgdir'[r][a]] = 0
      BY <1>8, <2>1 DEF IInv, FrameInv
    <3>3. \A f \in Frame : freelist'[f] = 0 => \E r \in Proc, a \in Page : pgdir'[r][a] = f
      <4>. SUFFICES ASSUME NEW f \in Frame, freelist'[f] = 0
                    PROVE  \E r \in Proc, a \in Page : pgdir'[r][a] = f
        OBVIOUS
      <4>1. CASE f = h
        BY <1>8, <2>2, <2>3, <4>1
      <4>2. CASE f # h
        <5>1. PICK r \in Proc, a \in Page : pgdir[r][a] = f
          BY <2>1 DEF IInv, FrameInv
        <5>2. ~(r = p /\ a = b0)
          BY <1>4, <4>2, <5>1 DEF h, b0
        <5>. QED
          BY <1>8, <5>1, <5>2
      <4>. QED
        BY <4>1, <4>2
    <3>4. ASSUME NEW r \in Proc, NEW q \in Proc, NEW a \in Page, NEW b \in Page,
                 pgdir'[r][a] = pgdir'[q][b], pgdir'[r][a] # 0
          PROVE  \/ r = q /\ a = b
                 \/ IsShared(r, a)' /\ IsShared(q, b)' /\ opened'[r] = opened'[q]
      <4>1. /\ ~(r = p /\ a = b0) /\ ~(q = p /\ b = b0)
            /\ pgdir[r][a] = pgdir[q][b] /\ pgdir[r][a] # 0
        BY <1>8, <3>4
      <4>2. \/ r = q /\ a = b
            \/ IsShared(r, a) /\ IsShared(q, b) /\ opened[r] = opened[q]
        BY <4>1 DEF IInv, FrameInv
      <4>. QED
        BY <1>8, <1>9, <1>10, <4>1, <4>2
    <3>5. ASSUME NEW r \in Proc, NEW a \in Page, NEW j \in Slot,
                 pgdir'[r][a] = shaddr'[j], shaddr'[j] # 0
          PROVE  IsShared(r, a)' /\ opened'[r] = shmid'[j]
      <4>1. ~(r = p /\ a = b0) /\ pgdir[r][a] = shaddr[j] /\ shaddr[j] # 0
        BY <1>8, <2>1, <3>5
      <4>2. IsShared(r, a) /\ opened[r] = shmid[j]
        BY <4>1 DEF IInv, FrameInv
      <4>3. r # p
        BY <1>10, <4>1, <4>2
      <4>. QED
        BY <1>8, <1>9, <2>1, <4>2, <4>3
    <3>. QED
      BY <3>1, <3>2, <3>3, <3>4, <3>5 DEF FrameInv
  <2>. QED
    BY <2>4, <2>5, <2>6, <2>7
<1>13. ProcInv'
  <2>. SUFFICES ASSUME NEW r \in Proc PROVE ProcOk(r)'
    BY DEF ProcInv
  <2>1. CASE r = p
    <3>1. life[p] = "alive" /\ b0 >= sz[p] /\ sz[p] > 0 /\ sz[p] \in Nat
      BY SharedMemAssumption DEF IInv, ProcInv, ProcOk, TypeOK, b0
    <3>2. \A a \in Page : a >= sz[p] => pgdir'[p][a] = 0
      BY <1>8, <3>1 DEF IInv, ProcInv, ProcOk, b0
    <3>3. \A a \in Page : a < sz[p] => pgdir'[p][a] # 0
      <4>. TAKE a \in Page
      <4>1. a < sz[p] => pgdir[p][a] # 0 /\ a # b0
        BY <1>3, <3>1 DEF IInv, ProcInv, ProcOk
      <4>. QED
        BY <1>8, <4>1
    <3>. QED
      BY <1>2, <1>8, <2>1, <3>1, <3>2, <3>3 DEF ProcOk, NoPages
  <2>2. CASE r # p
    <3>1. pgdir'[r] = pgdir[r]
      BY <1>2, <2>2 DEF TypeOK
    <3>. QED
      BY <1>2, <1>8, <2>2, <3>1 DEF IInv, ProcInv, ProcOk, NoPages
  <2>. QED
    BY <2>1, <2>2
<1>. QED
  BY <1>2, <1>11, <1>12, <1>13 DEF IInv, NoPanic

-----------------------------------------------------------------------------
(* The theorems.                                                           *)

LEMMA IInvInit == Init => IInv
<1>. SUFFICES ASSUME Init PROVE IInv
  OBVIOUS
<1>. USE ConstantFacts
<1>1. /\ \A p \in Proc : /\ opened[p] = 0
                         /\ sz[p] = IF p = InitProc THEN 1 ELSE 0
                         /\ life[p] = IF p = InitProc THEN "alive" ELSE "unused"
      /\ \A i \in Slot : shmid[i] = 0 /\ shaddr[i] = 0 /\ refrences[i] = 0
      /\ \A f \in Frame : freelist[f] = IF f = 1 THEN 0 ELSE 1
      /\ panicked = FALSE
  BY DEF Init
<1>2. /\ \A p \in Proc, a \in Page : pgdir[p][a] = IF p = InitProc /\ a = 0 THEN 1 ELSE 0
      /\ \A p \in Proc : p # InitProc => pgdir[p] = NoPages
      /\ InitProc \in Proc
  BY SharedMemAssumption DEF Init, NoPages
<1>3. ProcInv
  BY <1>1, <1>2 DEF ProcInv, ProcOk
<1>4. TableInv /\ SharedFrame
  BY <1>1 DEF TableInv, SharedFrame
<1>5. RefsCountOpeners
  <2>1. \A i \in Slot : {p \in Proc : opened[p] # 0 /\ opened[p] = shmid[i]} = {}
    BY <1>1
  <2>. QED
    BY <1>1, <2>1, FS_EmptySet DEF RefsCountOpeners
<1>6. FrameInv
  BY <1>1, <1>2 DEF FrameInv
<1>. QED
  BY <1>1, <1>3, <1>4, <1>5, <1>6 DEF IInv, NoPanic

LEMMA IInvStep == TypeOK /\ IInv /\ [DisciplinedNext]_vars => IInv'
<1>. SUFFICES ASSUME TypeOK, IInv, [DisciplinedNext]_vars PROVE IInv'
  OBVIOUS
<1>1. CASE UNCHANGED vars
  <2>1. UNCHANGED <<life, sz, pgdir, sharingMem, shmid, shaddr, refrences, freelist, panicked, opened>>
    BY <1>1 DEF vars, procVars, tableVars
  <2>. QED
    BY <2>1 DEF IInv, ProcInv, ProcOk, NoPages, TableInv, SharedFrame, RefsCountOpeners,
                FrameInv, IsShared, NoPanic
<1>2. CASE DisciplinedNext
  <2>1. \A p \in Proc : opened[p] \in Id \cup {0}
    BY DEF TypeOK
  <2>. QED
    BY <1>2, <2>1, ForkInv, ExecInv, GrowInv, ShrinkInv, WaitInv, ExitInv, InitInv,
       OpenInv, CloseInv DEF DisciplinedNext
<1>. QED
  BY <1>1, <1>2

\* Programs in any order of calls, exits with an open page and closes of what
\* others opened among them: no counter of a slot goes below zero, a slot has
\* an id exactly while its counter is not zero, and the free list holds no
\* frame a negative number of times.
THEOREM TypeCorrect == Spec => []TypeOK
BY TypeInit, TypeStep, PTL DEF Spec

LEMMA DisciplinedTypes == DisciplinedSpec => []TypeOK
<1>1. TypeOK /\ [DisciplinedNext]_vars => TypeOK'
  BY DisciplinedIsNext, TypeStep
<1>. QED
  BY <1>1, TypeInit, PTL DEF DisciplinedSpec

LEMMA Invariance == DisciplinedSpec => []IInv
BY IInvInit, IInvStep, DisciplinedTypes, PTL DEF DisciplinedSpec

\* Openers of one id share a frame, which is that of no other id.
THEOREM FrameCorrect == DisciplinedSpec => []SharedFrame
BY Invariance, PTL DEF IInv

\* The counter of a shared page is the number of processes that have it open.
THEOREM RefsCorrect == DisciplinedSpec => []RefsCountOpeners
BY Invariance, PTL DEF IInv

\* fork() finds no hole in a page table, and sbrk() nothing where it maps.
THEOREM PanicFree == DisciplinedSpec => []NoPanic
BY Invariance, PTL DEF IInv

\* No frame leaks, and none is freed while a page table maps it.
LEMMA FramesFollow == TypeOK /\ IInv => FramesAccounted
<1>. SUFFICES ASSUME TypeOK, IInv, NEW f \in Frame
              PROVE  \/ freelist[f] = 1 /\ Owners(f) = {} /\ f \notin {shaddr[i] : i \in Slot}
                     \/ freelist[f] = 0 /\ Cardinality(Owners(f)) = 1
                     \/ /\ freelist[f] = 0
                        /\ \E i \in Slot : shaddr[i] = f /\ Cardinality(Owners(f)) = refrences[i]
  BY DEF FramesAccounted
<1>. USE ConstantFacts
<1>1. CASE freelist[f] # 0
  <2>1. freelist[f] = 1
    BY <1>1 DEF IInv, FrameInv
  <2>2. Owners(f) = {}
    BY <1>1 DEF IInv, FrameInv, Owners
  <2>3. f \notin {shaddr[i] : i \in Slot}
    BY <1>1, ShaddrMapped
  <2>. QED
    BY <2>1, <2>2, <2>3
<1>2. CASE freelist[f] = 0 /\ \E i \in Slot : shaddr[i] = f
  <2>1. PICK i \in Slot : shaddr[i] = f
    BY <1>2
  <2>. DEFINE S == Openers(shmid[i])
              F == [p \in S |-> <<p, sharingMem[p]>>]
  <2>2. PICK s \in Proc : opened[s] # 0 /\ opened[s] = shmid[i]
    BY <2>1, ShaddrMapped
  <2>3. \A p \in S : pgdir[p][sharingMem[p]] = f
    <3>. TAKE p \in S
    <3>1. PICK k \in Slot : /\ \A j \in Slot : shmid[j] = opened[p] <=> j = k
                            /\ pgdir[p][sharingMem[p]] = shaddr[k]
      BY DEF Openers, IInv, SharedFrame
    <3>2. k = i
      BY <3>1 DEF Openers
    <3>. QED
      BY <2>1, <3>1, <3>2
  <2>4. \A p \in Proc, a \in Page : pgdir[p][a] = f => p \in S /\ a = sharingMem[p]
    BY <2>1 DEF IInv, FrameInv, IsShared, Openers
  <2>5. \A p \in S : <<p, sharingMem[p]>> \in Owners(f)
    BY <2>3 DEF Owners, Openers, TypeOK
  <2>6. F \in Bijection(S, Owners(f))
    <3>1. F \in [S -> Owners(f)]
      BY <2>5
    <3>2. \A p, q \in S : F[p] = F[q] => p = q
      OBVIOUS
    <3>3. \A x \in Owners(f) : \E p \in S : F[p] = x
      <4>. TAKE x \in Owners(f)
      <4>1. PICK p \in Proc, a \in Page : x = <<p, a>> /\ pgdir[p][a] = f
        BY DEF Owners
      <4>2. p \in S /\ a = sharingMem[p]
        BY <2>4, <4>1
      <4>. QED
        BY <4>1, <4>2
    <3>. HIDE DEF F, S
    <3>. QED
      BY <3>1, <3>2, <3>3 DEF Bijection, Injection, Surjection, IsInjective
  <2>7. ExistsBijection(S, Owners(f))
    BY <2>6 DEF ExistsBijection
  <2>8. Cardinality(Owners(f)) = Cardinality(S)
    BY <2>7, OpenersFinite, FS_Bijection
  <2>9. refrences[i] = Cardinality(S)
    BY RefsAreOpeners DEF IInv
  <2>. QED
    BY <1>2, <2>1, <2>8, <2>9
<1>3. CASE freelist[f] = 0 /\ \A i \in Slot : shaddr[i] # f
  <2>1. PICK p \in Proc, a \in Page : pgdir[p][a] = f
    BY <1>3 DEF IInv, FrameInv
  <2>2. ~IsShared(p, a)
    BY <1>3, <2>1 DEF IsShared, IInv, SharedFrame
  <2>3. \A q \in Proc, b \in Page : pgdir[q][b] = f => q = p /\ b = a
    BY <2>1, <2>2 DEF IInv, FrameInv
  <2>4. Owners(f) = {<<p, a>>}
    BY <2>1, <2>3 DEF Owners
  <2>. QED
    BY <1>3, <2>4, FS_Singleton
<1>. QED
  BY <1>1, <1>2, <1>3

\* Every frame is free once, or owned, or shared by as many as are counted.
THEOREM FramesCorrect == DisciplinedSpec => []FramesAccounted
BY Invariance, DisciplinedTypes, FramesFollow, PTL
=============================================================================
