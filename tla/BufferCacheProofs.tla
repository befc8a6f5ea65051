-------------------------- MODULE BufferCacheProofs -------------------------
(***************************************************************************)
(* Proofs about BufferCache, for every number of processes, blocks and     *)
(* buffers BufferCacheAssumption admits.                                   *)
(***************************************************************************)
EXTENDS BufferCache, Functions, FiniteSetTheorems, TLAPS

\* u has the lock of its buffer.
Holds(u) == pc[u] \in {"io", "woken", "hold"}

\* Where a use stands says what is known of its buffer.
PcOk(u) ==
  /\ buf[u] = None <=> pc[u] \in {"idle", "panic"}
  /\ buf[u] # None => blockno[buf[u]] # None
  /\ Holds(u) => lock[buf[u]] = u
  /\ pc[u] = "asleep" => lock[buf[u]] # None
  /\ pc[u] = "io" => /\ ~valid[buf[u]] \/ dirty[buf[u]]
                     /\ \E k \in 1 .. Len(queue) : queue[k] = buf[u]
  /\ pc[u] = "woken" => valid[buf[u]] /\ ~dirty[buf[u]]
  /\ pc[u] = "hold" => valid[buf[u]]
  /\ changed[u] => pc[u] = "hold" /\ blockno[buf[u]] \in Writable

PcInv == \A u \in Use : PcOk(u)

\* A clean and valid buffer that nobody is changing is what the disk has.
BufInv ==
  \A i \in Buf :
    /\ lock[i] # None => buf[lock[i]] = i /\ Holds(lock[i])
    /\ dirty[i] => valid[i] /\ blockno[i] \in Writable
    /\ valid[i] => blockno[i] # None
    /\ valid[i] /\ ~dirty[i] /\ (\A u \in Use : changed[u] => buf[u] # i)
         => data[i] = disk[blockno[i]]

\* The queue holds the buffers processes wait for, each once.
QueueInv ==
  /\ started <=> queue # <<>>
  /\ \A k \in 1 .. Len(queue) :
       lock[queue[k]] # None /\ pc[lock[queue[k]]] = "io"
  /\ \A k, l \in 1 .. Len(queue) : queue[k] = queue[l] => k = l

IInv == RefsExact /\ PcInv /\ BufInv /\ QueueInv

-----------------------------------------------------------------------------
(* Reference counts.                                                       *)

LEMMA UseFinite == IsFiniteSet(Use)
<1>1. IsFiniteSet(1 .. 2)
  <2>1. \A m, n \in Int : IsFiniteSet(m .. n)
    BY FS_Interval
  <2>2. 1 \in Int /\ 2 \in Int
    OBVIOUS
  <2>. QED
    BY <2>1, <2>2, Zenon
<1>2. IsFiniteSet(Proc)
  BY BufferCacheAssumption
<1>3. IsFiniteSet(Proc \X (1 .. 2))
  BY <1>1, <1>2, FS_Product, Zenon
<1>. QED
  BY <1>3 DEF Use

Users(f, i) == {u \in Use : f[u] = i}

LEMMA UsersFinite ==
  ASSUME NEW f, NEW i
  PROVE  IsFiniteSet(Users(f, i)) /\ Cardinality(Users(f, i)) \in Nat
<1>1. IsFiniteSet(Users(f, i))
  BY UseFinite, FS_Subset DEF Users
<1>. QED
  BY <1>1, FS_CardinalityType

LEMMA UsersAdd ==
  ASSUME TypeOK, NEW u \in Use, buf[u] = None, NEW i \in Buf,
         buf' = [buf EXCEPT ![u] = i], NEW j \in Buf
  PROVE  /\ Cardinality(Users(buf, j)) \in Nat
         /\ j = i => Cardinality(Users(buf', j)) = Cardinality(Users(buf, j)) + 1
         /\ j # i => Cardinality(Users(buf', j)) = Cardinality(Users(buf, j))
<1>0. None \notin Buf
  BY BufferCacheAssumption
<1>1. CASE j = i
  <2>1. Users(buf', j) = Users(buf, j) \cup {u}
    BY <1>1 DEF Users, TypeOK
  <2>2. u \notin Users(buf, j)
    BY <1>0 DEF Users
  <2>. QED
    BY <1>1, <2>1, <2>2, UsersFinite, FS_AddElement
<1>2. CASE j # i
  <2>1. Users(buf', j) = Users(buf, j)
    BY <1>0, <1>2 DEF Users, TypeOK
  <2>. QED
    BY <1>2, <2>1, UsersFinite
<1>. QED
  BY <1>1, <1>2

LEMMA UsersDrop ==
  ASSUME TypeOK, NEW u \in Use, buf[u] \in Buf,
         buf' = [buf EXCEPT ![u] = None], NEW j \in Buf
  PROVE  /\ Cardinality(Users(buf, j)) \in Nat
         /\ j = buf[u] => Cardinality(Users(buf', j)) = Cardinality(Users(buf, j)) - 1
         /\ j # buf[u] => Cardinality(Users(buf', j)) = Cardinality(Users(buf, j))
<1>0. None \notin Buf
  BY BufferCacheAssumption
<1>1. CASE j = buf[u]
  <2>1. Users(buf', j) = Users(buf, j) \ {u}
    BY <1>0, <1>1 DEF Users, TypeOK
  <2>2. u \in Users(buf, j)
    BY <1>1 DEF Users
  <2>. QED
    BY <1>1, <2>1, <2>2, UsersFinite, FS_RemoveElement
<1>2. CASE j # buf[u]
  <2>1. Users(buf', j) = Users(buf, j)
    BY <1>0, <1>2 DEF Users, TypeOK
  <2>. QED
    BY <1>2, <2>1, UsersFinite
<1>. QED
  BY <1>1, <1>2

\* A buffer with count 0 is nobody's, and a buffer somebody has is counted.
LEMMA CountZero ==
  ASSUME TypeOK, RefsExact, NEW i \in Buf, NEW u \in Use, buf[u] = i
  PROVE  refcnt[i] >= 1
<1>1. refcnt[i] = Cardinality(Users(buf, i))
  BY DEF RefsExact, Users
<1>2. u \in Users(buf, i)
  BY DEF Users
<1>3. Cardinality(Users(buf, i)) # 0
  BY <1>2, UsersFinite, FS_EmptySet
<1>. QED
  BY <1>1, <1>3, UsersFinite

\* A buffer bget() may recycle is nobody's and not locked.
LEMMA UnusedFree ==
  ASSUME TypeOK, IInv, NEW i \in Buf, Unused(i)
  PROVE  /\ \A u \in Use : buf[u] # i
         /\ lock[i] = None
         /\ ~dirty[i]
<1>1. ASSUME NEW u \in Use PROVE buf[u] # i
  BY CountZero DEF IInv, Unused, TypeOK
<1>2. lock[i] = None
  BY <1>1 DEF IInv, BufInv, TypeOK
<1>. QED
  BY <1>1, <1>2 DEF Unused

\* Whoever is neither idle nor in panic() has a buffer.
LEMMA HasBuf ==
  ASSUME TypeOK, IInv, NEW u \in Use, pc[u] \notin {"idle", "panic"}
  PROVE  buf[u] \in Buf /\ blockno[buf[u]] \in Block
BY BufferCacheAssumption DEF TypeOK, IInv, PcInv, PcOk

-----------------------------------------------------------------------------
(* The invariant.                                                          *)

LEMMA InitInv == Init => TypeOK /\ IInv
<1>. SUFFICES ASSUME Init PROVE TypeOK /\ IInv
  OBVIOUS
<1>. USE BufferCacheAssumption
<1>1. TypeOK
  <2>1. place \in [Buf -> Buf]
    BY DEF Init, Buf
  <2>2. queue \in Seq(Buf)
    BY DEF Init
  <2>. QED
    BY <2>1, <2>2 DEF Init, TypeOK, Point
<1>2. RefsExact
  <2>1. ASSUME NEW i \in Buf PROVE refcnt[i] = Cardinality({u \in Use : buf[u] = i})
    <3>1. {u \in Use : buf[u] = i} = {}
      BY DEF Init
    <3>. QED
      BY <3>1, FS_EmptySet DEF Init
  <2>. QED
    BY <2>1 DEF Init, RefsExact
<1>3. PcInv
  BY DEF Init, PcInv, PcOk, Holds
<1>4. BufInv
  BY DEF Init, BufInv
<1>5. QueueInv
  BY DEF Init, QueueInv
<1>. QED
  BY <1>1, <1>2, <1>3, <1>4, <1>5 DEF IInv

\* Steps that leave the users and blocks of the buffers alone keep the counts.
LEMMA RefsSame ==
  ASSUME RefsExact, UNCHANGED <<blockno, refcnt, buf>>
  PROVE  RefsExact'
BY DEF RefsExact

LEMMA BgetHitInv ==
  ASSUME TypeOK, IInv, NEW u \in Use, NEW b \in Block, BgetHit(u, b)
  PROVE  TypeOK' /\ IInv'
<1>. USE BufferCacheAssumption
<1>1. PICK i \in Buf : /\ blockno[i] = b
                       /\ refcnt' = Grabbed(i)
                       /\ buf' = [buf EXCEPT ![u] = i]
  BY DEF BgetHit
<1>2. pc[u] = "idle" /\ buf[u] = None
  BY DEF BgetHit, Asks, IInv, PcInv, PcOk
<1>3. /\ pc' = [pc EXCEPT ![u] = "lock"]
      /\ UNCHANGED <<blockno, valid, dirty, lock, data, place, disk, queue, started, changed>>
  BY DEF BgetHit, ideVars
<1>4. TypeOK'
  BY <1>1, <1>3 DEF TypeOK, Grabbed, Point
<1>5. RefsExact'
  <2>1. ASSUME NEW j \in Buf PROVE refcnt'[j] = Cardinality(Users(buf', j))
    <3>1. refcnt[j] = Cardinality(Users(buf, j))
      BY DEF IInv, RefsExact, Users
    <3>2. /\ Cardinality(Users(buf, j)) \in Nat
          /\ j = i => Cardinality(Users(buf', j)) = Cardinality(Users(buf, j)) + 1
          /\ j # i => Cardinality(Users(buf', j)) = Cardinality(Users(buf, j))
      BY <1>1, <1>2, UsersAdd
    <3>3. refcnt'[j] = refcnt[j] + (IF j = i THEN 1 ELSE 0)
      BY <1>1 DEF Grabbed, TypeOK
    <3>. QED
      BY <3>1, <3>2, <3>3
  <2>. QED
    BY <1>3, <2>1 DEF IInv, RefsExact, Users
<1>6. PcInv'
  <2>1. ASSUME NEW w \in Use, w # u PROVE PcOk(w)'
    BY <1>1, <1>3, <2>1 DEF IInv, PcInv, PcOk, TypeOK, Holds
  <2>2. PcOk(u)'
    BY <1>1, <1>2, <1>3 DEF IInv, PcInv, PcOk, TypeOK, Holds
  <2>. QED
    BY <2>1, <2>2 DEF PcInv
<1>7. BufInv'
  BY <1>1, <1>2, <1>3 DEF IInv, BufInv, PcInv, PcOk, TypeOK, Holds
<1>8. QueueInv'
  BY <1>1, <1>2, <1>3 DEF IInv, QueueInv, BufInv, PcInv, PcOk, TypeOK, Holds
<1>. QED
  BY <1>4, <1>5, <1>6, <1>7, <1>8 DEF IInv

LEMMA BgetMissInv ==
  ASSUME TypeOK, IInv, NEW u \in Use, NEW b \in Block, BgetMiss(u, b)
  PROVE  TypeOK' /\ IInv'
<1>. USE BufferCacheAssumption
<1>1. PICK i \in Buf : /\ Victim(i)
                       /\ blockno' = [blockno EXCEPT ![i] = b]
                       /\ valid' = [valid EXCEPT ![i] = FALSE]
                       /\ dirty' = [dirty EXCEPT ![i] = FALSE]
                       /\ refcnt' = [refcnt EXCEPT ![i] = 1]
                       /\ buf' = [buf EXCEPT ![u] = i]
  BY DEF BgetMiss
<1>2. pc[u] = "idle" /\ buf[u] = None /\ ~Cached(b)
  BY DEF BgetMiss, Asks, IInv, PcInv, PcOk
<1>3. /\ pc' = [pc EXCEPT ![u] = "lock"]
      /\ UNCHANGED <<lock, data, place, disk, queue, started, changed>>
  BY DEF BgetMiss, ideVars
<1>4. /\ \A w \in Use : buf[w] # i
      /\ lock[i] = None /\ ~dirty[i] /\ refcnt[i] = 0
  BY <1>1, UnusedFree DEF Victim, Unused
<1>5. TypeOK'
  BY <1>1, <1>3 DEF TypeOK, Point
<1>6. RefsExact'
  <2>1. ASSUME NEW j \in Buf PROVE refcnt'[j] = Cardinality(Users(buf', j))
    <3>1. refcnt[j] = Cardinality(Users(buf, j))
      BY DEF IInv, RefsExact, Users
    <3>2. /\ Cardinality(Users(buf, j)) \in Nat
          /\ j = i => Cardinality(Users(buf', j)) = Cardinality(Users(buf, j)) + 1
          /\ j # i => Cardinality(Users(buf', j)) = Cardinality(Users(buf, j))
      BY <1>1, <1>2, UsersAdd
    <3>3. refcnt'[j] = IF j = i THEN 1 ELSE refcnt[j]
      BY <1>1 DEF TypeOK
    <3>. QED
      BY <1>4, <3>1, <3>2, <3>3
  <2>2. \A j, k \in Buf : blockno'[j] = blockno'[k] /\ blockno'[j] # None => j = k
    BY <1>1, <1>2 DEF IInv, RefsExact, TypeOK, Cached
  <2>. QED
    BY <2>1, <2>2 DEF RefsExact, Users
<1>7. PcInv'
  <2>1. ASSUME NEW w \in Use, w # u PROVE PcOk(w)'
    <3>1. /\ pc'[w] = pc[w] /\ buf'[w] = buf[w] /\ changed'[w] = changed[w]
          /\ lock' = lock /\ queue' = queue
      BY <1>1, <1>3, <2>1 DEF TypeOK
    <3>2. buf[w] # None =>
            /\ blockno'[buf[w]] = blockno[buf[w]]
            /\ valid'[buf[w]] = valid[buf[w]] /\ dirty'[buf[w]] = dirty[buf[w]]
      BY <1>1, <1>4 DEF TypeOK
    <3>3. PcOk(w) /\ (pc[w] \notin {"idle", "panic"} => buf[w] # None)
      BY DEF IInv, PcInv, PcOk
    <3>4. changed[w] => buf[w] # None
      BY <3>3 DEF PcOk
    <3>. QED
      BY <3>1, <3>2, <3>3, <3>4 DEF PcOk, Holds
  <2>2. PcOk(u)'
    BY <1>1, <1>2, <1>3 DEF IInv, PcInv, PcOk, TypeOK, Holds
  <2>. QED
    BY <2>1, <2>2 DEF PcInv
<1>8. BufInv'
  BY <1>1, <1>2, <1>3, <1>4 DEF IInv, BufInv, PcInv, PcOk, TypeOK, Holds
<1>9. QueueInv'
  BY <1>1, <1>2, <1>3 DEF IInv, QueueInv, BufInv, PcInv, PcOk, TypeOK, Holds
<1>. QED
  BY <1>5, <1>6, <1>7, <1>8, <1>9 DEF IInv

LEMMA BgetPanicInv ==
  ASSUME TypeOK, IInv, NEW u \in Use, NEW b \in Block, BgetPanic(u, b)
  PROVE  TypeOK' /\ IInv'
<1>. USE BufferCacheAssumption
<1>1. /\ pc[u] = "idle" /\ pc' = [pc EXCEPT ![u] = "panic"]
      /\ UNCHANGED <<blockno, refcnt, valid, dirty, lock, data, place, disk, queue, started, buf, changed>>
  BY DEF BgetPanic, Asks, bufVars, ideVars
<1>2. TypeOK'
  BY <1>1 DEF TypeOK, Point
<1>3. PcInv'
  BY <1>1 DEF IInv, PcInv, PcOk, TypeOK, Holds
<1>4. BufInv'
  BY <1>1 DEF IInv, BufInv, TypeOK, Holds
<1>5. QueueInv'
  BY <1>1 DEF IInv, QueueInv, TypeOK
<1>. QED
  BY <1>1, <1>2, <1>3, <1>4, <1>5, RefsSame DEF IInv

\* Iderw(u) queues a buffer u holds and that is not in the queue.
LEMMA IderwInv ==
  ASSUME TypeOK, IInv, NEW u \in Use, pc[u] \notin {"idle", "panic"}, Iderw(u),
         UNCHANGED buf,
         lock' \in [Buf -> Use \cup {None}],
         lock'[buf[u]] = u, \A j \in Buf \ {buf[u]} : lock'[j] = lock[j],
         \A k \in 1 .. Len(queue) : queue[k] # buf[u]
  PROVE  /\ queue' \in Seq(Buf)
         /\ QueueInv'
         /\ \A w \in Use : pc'[w] = "io" =>
              \E k \in 1 .. Len(queue') : queue'[k] = buf'[w]
<1>. USE BufferCacheAssumption
<1>1. buf[u] \in Buf
  BY HasBuf
<1>2. /\ pc' = [pc EXCEPT ![u] = "io"]
      /\ started' = TRUE
  BY DEF Iderw
<1>3. /\ queue' \in Seq(Buf)
      /\ Len(queue') = Len(queue) + 1
      /\ \A k \in 1 .. Len(queue) : queue'[k] = queue[k]
      /\ queue'[Len(queue) + 1] = buf[u]
      /\ queue' # <<>>
  <2>1. queue' = Append(queue, buf[u]) /\ queue \in Seq(Buf)
    BY DEF Iderw, TypeOK
  <2>. QED
    BY <1>1, <2>1
<1>4. Len(queue) \in Nat /\ \A k \in 1 .. Len(queue) : queue[k] \in Buf
  BY DEF TypeOK
<1>5. ASSUME NEW w \in Use, pc'[w] = "io"
      PROVE \E k \in 1 .. Len(queue') : queue'[k] = buf'[w]
  <2>1. CASE w = u
    BY <1>3, <1>4, <2>1
  <2>2. CASE w # u
    <3>1. pc[w] = "io"
      BY <1>2, <1>5, <2>2 DEF TypeOK
    <3>2. PICK k \in 1 .. Len(queue) : queue[k] = buf[w]
      BY <3>1 DEF IInv, PcInv, PcOk
    <3>. QED
      BY <1>3, <1>4, <3>2
  <2>. QED
    BY <2>1, <2>2
<1>6. ASSUME NEW k \in 1 .. Len(queue')
      PROVE lock'[queue'[k]] # None /\ pc'[lock'[queue'[k]]] = "io"
  <2>1. CASE k = Len(queue) + 1
    BY <1>2, <1>3, <2>1 DEF TypeOK
  <2>2. CASE k \in 1 .. Len(queue)
    <3>1. queue'[k] = queue[k] /\ queue[k] \in Buf \ {buf[u]}
      BY <1>3, <1>4, <2>2
    <3>2. lock[queue[k]] # None /\ pc[lock[queue[k]]] = "io"
      BY <2>2 DEF IInv, QueueInv
    <3>3. lock'[queue[k]] = lock[queue[k]] /\ lock[queue[k]] \in Use
      BY <3>1, <3>2 DEF TypeOK
    <3>. QED
      BY <1>2, <3>1, <3>2, <3>3 DEF TypeOK
  <2>. QED
    BY <1>3, <1>4, <2>1, <2>2
<1>7. ASSUME NEW k \in 1 .. Len(queue'), NEW l \in 1 .. Len(queue'), queue'[k] = queue'[l]
      PROVE k = l
  BY <1>3, <1>4, <1>7 DEF IInv, QueueInv
<1>8. QueueInv'
  BY <1>2, <1>3, <1>6, <1>7 DEF QueueInv
<1>. QED
  BY <1>3, <1>5, <1>8

LEMMA AcquireSleepInv ==
  ASSUME TypeOK, IInv, NEW u \in Use, AcquireSleep(u)
  PROVE  TypeOK' /\ IInv'
<1>. USE BufferCacheAssumption
<1>1. /\ pc[u] = "lock" /\ lock[buf[u]] = None
      /\ lock' = [lock EXCEPT ![buf[u]] = u]
      /\ UNCHANGED <<blockno, refcnt, valid, dirty, data, place, buf, changed, disk>>
  BY DEF AcquireSleep, Iderw, ideVars
<1>2. buf[u] \in Buf
  BY <1>1, HasBuf
<1>3. ASSUME NEW w \in Use, Holds(w) PROVE buf[w] # buf[u]
  BY <1>1, <1>3 DEF IInv, PcInv, PcOk, TypeOK, Holds
<1>4. ASSUME NEW w \in Use, changed[w] PROVE w # u /\ buf[w] # buf[u]
  BY <1>1, <1>3, <1>4 DEF IInv, PcInv, PcOk, TypeOK, Holds
<1>5. RefsExact'
  BY <1>1, RefsSame DEF IInv
<1>6. CASE valid[buf[u]]
  <2>1. /\ pc' = [pc EXCEPT ![u] = "hold"]
        /\ UNCHANGED <<queue, started>>
    BY <1>6 DEF AcquireSleep, ideVars
  <2>2. TypeOK'
    BY <1>1, <1>2, <2>1 DEF TypeOK, Point
  <2>3. PcInv'
    BY <1>1, <1>2, <1>3, <1>6, <2>1 DEF IInv, PcInv, PcOk, TypeOK, Holds
  <2>4. BufInv'
    BY <1>1, <1>2, <1>3, <2>1 DEF IInv, BufInv, TypeOK, Holds
  <2>5. QueueInv'
    BY <1>1, <1>2, <2>1 DEF IInv, QueueInv, TypeOK, Holds
  <2>. QED
    BY <1>5, <2>2, <2>3, <2>4, <2>5 DEF IInv
<1>7. CASE ~valid[buf[u]]
  <2>1. Iderw(u)
    BY <1>7 DEF AcquireSleep
  <2>2. /\ pc' = [pc EXCEPT ![u] = "io"]
        /\ started' = TRUE
    BY <2>1 DEF Iderw
  <2>3. lock' \in [Buf -> Use \cup {None}] /\ lock'[buf[u]] = u
        /\ \A j \in Buf \ {buf[u]} : lock'[j] = lock[j]
    BY <1>1, <1>2 DEF TypeOK
  <2>4. \A k \in 1 .. Len(queue) : queue[k] # buf[u]
    BY <1>1 DEF IInv, QueueInv
  <2>5. /\ queue' \in Seq(Buf)
        /\ QueueInv'
        /\ \A w \in Use : pc'[w] = "io" =>
             \E k \in 1 .. Len(queue') : queue'[k] = buf'[w]
    BY <1>1, <2>1, <2>3, <2>4, IderwInv
  <2>6. TypeOK'
    BY <1>1, <1>2, <2>2, <2>5 DEF TypeOK, Point
  <2>7. PcInv'
    <3>1. ASSUME NEW w \in Use, w # u PROVE PcOk(w)'
      BY <1>1, <1>2, <2>2, <2>5, <3>1 DEF IInv, PcInv, PcOk, TypeOK, Holds
    <3>2. PcOk(u)'
      BY <1>1, <1>2, <1>7, <2>2, <2>5 DEF IInv, PcInv, PcOk, TypeOK, Holds
    <3>. QED
      BY <3>1, <3>2 DEF PcInv
  <2>8. BufInv'
    BY <1>1, <1>2, <1>3, <2>2 DEF IInv, BufInv, TypeOK, Holds
  <2>. QED
    BY <1>5, <2>5, <2>6, <2>7, <2>8 DEF IInv
<1>. QED
  BY <1>6, <1>7

LEMMA AcquireBlocksInv ==
  ASSUME TypeOK, IInv, NEW u \in Use, AcquireBlocks(u)
  PROVE  TypeOK' /\ IInv'
<1>. USE BufferCacheAssumption
<1>1. /\ pc[u] = "lock" /\ lock[buf[u]] # None
      /\ pc' = [pc EXCEPT ![u] = "asleep"]
      /\ UNCHANGED <<blockno, refcnt, valid, dirty, lock, data, place, disk, queue, started, buf, changed>>
  BY DEF AcquireBlocks, bufVars, ideVars
<1>2. TypeOK'
  BY <1>1 DEF TypeOK, Point
<1>3. PcInv'
  BY <1>1 DEF IInv, PcInv, PcOk, TypeOK, Holds
<1>4. BufInv'
  BY <1>1 DEF IInv, BufInv, TypeOK, Holds
<1>5. QueueInv'
  BY <1>1 DEF IInv, QueueInv, TypeOK
<1>. QED
  BY <1>1, <1>2, <1>3, <1>4, <1>5, RefsSame DEF IInv

LEMMA IderwReturnInv ==
  ASSUME TypeOK, IInv, NEW u \in Use, IderwReturn(u)
  PROVE  TypeOK' /\ IInv'
<1>. USE BufferCacheAssumption
<1>1. /\ pc[u] = "woken"
      /\ pc' = [pc EXCEPT ![u] = "hold"]
      /\ UNCHANGED <<blockno, refcnt, valid, dirty, lock, data, place, disk, queue, started, buf, changed>>
  BY DEF IderwReturn, IoDone, bufVars, ideVars, IInv, PcInv, PcOk
<1>2. TypeOK'
  BY <1>1 DEF TypeOK, Point
<1>3. PcInv'
  BY <1>1 DEF IInv, PcInv, PcOk, TypeOK, Holds
<1>4. BufInv'
  BY <1>1 DEF IInv, BufInv, TypeOK, Holds
<1>5. QueueInv'
  BY <1>1 DEF IInv, QueueInv, TypeOK
<1>. QED
  BY <1>1, <1>2, <1>3, <1>4, <1>5, RefsSame DEF IInv

LEMMA ModifyInv ==
  ASSUME TypeOK, IInv, NEW u \in Use, NEW v \in Val, Modify(u, v)
  PROVE  TypeOK' /\ IInv'
<1>. USE BufferCacheAssumption
<1>1. /\ pc[u] = "hold" /\ blockno[buf[u]] \in Writable
      /\ data' = [data EXCEPT ![buf[u]] = v]
      /\ changed' = [changed EXCEPT ![u] = TRUE]
      /\ UNCHANGED <<blockno, refcnt, valid, dirty, lock, place, disk, queue, started, pc, buf>>
  BY DEF Modify, ideVars
<1>2. TypeOK'
  BY <1>1 DEF TypeOK
<1>3. PcInv'
  BY <1>1 DEF IInv, PcInv, PcOk, TypeOK, Holds
<1>4. BufInv'
  BY <1>1, HasBuf DEF IInv, BufInv, TypeOK, Holds
<1>5. QueueInv'
  BY <1>1 DEF IInv, QueueInv
<1>. QED
  BY <1>1, <1>2, <1>3, <1>4, <1>5, RefsSame DEF IInv

LEMMA LogWriteInv ==
  ASSUME TypeOK, IInv, NEW u \in Use, LogWrite(u)
  PROVE  TypeOK' /\ IInv'
<1>. USE BufferCacheAssumption
<1>1. /\ pc[u] = "hold" /\ changed[u]
      /\ dirty' = [dirty EXCEPT ![buf[u]] = TRUE]
      /\ changed' = [changed EXCEPT ![u] = FALSE]
      /\ UNCHANGED <<blockno, refcnt, valid, lock, data, place, disk, queue, started, pc, buf>>
  BY DEF LogWrite, ideVars
<1>2. buf[u] \in Buf /\ blockno[buf[u]] \in Writable /\ valid[buf[u]]
  BY <1>1, HasBuf DEF IInv, PcInv, PcOk
<1>3. ASSUME NEW w \in Use, w # u, Holds(w) PROVE buf[w] # buf[u]
  BY <1>1, <1>3 DEF IInv, PcInv, PcOk, Holds
<1>4. TypeOK'
  BY <1>1 DEF TypeOK
<1>5. PcInv'
  BY <1>1, <1>2, <1>3 DEF IInv, PcInv, PcOk, TypeOK, Holds
<1>6. BufInv'
  BY <1>1, <1>2 DEF IInv, BufInv, TypeOK, Holds
<1>7. QueueInv'
  BY <1>1 DEF IInv, QueueInv
<1>. QED
  BY <1>1, <1>4, <1>5, <1>6, <1>7, RefsSame DEF IInv

LEMMA BwriteInv ==
  ASSUME TypeOK, IInv, NEW u \in Use, Bwrite(u)
  PROVE  TypeOK' /\ IInv'
<1>. USE BufferCacheAssumption
<1>1. /\ pc[u] = "hold" /\ blockno[buf[u]] \in Writable
      /\ dirty' = [dirty EXCEPT ![buf[u]] = TRUE]
      /\ changed' = [changed EXCEPT ![u] = FALSE]
      /\ Iderw(u)
      /\ pc' = [pc EXCEPT ![u] = "io"]
      /\ UNCHANGED <<blockno, refcnt, valid, lock, data, place, buf, disk>>
      /\ started' = TRUE
  BY DEF Bwrite, Iderw
<1>2. buf[u] \in Buf /\ lock[buf[u]] = u /\ valid[buf[u]]
  BY <1>1, HasBuf DEF IInv, PcInv, PcOk, Holds
<1>3. ASSUME NEW w \in Use, w # u, Holds(w) PROVE buf[w] # buf[u]
  BY <1>2, <1>3 DEF IInv, PcInv, PcOk, Holds
<1>4. /\ lock' \in [Buf -> Use \cup {None}] /\ lock'[buf[u]] = u
      /\ \A j \in Buf \ {buf[u]} : lock'[j] = lock[j]
  BY <1>1, <1>2 DEF TypeOK
<1>5. \A k \in 1 .. Len(queue) : queue[k] # buf[u]
  BY <1>1, <1>2 DEF IInv, QueueInv
<1>6. /\ queue' \in Seq(Buf)
      /\ QueueInv'
      /\ \A w \in Use : pc'[w] = "io" =>
           \E k \in 1 .. Len(queue') : queue'[k] = buf'[w]
  BY <1>1, <1>4, <1>5, IderwInv
<1>7. TypeOK'
  BY <1>1, <1>2, <1>6 DEF TypeOK, Point
<1>8. PcInv'
  <2>1. ASSUME NEW w \in Use, w # u PROVE PcOk(w)'
    BY <1>1, <1>2, <1>3, <1>6, <2>1 DEF IInv, PcInv, PcOk, TypeOK, Holds
  <2>2. PcOk(u)'
    BY <1>1, <1>2, <1>6 DEF IInv, PcInv, PcOk, TypeOK, Holds
  <2>. QED
    BY <2>1, <2>2 DEF PcInv
<1>9. BufInv'
  BY <1>1, <1>2, <1>3 DEF IInv, BufInv, TypeOK, Holds
<1>. QED
  BY <1>1, <1>6, <1>7, <1>8, <1>9, RefsSame DEF IInv

LEMMA ReleasesleepInv ==
  ASSUME TypeOK, IInv, NEW u \in Use, Releasesleep(u)
  PROVE  TypeOK' /\ IInv'
<1>. USE BufferCacheAssumption
<1>1. /\ pc[u] = "hold" /\ ~changed[u]
      /\ lock' = [lock EXCEPT ![buf[u]] = None]
      /\ UNCHANGED <<blockno, refcnt, valid, dirty, data, place, buf, changed, disk, queue, started>>
  BY DEF Releasesleep, ideVars
<1>2. buf[u] \in Buf /\ lock[buf[u]] = u
  BY <1>1, HasBuf DEF IInv, PcInv, PcOk, Holds
<1>3. /\ pc' \in [Use -> Point]
      /\ pc'[u] = "drop"
      /\ \A w \in Use : w # u =>
           pc'[w] = IF pc[w] = "asleep" /\ buf[w] = buf[u] THEN "lock" ELSE pc[w]
  BY DEF Releasesleep, WokenBy, TypeOK, Point
<1>4. ASSUME NEW w \in Use, w # u, Holds(w) PROVE buf[w] # buf[u]
  BY <1>2, <1>4 DEF IInv, PcInv, PcOk, Holds
<1>5. TypeOK'
  BY <1>1, <1>2, <1>3 DEF TypeOK
<1>6. PcInv'
  BY <1>1, <1>2, <1>3, <1>4 DEF IInv, PcInv, PcOk, TypeOK, Holds
<1>7. BufInv'
  <2>1. ASSUME NEW j \in Buf, lock'[j] # None
        PROVE  buf'[lock'[j]] = j /\ pc'[lock'[j]] \in {"io", "woken", "hold"}
    <3>1. j # buf[u] /\ lock'[j] = lock[j] /\ lock[j] \in Use
      BY <1>1, <1>2, <2>1 DEF TypeOK
    <3>2. buf[lock[j]] = j /\ pc[lock[j]] \in {"io", "woken", "hold"}
      BY <3>1, <2>1 DEF IInv, BufInv, Holds
    <3>3. pc'[lock[j]] = pc[lock[j]]
      BY <1>2, <1>3, <3>1, <3>2
    <3>. QED
      BY <1>1, <3>1, <3>2, <3>3
  <2>2. ASSUME NEW j \in Buf
        PROVE  /\ dirty'[j] => valid'[j] /\ blockno'[j] \in Writable
               /\ valid'[j] => blockno'[j] # None
               /\ valid'[j] /\ ~dirty'[j] /\ (\A w \in Use : changed'[w] => buf'[w] # j)
                    => data'[j] = disk'[blockno'[j]]
    BY <1>1 DEF IInv, BufInv
  <2>. QED
    BY <2>1, <2>2 DEF BufInv, Holds
<1>8. QueueInv'
  BY <1>1, <1>2, <1>3, <1>4 DEF IInv, QueueInv, BufInv, TypeOK, Holds
<1>. QED
  BY <1>1, <1>5, <1>6, <1>7, <1>8, RefsSame DEF IInv

LEMMA BrelseInv ==
  ASSUME TypeOK, IInv, NEW u \in Use, Brelse(u)
  PROVE  TypeOK' /\ IInv'
<1>. USE BufferCacheAssumption
<1>1. /\ pc[u] = "drop"
      /\ refcnt' = Dropped(buf[u])
      /\ place' = IF refcnt[buf[u]] = 1 THEN MoveToHead(buf[u]) ELSE place
      /\ pc' = [pc EXCEPT ![u] = "idle"]
      /\ buf' = [buf EXCEPT ![u] = None]
      /\ UNCHANGED <<blockno, valid, dirty, lock, data, disk, queue, started, changed>>
  BY DEF Brelse, ideVars
<1>2. buf[u] \in Buf /\ refcnt[buf[u]] >= 1 /\ ~changed[u]
  BY <1>1, HasBuf, CountZero DEF IInv, PcInv, PcOk
<1>3. place' \in [Buf -> Buf]
  <2>1. MoveToHead(buf[u]) \in [Buf -> Buf]
    <3>1. ASSUME NEW j \in Buf
          PROVE (IF j = buf[u] THEN 1
                 ELSE IF place[j] < place[buf[u]] THEN place[j] + 1 ELSE place[j]) \in Buf
      <4>1. place[j] \in 1 .. NBUF /\ place[buf[u]] \in 1 .. NBUF
        BY <1>2 DEF TypeOK, Buf
      <4>. QED
        BY <4>1 DEF Buf
    <3>. QED
      BY <3>1 DEF MoveToHead
  <2>. QED
    BY <1>1, <2>1 DEF TypeOK
<1>4. TypeOK'
  BY <1>1, <1>2, <1>3 DEF TypeOK, Dropped, Point
<1>5. RefsExact'
  <2>1. ASSUME NEW j \in Buf PROVE refcnt'[j] = Cardinality(Users(buf', j))
    <3>1. refcnt[j] = Cardinality(Users(buf, j))
      BY DEF IInv, RefsExact, Users
    <3>2. /\ Cardinality(Users(buf, j)) \in Nat
          /\ j = buf[u] => Cardinality(Users(buf', j)) = Cardinality(Users(buf, j)) - 1
          /\ j # buf[u] => Cardinality(Users(buf', j)) = Cardinality(Users(buf, j))
      BY <1>1, <1>2, UsersDrop
    <3>3. refcnt'[j] = IF j = buf[u] THEN refcnt[j] - 1 ELSE refcnt[j]
      BY <1>1 DEF Dropped, TypeOK
    <3>. QED
      BY <3>1, <3>2, <3>3
  <2>. QED
    BY <1>1, <2>1 DEF IInv, RefsExact, Users
<1>6. PcInv'
  BY <1>1, <1>2 DEF IInv, PcInv, PcOk, TypeOK, Holds
<1>7. BufInv'
  BY <1>1, <1>2 DEF IInv, BufInv, TypeOK, Holds
<1>8. QueueInv'
  BY <1>1, <1>2 DEF IInv, QueueInv, BufInv, TypeOK, Holds
<1>. QED
  BY <1>4, <1>5, <1>6, <1>7, <1>8 DEF IInv
LEMMA IdeintrInv ==
  ASSUME TypeOK, IInv, Ideintr
  PROVE  TypeOK' /\ IInv'
<1>. USE BufferCacheAssumption
<1>. DEFINE i == Head(queue)
            h == lock[i]
<1>1. queue \in Seq(Buf) /\ queue # <<>> /\ Len(queue) \in Nat /\ Len(queue) >= 1
  BY DEF Ideintr, TypeOK, IInv, QueueInv
<1>2. /\ i \in Buf /\ i = queue[1]
      /\ Tail(queue) \in Seq(Buf)
      /\ Len(Tail(queue)) = Len(queue) - 1
      /\ \A k \in 1 .. Len(Tail(queue)) : Tail(queue)[k] = queue[k + 1]
  BY <1>1
<1>3. /\ disk' = IF dirty[i] THEN [disk EXCEPT ![blockno[i]] = data[i]] ELSE disk
      /\ data' = IF dirty[i] THEN data ELSE [data EXCEPT ![i] = disk[blockno[i]]]
      /\ valid' = [valid EXCEPT ![i] = TRUE]
      /\ dirty' = [dirty EXCEPT ![i] = FALSE]
      /\ pc' = [u \in Use |-> IF pc[u] = "io" /\ buf[u] = i THEN "woken" ELSE pc[u]]
      /\ queue' = Tail(queue)
      /\ started' = (Tail(queue) # <<>>)
      /\ UNCHANGED <<blockno, refcnt, lock, place, buf, changed>>
  BY DEF Ideintr, Starts
<1>4. h \in Use /\ h # None /\ pc[h] = "io" /\ buf[h] = i
  BY <1>1, <1>2 DEF IInv, QueueInv, BufInv, TypeOK
<1>5. blockno[i] # None /\ blockno[i] \in Block
  <2>1. pc[h] \notin {"idle", "panic"}
    BY <1>4
  <2>. HIDE DEF h
  <2>. QED
    BY <1>4, <2>1, HasBuf, BufferCacheAssumption
<1>6. ASSUME NEW w \in Use, w # h, Holds(w) PROVE buf[w] # i
  BY <1>4, <1>6 DEF IInv, PcInv, PcOk
<1>7. TypeOK'
  BY <1>2, <1>3, <1>5 DEF TypeOK, Point
<1>8. RefsExact'
  BY <1>3, RefsSame DEF IInv
<1>9. PcInv'
  <2>1. ASSUME NEW w \in Use, pc'[w] = "io"
        PROVE  buf[w] # i /\ pc[w] = "io"
               /\ \E k \in 1 .. Len(queue') : queue'[k] = buf'[w]
    <3>1. pc[w] = "io" /\ buf[w] # i
      BY <1>3, <2>1 DEF TypeOK
    <3>2. PICK k \in 1 .. Len(queue) : queue[k] = buf[w]
      BY <3>1 DEF IInv, PcInv, PcOk
    <3>3. k # 1
      BY <1>2, <3>1, <3>2
    <3>4. k - 1 \in 1 .. Len(Tail(queue)) /\ Tail(queue)[k - 1] = queue[k]
      BY <1>1, <1>2, <3>3
    <3>. QED
      BY <1>3, <3>1, <3>2, <3>4
  <2>2. ASSUME NEW w \in Use PROVE PcOk(w)'
    <3>1. PcOk(w)
      BY DEF IInv, PcInv
    <3>2. CASE pc[w] = "io" /\ buf[w] = i
      <4>1. pc'[w] = "woken" /\ buf'[w] = i /\ valid'[i] /\ ~dirty'[i]
        BY <1>2, <1>3, <3>2 DEF TypeOK
      <4>. QED
        BY <1>3, <3>1, <3>2, <4>1 DEF PcOk, Holds
    <3>3. CASE ~(pc[w] = "io" /\ buf[w] = i)
      <4>1. pc'[w] = pc[w] /\ buf'[w] = buf[w] /\ changed'[w] = changed[w]
        BY <1>3, <3>3
      <4>2. Holds(w) => buf[w] # i
        BY <1>4, <1>6, <3>3
      <4>3. Holds(w) => /\ buf[w] \in Buf
                        /\ valid'[buf[w]] = valid[buf[w]]
                        /\ dirty'[buf[w]] = dirty[buf[w]]
        BY <1>3, <4>2, HasBuf DEF TypeOK, Holds
      <4>. QED
        BY <1>3, <2>1, <3>1, <4>1, <4>3 DEF PcOk, Holds
    <3>. QED
      BY <3>2, <3>3
  <2>. QED
    BY <2>2 DEF PcInv
<1>10. BufInv'
  <2>1. ASSUME NEW j \in Buf, lock'[j] # None
        PROVE  buf'[lock'[j]] = j /\ pc'[lock'[j]] \in {"io", "woken", "hold"}
    <3>1. lock[j] \in Use /\ buf[lock[j]] = j /\ pc[lock[j]] \in {"io", "woken", "hold"}
      BY <1>3, <2>1 DEF IInv, BufInv, TypeOK, Holds
    <3>. QED
      BY <1>3, <3>1
  <2>2. ASSUME NEW j \in Buf, dirty'[j]
        PROVE  valid'[j] /\ blockno'[j] \in Writable
    BY <1>2, <1>3, <2>2 DEF IInv, BufInv, TypeOK
  <2>3. ASSUME NEW j \in Buf, valid'[j]
        PROVE  blockno'[j] # None
    BY <1>3, <1>5, <2>3 DEF IInv, BufInv, TypeOK
  <2>4. ASSUME NEW j \in Buf, valid'[j], ~dirty'[j], \A w \in Use : changed'[w] => buf'[w] # j
        PROVE  data'[j] = disk'[blockno'[j]]
    <3>1. CASE j = i
      BY <1>2, <1>3, <1>5, <3>1 DEF TypeOK
    <3>2. CASE j # i
      <4>1. valid[j] /\ ~dirty[j] /\ data[j] = disk[blockno[j]] /\ blockno[j] # None
        BY <1>2, <1>3, <2>4, <3>2 DEF IInv, BufInv, TypeOK
      <4>2. blockno[j] # blockno[i]
        BY <1>2, <3>2, <4>1 DEF IInv, RefsExact
      <4>3. data'[j] = data[j]
        BY <1>2, <1>3, <3>2 DEF TypeOK
      <4>4. disk'[blockno[j]] = disk[blockno[j]]
        BY <1>3, <4>1, <4>2 DEF TypeOK
      <4>. QED
        BY <1>3, <4>1, <4>3, <4>4
    <3>. QED
      BY <3>1, <3>2
  <2>. QED
    BY <2>1, <2>2, <2>3, <2>4 DEF BufInv, Holds
<1>11. QueueInv'
  <2>1. ASSUME NEW k \in 1 .. Len(queue')
        PROVE  lock'[queue'[k]] # None /\ pc'[lock'[queue'[k]]] = "io"
    <3>1. k + 1 \in 1 .. Len(queue) /\ queue'[k] = queue[k + 1]
      BY <1>1, <1>2, <1>3
    <3>2. queue[k + 1] # i /\ queue[k + 1] \in Buf
      BY <1>1, <1>2, <3>1 DEF IInv, QueueInv
    <3>3. /\ lock[queue[k + 1]] \in Use /\ lock[queue[k + 1]] # None
          /\ pc[lock[queue[k + 1]]] = "io" /\ buf[lock[queue[k + 1]]] = queue[k + 1]
      BY <3>1, <3>2 DEF IInv, QueueInv, BufInv, TypeOK
    <3>. QED
      BY <1>3, <3>1, <3>2, <3>3
  <2>2. ASSUME NEW k \in 1 .. Len(queue'), NEW l \in 1 .. Len(queue'), queue'[k] = queue'[l]
        PROVE  k = l
    <3>1. k + 1 \in 1 .. Len(queue) /\ l + 1 \in 1 .. Len(queue)
          /\ queue[k + 1] = queue[l + 1]
      BY <1>1, <1>2, <1>3, <2>2
    <3>. QED
      BY <3>1 DEF IInv, QueueInv
  <2>. QED
    BY <1>3, <2>1, <2>2 DEF QueueInv
<1>. QED
  BY <1>7, <1>8, <1>9, <1>10, <1>11 DEF IInv

LEMMA StepInv == TypeOK /\ IInv /\ [Next]_vars => TypeOK' /\ IInv'
<1>. SUFFICES ASSUME TypeOK, IInv, [Next]_vars PROVE TypeOK' /\ IInv'
  OBVIOUS
<1>1. ASSUME NEW u \in Use, NEW b \in Block, Bget(u, b) PROVE TypeOK' /\ IInv'
  BY <1>1, BgetHitInv, BgetMissInv, BgetPanicInv DEF Bget
<1>2. ASSUME NEW u \in Use, Step(u) PROVE TypeOK' /\ IInv'
  BY <1>2, AcquireSleepInv, AcquireBlocksInv, IderwReturnInv, BwriteInv,
     LogWriteInv, ReleasesleepInv, BrelseInv DEF Step
<1>3. ASSUME NEW u \in Use, NEW v \in Val, Modify(u, v) PROVE TypeOK' /\ IInv'
  BY <1>3, ModifyInv
<1>0. ASSUME NEW u \in Use, Panicked(u) PROVE UNCHANGED vars
  BY <1>0 DEF Panicked
<1>4. CASE Ideintr
  BY <1>4, IdeintrInv
<1>5. CASE UNCHANGED vars
  <2>1. UNCHANGED <<disk, blockno, refcnt, valid, dirty, lock, data, place,
                    queue, started, pc, buf, changed>>
    BY <1>5 DEF vars, bufVars, ideVars, procVars
  <2>2. TypeOK'
    BY <2>1 DEF TypeOK
  <2>3. RefsExact' /\ PcInv' /\ BufInv' /\ QueueInv'
    BY <2>1 DEF IInv, RefsExact, PcInv, PcOk, BufInv, QueueInv, Holds
  <2>. QED
    BY <2>2, <2>3 DEF IInv
<1>. QED
  BY <1>0, <1>1, <1>2, <1>3, <1>4, <1>5 DEF Next

LEMMA Invariance == Spec => [](TypeOK /\ IInv)
BY InitInv, StepInv, PTL DEF Spec

-----------------------------------------------------------------------------
(* The properties.                                                         *)

\* The fields of the buffers and the processes have their types.
THEOREM TypeCorrect == Spec => []TypeOK
BY Invariance, PTL

\* A block has one buffer, and the counts are exact (bget(), brelse()).
THEOREM RefsCorrect == Spec => []RefsExact
<1>1. TypeOK /\ IInv => RefsExact
  BY DEF IInv
<1>. QED
  BY <1>1, Invariance, PTL

\* Whoever sleeps in iderw() or acquiresleep() has somebody to wake him.
THEOREM SleepersCorrect == Spec => []NoLostWakeup
<1>1. TypeOK /\ IInv => NoLostWakeup
  BY DEF IInv, PcInv, PcOk, QueueInv, NoLostWakeup
<1>. QED
  BY <1>1, Invariance, PTL

\* After a panic no count drops to 0 and no buffer loses B_DIRTY that is not
\* in use: bcache.lock stays taken, and the disk works only on buffers in use.
FullInv == ~BcacheLockFree => \A i \in Buf : ~Unused(i)

LEMMA FullStep ==
  ASSUME TypeOK, IInv, FullInv, [Next]_vars
  PROVE  FullInv'
<1>. USE BufferCacheAssumption
<1>. SUFFICES ASSUME NEW w \in Use, pc'[w] = "panic", NEW j \in Buf, Unused(j)'
              PROVE  FALSE
  BY DEF FullInv, BcacheLockFree
<1>0. pc[w] = "panic" => ~Unused(j)
  BY DEF FullInv, BcacheLockFree
<1>1. ASSUME NEW u \in Use, NEW b \in Block, Bget(u, b) PROVE FALSE
  <2>1. CASE BgetHit(u, b) \/ BgetMiss(u, b)
    BY <2>1 DEF BgetHit, BgetMiss, BcacheLockFree, TypeOK
  <2>2. CASE BgetPanic(u, b)
    BY <2>2 DEF BgetPanic, Unused, bufVars
  <2>. QED
    BY <1>1, <2>1, <2>2 DEF Bget
<1>2. ASSUME NEW u \in Use, Step(u) \/ \E v \in Val : Modify(u, v) PROVE FALSE
  <2>1. pc[w] = "panic"
    <3>1. CASE AcquireSleep(u)
      BY <3>1 DEF AcquireSleep, Iderw, TypeOK
    <3>2. CASE Releasesleep(u)
      BY <3>2 DEF Releasesleep, WokenBy, TypeOK
    <3>3. CASE Brelse(u)
      BY <3>3 DEF Brelse, TypeOK
    <3>4. CASE IderwReturn(u)
      BY <3>4 DEF IderwReturn, TypeOK
    <3>5. CASE AcquireBlocks(u) \/ Bwrite(u) \/ LogWrite(u) \/ \E v \in Val : Modify(u, v)
      BY <3>5 DEF AcquireBlocks, Bwrite, Iderw, LogWrite, Modify, TypeOK
    <3>. QED
      BY <1>2, <3>1, <3>2, <3>3, <3>4, <3>5 DEF Step
  <2>3. ~Brelse(u)
    BY <2>1 DEF Brelse, BcacheLockFree
  <2>2. refcnt' = refcnt /\ (dirty[j] => dirty'[j])
    BY <1>2, <2>3 DEF Step, Modify, AcquireSleep, AcquireBlocks, IderwReturn,
       Bwrite, LogWrite, Releasesleep, bufVars, TypeOK
  <2>. QED
    BY <1>0, <2>1, <2>2 DEF Unused
<1>3. ASSUME Ideintr PROVE FALSE
  <2>. DEFINE i == Head(queue)
  <2>1. i \in Buf /\ i = queue[1] /\ 1 \in 1 .. Len(queue)
    BY <1>3 DEF Ideintr, TypeOK, IInv, QueueInv
  <2>2. lock[i] \in Use /\ buf[lock[i]] = i
    BY <2>1 DEF IInv, QueueInv, BufInv, TypeOK
  <2>3. refcnt[i] >= 1
    BY <2>1, <2>2, CountZero DEF IInv
  <2>4. /\ refcnt' = refcnt /\ dirty' = [dirty EXCEPT ![i] = FALSE]
        /\ pc[w] = "panic"
    BY <1>3 DEF Ideintr, TypeOK
  <2>. HIDE DEF i
  <2>5. j # i => dirty'[j] = dirty[j]
    BY <2>4 DEF TypeOK
  <2>. QED
    BY <1>0, <2>1, <2>3, <2>4, <2>5 DEF Unused, TypeOK
<1>4. ASSUME UNCHANGED vars \/ \E u \in Use : Panicked(u) PROVE FALSE
  BY <1>0, <1>4 DEF Panicked, Unused, vars, bufVars, procVars
<1>. QED
  BY <1>1, <1>2, <1>3, <1>4 DEF Next

\* When no buffer is unused, each is in use or pinned, and neither kind is
\* more than what uses it or what it caches.
LEMMA FullCount ==
  ASSUME TypeOK, IInv, \A i \in Buf : ~Unused(i)
  PROVE  NBUF <= Cardinality(InUse) + Cardinality(Pinned)
<1>. USE BufferCacheAssumption
<1>. DEFINE Used == {i \in Buf : \E u \in InUse : buf[u] = i}
            Dirty == {i \in Buf : dirty[i]}
            used == [u \in InUse |-> buf[u]]
            block == [i \in Dirty |-> blockno[i]]
<1>1. \A u \in InUse : buf[u] \in Buf
  BY DEF InUse, TypeOK
<1>2. Buf = Used \cup Dirty
  <2>1. ASSUME NEW i \in Buf, ~dirty[i] PROVE i \in Used
    <3>1. refcnt[i] # 0
      BY <2>1 DEF Unused
    <3>2. refcnt[i] = Cardinality(Users(buf, i))
      BY DEF IInv, RefsExact, Users
    <3>3. Users(buf, i) # {}
      BY <3>1, <3>2, FS_EmptySet
    <3>. QED
      BY <3>3 DEF Users, InUse
  <2>. QED
    BY <2>1
<1>3. /\ IsFiniteSet(Used)
      /\ Cardinality(Used) \in Nat /\ Cardinality(InUse) \in Nat
      /\ Cardinality(Used) <= Cardinality(InUse)
  <2>1. IsFiniteSet(InUse)
    BY UseFinite, FS_Subset DEF InUse
  <2>2. used \in Surjection(InUse, Used)
    BY <1>1 DEF Surjection
  <2>. HIDE DEF Used, used
  <2>3. IsFiniteSet(Used) /\ Cardinality(Used) <= Cardinality(InUse)
    BY <2>1, <2>2, FS_Surjection
  <2>. QED
    BY <2>1, <2>3, FS_CardinalityType
<1>4. /\ IsFiniteSet(Dirty)
      /\ Cardinality(Dirty) \in Nat /\ Cardinality(Pinned) \in Nat
      /\ Cardinality(Dirty) <= Cardinality(Pinned)
  <2>1. block \in Injection(Dirty, Pinned)
    BY DEF IInv, BufInv, RefsExact, Injection, IsInjective, Pinned
  <2>2. IsFiniteSet(Dirty)
    <3>1. IsFiniteSet(Buf)
      BY FS_Interval DEF Buf
    <3>. QED
      BY <3>1, FS_Subset
  <2>3. block \in Surjection(Dirty, Pinned)
    BY DEF Surjection, Pinned
  <2>. HIDE DEF block, Dirty
  <2>4. IsFiniteSet(Pinned)
    BY <2>2, <2>3, FS_Surjection
  <2>5. Cardinality(Dirty) <= Cardinality(Pinned)
    BY <2>1, <2>4, FS_Injection
  <2>. QED
    BY <2>2, <2>4, <2>5, FS_CardinalityType
<1>5. Cardinality(Buf) = NBUF
  BY FS_Interval DEF Buf
<1>. HIDE DEF Used, Dirty
<1>6. /\ Cardinality(Used \cup Dirty)
           = Cardinality(Used) + Cardinality(Dirty) - Cardinality(Used \cap Dirty)
      /\ Cardinality(Used \cap Dirty) \in Nat
  <2>1. IsFiniteSet(Used \cap Dirty)
    BY <1>3, FS_Subset
  <2>. QED
    BY <1>3, <1>4, <2>1, FS_Union, FS_CardinalityType
<1>. QED
  BY <1>2, <1>3, <1>4, <1>5, <1>6

\* bget() panics only with NBUF or more buffers in use and blocks pinned,
\* however few buffers there are: the recycling wastes none.
THEOREM BgetCorrect == Spec => []PanicsOnlyFull
<1>1. Init => FullInv
  BY DEF Init, FullInv, BcacheLockFree
<1>2. TypeOK /\ IInv /\ FullInv /\ [Next]_vars => FullInv'
  BY FullStep
<1>3. TypeOK /\ IInv /\ FullInv => PanicsOnlyFull
  BY FullCount DEF FullInv, PanicsOnlyFull
<1>. QED
  BY <1>1, <1>2, <1>3, Invariance, PTL DEF Spec

-----------------------------------------------------------------------------
(* The refinement of BlockStore.                                           *)

Value ==
  [b \in Block |->
    IF Cached(b) /\ valid[BufOf(b)] THEN data[BufOf(b)] ELSE disk[b]]

Holder == [b \in Block |-> IF Cached(b) THEN lock[BufOf(b)] ELSE None]

\* A cached block has one buffer.
BlockView ==
  \A b \in Block :
    /\ \A i \in Buf : blockno[i] = b =>
         /\ Value[b] = IF valid[i] THEN data[i] ELSE disk[b]
         /\ Holder[b] = lock[i]
    /\ ~Cached(b) => Value[b] = disk[b] /\ Holder[b] = None

LEMMA View == TypeOK /\ IInv => BlockView
<1>. SUFFICES ASSUME TypeOK, IInv, NEW b \in Block
              PROVE  /\ \A i \in Buf : blockno[i] = b =>
                          /\ Value[b] = IF valid[i] THEN data[i] ELSE disk[b]
                          /\ Holder[b] = lock[i]
                     /\ ~Cached(b) => Value[b] = disk[b] /\ Holder[b] = None
  BY DEF BlockView
<1>1. ASSUME NEW i \in Buf, blockno[i] = b PROVE Cached(b) /\ BufOf(b) = i
  <2>1. \A j \in Buf : blockno[j] = b => j = i
    BY <1>1, BufferCacheAssumption DEF IInv, RefsExact
  <2>. QED
    BY <1>1, <2>1 DEF Cached, BufOf
<1>. QED
  BY <1>1 DEF Value, Holder

LEMMA ViewNext == (TypeOK /\ IInv)' => BlockView'
BY View, PTL

\* A step that leaves what each buffer holds alone is not seen.
LEMMA ViewSame ==
  ASSUME UNCHANGED <<blockno, valid, data, disk, lock>>
  PROVE  UNCHANGED <<Value, Holder>>
BY DEF Value, Holder, Cached, BufOf

LEMMA ViewTypes ==
  ASSUME TypeOK
  PROVE  /\ Value = [b \in Block |-> Value[b]]
         /\ Holder = [b \in Block |-> Holder[b]]
BY DEF Value, Holder

\* Recycling a buffer is not seen: what it held is on the disk.
LEMMA BgetMissView ==
  ASSUME TypeOK, IInv, NEW u \in Use, NEW b \in Block, BgetMiss(u, b)
  PROVE  UNCHANGED <<Value, Holder>>
<1>. USE BufferCacheAssumption
<1>1. PICK i \in Buf : /\ Victim(i)
                       /\ blockno' = [blockno EXCEPT ![i] = b]
                       /\ valid' = [valid EXCEPT ![i] = FALSE]
  BY DEF BgetMiss
<1>2. ~Cached(b) /\ UNCHANGED <<lock, data, disk>>
  BY DEF BgetMiss, ideVars
<1>3. /\ \A w \in Use : buf[w] # i
      /\ lock[i] = None /\ ~dirty[i]
  BY <1>1, UnusedFree DEF Victim
<1>4. TypeOK' /\ IInv' /\ BlockView /\ BlockView'
  BY BgetMissInv, View, ViewNext
<1>5. ASSUME NEW c \in Block PROVE Value'[c] = Value[c] /\ Holder'[c] = Holder[c]
  <2>1. CASE c = b
    <3>1. Value[c] = disk[c] /\ Holder[c] = None
      BY <1>2, <1>4, <2>1 DEF BlockView
    <3>2. blockno'[i] = c /\ ~valid'[i]
      BY <1>1, <2>1 DEF TypeOK
    <3>3. Value'[c] = disk'[c] /\ Holder'[c] = lock'[i]
      BY <1>4, <3>2 DEF BlockView
    <3>. QED
      BY <1>2, <1>3, <3>1, <3>3
  <2>2. CASE c # b /\ blockno[i] = c
    <3>1. Value[c] = disk[c] /\ Holder[c] = None
      <4>1. Value[c] = (IF valid[i] THEN data[i] ELSE disk[c]) /\ Holder[c] = lock[i]
        BY <1>4, <2>2 DEF BlockView
      <4>2. valid[i] => data[i] = disk[c]
        BY <1>3, <2>2 DEF IInv, BufInv
      <4>. QED
        BY <1>3, <4>1, <4>2
    <3>2. ~Cached(c)'
      <4>1. \A j \in Buf : blockno[j] = c => j = i
        BY <2>2 DEF IInv, RefsExact
      <4>. QED
        BY <1>1, <2>2, <4>1 DEF Cached, TypeOK
    <3>3. Value'[c] = disk'[c] /\ Holder'[c] = None
      BY <1>4, <3>2 DEF BlockView
    <3>. QED
      BY <1>2, <3>1, <3>3
  <2>3. CASE c # b /\ blockno[i] # c /\ Cached(c)
    <3>1. PICK j \in Buf : blockno[j] = c
      BY <2>3 DEF Cached
    <3>2. j # i /\ blockno'[j] = c /\ valid'[j] = valid[j]
      BY <1>1, <2>3, <3>1 DEF TypeOK
    <3>3. Value[c] = (IF valid[j] THEN data[j] ELSE disk[c]) /\ Holder[c] = lock[j]
      BY <1>4, <3>1 DEF BlockView
    <3>4. Value'[c] = (IF valid'[j] THEN data'[j] ELSE disk'[c]) /\ Holder'[c] = lock'[j]
      BY <1>4, <3>2 DEF BlockView
    <3>. QED
      BY <1>2, <3>2, <3>3, <3>4
  <2>4. CASE c # b /\ blockno[i] # c /\ ~Cached(c)
    <3>1. ~Cached(c)'
      BY <1>1, <2>4 DEF Cached, TypeOK
    <3>2. /\ Value[c] = disk[c] /\ Holder[c] = None
          /\ Value'[c] = disk'[c] /\ Holder'[c] = None
      BY <1>4, <2>4, <3>1 DEF BlockView
    <3>. QED
      BY <1>2, <3>2
  <2>. QED
    BY <2>1, <2>2, <2>3, <2>4
<1>. QED
  BY <1>5, ViewTypes DEF Value, Holder

\* Nor is the disk's work: it makes the disk and the buffer agree.
LEMMA IdeintrView ==
  ASSUME TypeOK, IInv, Ideintr
  PROVE  UNCHANGED <<Value, Holder>>
<1>. USE BufferCacheAssumption
<1>. DEFINE i == Head(queue)
<1>1. queue \in Seq(Buf) /\ queue # <<>> /\ i = queue[1] /\ 1 \in 1 .. Len(queue)
  BY DEF Ideintr, TypeOK, IInv, QueueInv
<1>2. /\ disk' = IF dirty[i] THEN [disk EXCEPT ![blockno[i]] = data[i]] ELSE disk
      /\ data' = IF dirty[i] THEN data ELSE [data EXCEPT ![i] = disk[blockno[i]]]
      /\ valid' = [valid EXCEPT ![i] = TRUE]
      /\ UNCHANGED <<blockno, lock>>
  BY DEF Ideintr
<1>3. /\ i \in Buf /\ lock[i] \in Use
      /\ pc[lock[i]] = "io" /\ buf[lock[i]] = i
  BY <1>1 DEF IInv, QueueInv, BufInv, TypeOK
<1>4. /\ ~valid[i] \/ dirty[i]
      /\ dirty[i] => valid[i]
      /\ blockno[i] \in Block
  BY <1>3, HasBuf DEF IInv, PcInv, PcOk, BufInv
<1>5. TypeOK' /\ IInv' /\ BlockView /\ BlockView'
  BY IdeintrInv, View, ViewNext
<1>. HIDE DEF i
<1>6. ASSUME NEW c \in Block PROVE Value'[c] = Value[c] /\ Holder'[c] = Holder[c]
  <2>1. CASE Cached(c)
    <3>1. PICK j \in Buf : blockno[j] = c
      BY <2>1 DEF Cached
    <3>2. Value[c] = (IF valid[j] THEN data[j] ELSE disk[c]) /\ Holder[c] = lock[j]
      BY <1>5, <3>1 DEF BlockView
    <3>3. Value'[c] = (IF valid'[j] THEN data'[j] ELSE disk'[c]) /\ Holder'[c] = lock'[j]
      BY <1>2, <1>5, <3>1 DEF BlockView
    <3>4. CASE j = i
      <4>1. valid'[j] /\ data'[j] = IF dirty[i] THEN data[i] ELSE disk[c]
        BY <1>2, <1>3, <3>1, <3>4 DEF TypeOK
      <4>. QED
        BY <1>2, <1>4, <3>2, <3>3, <3>4, <4>1
    <3>5. CASE j # i
      <4>1. c # blockno[i]
        BY <1>3, <3>1, <3>5 DEF IInv, RefsExact
      <4>2. valid'[j] = valid[j] /\ data'[j] = data[j] /\ disk'[c] = disk[c]
        BY <1>2, <3>5, <4>1 DEF TypeOK
      <4>. QED
        BY <1>2, <3>2, <3>3, <4>2
    <3>. QED
      BY <3>4, <3>5
  <2>2. CASE ~Cached(c)
    <3>1. ~Cached(c)' /\ c # blockno[i]
      BY <1>2, <1>3, <2>2 DEF Cached
    <3>2. /\ Value[c] = disk[c] /\ Holder[c] = None
          /\ Value'[c] = disk'[c] /\ Holder'[c] = None
      BY <1>5, <2>2, <3>1 DEF BlockView
    <3>3. disk'[c] = disk[c]
      BY <1>2, <3>1 DEF TypeOK
    <3>. QED
      BY <3>2, <3>3
  <2>. QED
    BY <2>1, <2>2
<1>. QED
  BY <1>6, ViewTypes DEF Value, Holder

\* acquiresleep() and releasesleep() take and give back the block.
LEMMA HolderStep ==
  ASSUME TypeOK, IInv, TypeOK', IInv', NEW i \in Buf, blockno[i] \in Block,
         NEW x \in Use \cup {None},
         lock' = [lock EXCEPT ![i] = x], UNCHANGED <<blockno, valid, data, disk>>
  PROVE  /\ Value' = Value
         /\ Holder' = [Holder EXCEPT ![blockno[i]] = x]
         /\ Holder[blockno[i]] = lock[i]
<1>. USE BufferCacheAssumption
<1>1. BlockView /\ BlockView'
  BY View, ViewNext
<1>2. Value' = Value
  BY DEF Value, Cached, BufOf
<1>3. ASSUME NEW c \in Block
      PROVE  Holder'[c] = IF c = blockno[i] THEN x ELSE Holder[c]
  <2>1. CASE Cached(c)
    <3>1. PICK j \in Buf : blockno[j] = c
      BY <2>1 DEF Cached
    <3>2. Holder[c] = lock[j] /\ Holder'[c] = lock'[j]
      BY <1>1, <3>1 DEF BlockView
    <3>3. c = blockno[i] => j = i
      BY <3>1 DEF IInv, RefsExact
    <3>. QED
      BY <3>1, <3>2, <3>3 DEF TypeOK
  <2>2. CASE ~Cached(c)
    <3>1. ~Cached(c)' /\ c # blockno[i]
      BY <2>2 DEF Cached
    <3>. QED
      BY <1>1, <2>2, <3>1 DEF BlockView
  <2>. QED
    BY <2>1, <2>2
<1>4. Holder' = [Holder EXCEPT ![blockno[i]] = x]
  BY <1>3 DEF Holder
<1>5. Holder[blockno[i]] = lock[i]
  BY <1>1 DEF BlockView
<1>. QED
  BY <1>2, <1>4, <1>5

LEMMA ModifyView ==
  ASSUME TypeOK, IInv, NEW u \in Use, NEW v \in Val, Modify(u, v)
  PROVE  /\ Holder' = Holder
         /\ Value' = [Value EXCEPT ![blockno[buf[u]]] = v]
         /\ blockno[buf[u]] \in Block
         /\ Holder[blockno[buf[u]]] = u
<1>. USE BufferCacheAssumption
<1>. DEFINE i == buf[u]
<1>1. /\ pc[u] = "hold"
      /\ data' = [data EXCEPT ![i] = v]
      /\ UNCHANGED <<blockno, valid, lock, disk>>
  BY DEF Modify, ideVars
<1>2. i \in Buf /\ blockno[i] \in Block /\ lock[i] = u /\ valid[i]
  BY <1>1, HasBuf DEF IInv, PcInv, PcOk, Holds
<1>3. BlockView /\ BlockView'
  BY ModifyInv, View, ViewNext
<1>4. Holder' = Holder
  BY <1>1 DEF Holder, Cached, BufOf
<1>. HIDE DEF i
<1>5. ASSUME NEW c \in Block
      PROVE  Value'[c] = IF c = blockno[i] THEN v ELSE Value[c]
  <2>1. CASE Cached(c)
    <3>1. PICK j \in Buf : blockno[j] = c
      BY <2>1 DEF Cached
    <3>2. Value[c] = IF valid[j] THEN data[j] ELSE disk[c]
      BY <1>3, <3>1 DEF BlockView
    <3>3. Value'[c] = IF valid[j] THEN data'[j] ELSE disk[c]
      BY <1>1, <1>3, <3>1 DEF BlockView
    <3>4. c = blockno[i] <=> j = i
      BY <1>2, <3>1 DEF IInv, RefsExact
    <3>. QED
      BY <1>1, <1>2, <3>1, <3>2, <3>3, <3>4 DEF TypeOK
  <2>2. CASE ~Cached(c)
    <3>1. ~Cached(c)' /\ c # blockno[i]
      BY <1>1, <1>2, <2>2 DEF Cached
    <3>. QED
      BY <1>1, <1>3, <2>2, <3>1 DEF BlockView
  <2>. QED
    BY <2>1, <2>2
<1>6. Value' = [Value EXCEPT ![blockno[i]] = v]
  BY <1>5 DEF Value
<1>7. Holder[blockno[i]] = u
  BY <1>2, <1>3 DEF BlockView
<1>. QED
  BY <1>2, <1>4, <1>6, <1>7 DEF i

LEMMA RefinementInit == Init => Store!Init
<1>. SUFFICES ASSUME Init PROVE Store!Init
  OBVIOUS
<1>1. \A b \in Block : ~Cached(b)
  BY BufferCacheAssumption DEF Init, Cached
<1>. QED
  BY <1>1, BufferCacheAssumption DEF Init, Store!Init

LEMMA RefinementStep ==
  TypeOK /\ IInv /\ [Next]_vars => [Store!Next]_(Store!vars)
<1>. SUFFICES ASSUME TypeOK, IInv, [Next]_vars
              PROVE  UNCHANGED <<Value, Holder>> \/ Store!Next
  BY DEF Store!vars, Value, Holder
<1>. USE BufferCacheAssumption
<1>1. TypeOK' /\ IInv'
  BY StepInv
<1>2. ASSUME NEW u \in Use, NEW b \in Block, Bget(u, b)
      PROVE  UNCHANGED <<Value, Holder>>
  <2>1. CASE BgetHit(u, b)
    BY <2>1, ViewSame DEF BgetHit, ideVars
  <2>2. CASE BgetMiss(u, b)
    BY <2>2, BgetMissView
  <2>3. CASE BgetPanic(u, b)
    BY <2>3, ViewSame DEF BgetPanic, bufVars, ideVars
  <2>. QED
    BY <1>2, <2>1, <2>2, <2>3 DEF Bget
<1>3. ASSUME NEW u \in Use, AcquireSleep(u)
      PROVE  \E b \in Block : Store!Acquire(u, b)
  <2>1. /\ pc[u] = "lock" /\ lock[buf[u]] = None
        /\ lock' = [lock EXCEPT ![buf[u]] = u]
        /\ UNCHANGED <<blockno, valid, data, disk>>
    BY <1>3 DEF AcquireSleep, Iderw, ideVars
  <2>2. buf[u] \in Buf /\ blockno[buf[u]] \in Block
    BY <2>1, HasBuf
  <2>3. /\ Value' = Value
        /\ Holder' = [Holder EXCEPT ![blockno[buf[u]]] = u]
        /\ Holder[blockno[buf[u]]] = None
    BY <1>1, <2>1, <2>2, HolderStep
  <2>. QED
    BY <2>2, <2>3 DEF Store!Acquire, Value, Holder
<1>4. ASSUME NEW u \in Use, Releasesleep(u)
      PROVE  \E b \in Block : Store!Release(u, b)
  <2>1. /\ pc[u] = "hold"
        /\ lock' = [lock EXCEPT ![buf[u]] = None]
        /\ UNCHANGED <<blockno, valid, data, disk>>
    BY <1>4 DEF Releasesleep, ideVars
  <2>2. buf[u] \in Buf /\ blockno[buf[u]] \in Block /\ lock[buf[u]] = u
    BY <2>1, HasBuf DEF IInv, PcInv, PcOk, Holds
  <2>3. /\ Value' = Value
        /\ Holder' = [Holder EXCEPT ![blockno[buf[u]]] = None]
        /\ Holder[blockno[buf[u]]] = u
    BY <1>1, <2>1, <2>2, HolderStep
  <2>. QED
    BY <2>2, <2>3 DEF Store!Release, Value, Holder
<1>5. ASSUME NEW u \in Use, NEW v \in Val, Modify(u, v)
      PROVE  \E b \in Block : Store!Write(u, b, v)
  BY <1>5, ModifyView DEF Store!Write, Value, Holder
<1>6. ASSUME NEW u \in Use,
             AcquireBlocks(u) \/ IderwReturn(u) \/ Bwrite(u) \/ LogWrite(u) \/ Brelse(u)
      PROVE  UNCHANGED <<Value, Holder>>
  <2>1. UNCHANGED <<blockno, valid, data, disk, lock>>
    BY <1>6 DEF AcquireBlocks, IderwReturn, Bwrite, Iderw, LogWrite, Brelse,
                bufVars, ideVars
  <2>. QED
    BY <2>1, ViewSame
<1>7. ASSUME UNCHANGED vars PROVE UNCHANGED <<Value, Holder>>
  BY <1>7, ViewSame DEF vars, bufVars, ideVars
<1>8. CASE \E u \in Use, b \in Block : Bget(u, b)
  BY <1>2, <1>8
<1>9. CASE \E u \in Use : Step(u)
  BY <1>3, <1>4, <1>6, <1>9 DEF Step, Store!Next
<1>10. CASE \E u \in Use, v \in Val : Modify(u, v)
  BY <1>5, <1>10 DEF Store!Next
<1>11. CASE Ideintr
  BY <1>11, IdeintrView
<1>12. CASE \E u \in Use : Panicked(u)
  BY <1>7, <1>12 DEF Panicked
<1>. QED
  BY <1>7, <1>8, <1>9, <1>10, <1>11, <1>12 DEF Next

\* The cache, recycling its buffers, and the disk driver, behind its queue,
\* are together a store of blocks that each read as what was last written.
THEOREM CacheImplementsBlockStore == Spec => ImplementsBlockStore
BY RefinementInit, RefinementStep, Invariance, PTL
DEF Spec, ImplementsBlockStore, Store!Spec
=============================================================================
