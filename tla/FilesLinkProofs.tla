--------------------------- MODULE FilesLinkProofs --------------------------
(***************************************************************************)
(* Proofs about Files, on top of FilesProofs: link counts cover what names *)
(* an inode, and nothing in use dangles.                                   *)
(***************************************************************************)
EXTENDS FilesProofs

\* The inode in slot s
Node(s) == IF s = None THEN None ELSE icache[s].inum

Linking == {"walk", "linknew", "linkfound", "linkbad"}

\* The inode of which p holds a link that no entry stands for: sys_link() has
\* counted it and not entered it, or sys_unlink() taken the entry away.
Owes(p) == IF At(p) \in Linking \cup {"unlinked"} THEN Node(ip[p]) ELSE None

IsSubdir(d, i, n) == d[i].dir[n] # None /\ d[d[i].dir[n]].type = "dir"

Subdirs(d, i) == Cardinality({n \in Name : IsSubdir(d, i, n)})
Names(d, i) == Cardinality({x \in Inum \X Name : d[x[1]].dir[x[2]] = i})

Owed == [p \in Proc |-> Owes(p)]

\* The links an inode has to have: one for each name, for each subdirectory and
\* for each call under way that owes it one; the root has one of its own.
Bound(d, o, i) ==
  Ind(i, ROOTINO) + Names(d, i) + Subdirs(d, i) + Count(o, Proc, i)

LinkInv == \A i \in Inum : disk[i].nlink >= Bound(disk, Owed, i)

\* What is named or held is allocated; sys_link() holds no directory.
HeldInv ==
  /\ disk[ROOTINO].type # "none"
  /\ \A i \in Inum, n \in Name : disk[i].dir[n] # None => disk[disk[i].dir[n]].type # "none"
  /\ \A f \in File : ftable[f].ip # None => disk[Node(ftable[f].ip)].type # "none"
  /\ \A p \in Proc :
       /\ cur[p] # None => disk[Node(cur[p])].type # "none"
       /\ ip[p] # None => disk[Node(ip[p])].type # "none"
       /\ ip[p] # None /\ At(p) \in Linking => disk[Node(ip[p])].type # "dir"

\* A valid slot in use has what is on the disk.
CacheInv ==
  \A s \in Slot :
    /\ icache[s].nlink >= 0
    /\ icache[s].ref > 0 /\ icache[s].valid =>
         /\ icache[s].type = disk[icache[s].inum].type
         /\ icache[s].nlink = disk[icache[s].inum].nlink
         /\ icache[s].type # "none"

Locked(s, p) == icache[s].lock = p /\ icache[s].valid

CurLocked == {"ialloc", "newget", "newlock", "unlinkip", "unlinkbad", "linkfound"}
IpLocked == {"created", "unlinked"}

\* The inodes a process has locked, and what it knows of them
LockOk(p) ==
  /\ At(p) \in CurLocked => Locked(cur[p], p)
  /\ At(p) \in IpLocked => Locked(ip[p], p)
  /\ pc[p] \in Putting => At(p) \notin {"newget", "newlock"}
  /\ At(p) = "unlinkip" => Entry(cur[p], Last(call[p].path)) = Node(ip[p])
  /\ pc[p] = "putfree" =>
       LET s == Head(puts[p]) IN
       Locked(s, p) /\ icache[s].ref = 1 /\ icache[s].nlink = 0

LockInv == \A p \in Proc : LockOk(p)

\* The inode p has from ialloc() is its own until it has entered it.
FreshOk(p) ==
  LET i == inum[p] IN
  i # None =>
    /\ disk[i].type # "none" /\ disk[i].nlink = 0
    /\ disk[i].type = "dir" => call[p].op = "mkdir"
    /\ \A q \in Proc :
         /\ Node(cur[q]) # i
         /\ q # p => Node(ip[q]) # i /\ inum[q] # i
    /\ \A f \in File : Node(ftable[f].ip) # i
    /\ ip[p] # None => Node(ip[p]) = i
    /\ ip[p] = None =>
         \A s \in Slot : icache[s].ref > 0 /\ icache[s].valid => icache[s].inum # i

FreshInv == \A p \in Proc : FreshOk(p)

LInv == LinkInv /\ HeldInv /\ CacheInv /\ LockInv /\ FreshInv

-----------------------------------------------------------------------------
(* Steps in general.                                                       *)

\* What is held is in the cache.
HeldNodes ==
  /\ \A p \in Proc :
       /\ cur[p] # None => /\ cur[p] \in Slot /\ icache[cur[p]].ref > 0
                           /\ Node(cur[p]) = icache[cur[p]].inum
                           /\ Node(cur[p]) \in Inum
       /\ ip[p] # None => /\ ip[p] \in Slot /\ icache[ip[p]].ref > 0
                          /\ Node(ip[p]) = icache[ip[p]].inum
                          /\ Node(ip[p]) \in Inum
       /\ puts[p] # <<>> => /\ Head(puts[p]) \in Slot
                            /\ icache[Head(puts[p])].ref > 0
                            /\ icache[Head(puts[p])].inum \in Inum
  /\ \A f \in File : ftable[f].ip # None =>
       /\ ftable[f].ip \in Slot /\ icache[ftable[f].ip].ref > 0
       /\ Node(ftable[f].ip) = icache[ftable[f].ip].inum
       /\ Node(ftable[f].ip) \in Inum

LEMMA HeldNode == IInv => HeldNodes
<1>. SUFFICES ASSUME IInv PROVE HeldNodes
  OBVIOUS
<1>1. \A p \in Proc : cur[p] \in Slot \cup {None} /\ ip[p] \in Slot \cup {None}
  BY DEF IInv, Shape
<1>2. \A f \in File : ftable[f].ip \in Slot \cup {None}
  BY DEF IInv, Shape
<1>3. ASSUME NEW p \in Proc, puts[p] # <<>>
      PROVE  Head(puts[p]) \in Slot /\ Head(puts[p]) = PutAt(puts[p], 1)
  <2>1. puts[p] \in Seq(Slot)
    BY DEF IInv, Shape
  <2>. QED
    BY <1>3, <2>1 DEF PutAt
<1>. QED
  BY <1>1, <1>2, <1>3, HeldRef DEF IInv, UseInv, Node, HeldNodes

LEMMA HeldNodePrimed == IInv' => HeldNodes'
BY HeldNode, PTL

\* What p may hold after a step: what it held, the inode it has from ialloc(),
\* or one that has a link.
Seen(p, x) ==
  \/ x \in {None, Node(cur[p]), Node(ip[p]), inum[p]}
  \/ x \in Inum /\ disk'[x].type # "none" /\ disk[x].nlink > 0

\* What a step of p may do to the inode in slot s: nothing that others see
\* if one of them has it locked, and reading it only if p holds it.
NodeStep(p, s) ==
  LET x == icache[s]
      y == icache'[s]
  IN
  /\ x.ref > 0 => y.inum = x.inum
  /\ x.ref > 0 /\ x.lock \notin {None, p} =>
       y.valid = x.valid /\ y.type = x.type /\ y.nlink = x.nlink /\ y.lock = x.lock
  /\ y.ref > 0 /\ y.valid =>
       /\ y.type = disk'[y.inum].type /\ y.nlink = disk'[y.inum].nlink
       /\ y.type # "none"
       /\ (x.ref > 0 /\ x.valid) \/ y.inum \in {Node(cur[p]), Node(ip[p])}
  /\ \/ y.nlink = x.nlink
     \/ y.inum \in Inum /\ y.nlink = disk'[y.inum].nlink
  /\ \/ y.ref <= x.ref \/ disk[y.inum].nlink > 0
     \/ y.inum = inum[p] /\ ip[p] = None

\* Nothing names or holds inode i.
Unused(i) ==
  /\ i # ROOTINO
  /\ \A j \in Inum, n \in Name : disk[j].dir[n] # i
  /\ \A q \in Proc : Node(cur[q]) # i /\ Node(ip[q]) # i /\ inum[q] # i
  /\ \A f \in File : Node(ftable[f].ip) # i

\* What a step of p may do to inode i on the disk.
InodeStep(p, i) ==
  /\ disk[i].type # "none" => disk'[i].type = disk[i].type \/ Unused(i)
  /\ \/ i \in {Node(cur[p]), Node(ip[p])} \/ disk[i].type = "none" \/ Unused(i)
     \/ disk'[i].nlink = disk[i].nlink
  /\ \A s \in Slot : icache[s].ref > 0 /\ icache[s].inum = i /\ icache[s].valid
                       /\ icache[s].lock \notin {None, p} =>
       disk'[i].dir = disk[i].dir
  /\ \A n \in Name : disk'[i].dir[n] \in {None, disk[i].dir[n], inum[p], Node(ip[p])}

\* What a step of p may do besides, and what it has to see to for itself.
HolderStep(p) ==
  /\ Only(p)
  /\ Seen(p, Node(cur[p])') /\ Seen(p, Node(ip[p])')
  /\ \A f \in File : Node(ftable[f].ip)' = Node(ftable[f].ip) \/ Seen(p, Node(ftable[f].ip)')
  /\ inum'[p] \in {None, inum[p]} \/ disk[inum'[p]].type = "none"
  /\ ip'[p] # None /\ At(p)' \in Linking => disk'[Node(ip[p])'].type # "dir"
  /\ LockOk(p)' /\ FreshOk(p)'

LEMMA OthersNodes ==
  ASSUME IInv, NEW p \in Proc, Only(p),
         \A s \in Slot : icache[s].ref > 0 => icache'[s].inum = icache[s].inum,
         NEW q \in Proc, q # p
  PROVE  /\ Node(cur[q])' = Node(cur[q]) /\ Node(ip[q])' = Node(ip[q])
         /\ At(q)' = At(q) /\ Owes(q)' = Owes(q)
<1>1. cur'[q] = cur[q] /\ ip'[q] = ip[q] /\ pc'[q] = pc[q] /\ then'[q] = then[q]
  BY DEF Only
<1>2. /\ cur[q] # None => cur[q] \in Slot /\ icache[cur[q]].ref > 0
      /\ ip[q] # None => ip[q] \in Slot /\ icache[ip[q]].ref > 0
  BY HeldNode DEF HeldNodes
<1>3. Node(cur[q])' = Node(cur[q]) /\ Node(ip[q])' = Node(ip[q])
  BY <1>1, <1>2 DEF Node
<1>4. At(q)' = At(q)
  BY <1>1 DEF At
<1>. QED
  BY <1>3, <1>4 DEF Owes

LEMMA HeldKeeps ==
  ASSUME IInv, IInv', LInv, NEW p \in Proc, HolderStep(p), disk' \in DiskType,
         \A s \in Slot : NodeStep(p, s), \A i \in Inum : InodeStep(p, i)
  PROVE  HeldInv'
<1>1. Only(p) /\ \A s \in Slot : icache[s].ref > 0 => icache'[s].inum = icache[s].inum
  BY DEF HolderStep, NodeStep
<1>2. disk'[ROOTINO].type # "none"
  BY ConstantFacts DEF LInv, HeldInv, InodeStep, Unused
<1>3. ASSUME NEW x \in Inum, Seen(p, x)
      PROVE  disk'[x].type # "none"
  <2>1. x \in {Node(cur[p]), Node(ip[p]), inum[p]} => disk[x].type # "none" /\ ~Unused(x)
    BY ConstantFacts DEF LInv, HeldInv, FreshInv, FreshOk, Unused, Node
  <2>. QED
    BY <1>3, <2>1, ConstantFacts DEF Seen, InodeStep
<1>4. ASSUME NEW i \in Inum, NEW n \in Name, disk'[i].dir[n] # None
      PROVE  disk'[disk'[i].dir[n]].type # "none"
  <2>. DEFINE x == disk'[i].dir[n]
  <2>1. x \in Inum
    BY <1>4 DEF DiskType
  <2>2. x \in {disk[i].dir[n], inum[p], Node(ip[p])}
    BY <1>4 DEF InodeStep
  <2>3. CASE x = disk[i].dir[n]
    <3>1. disk[x].type # "none" /\ ~Unused(x)
      BY <1>4, <2>3 DEF LInv, HeldInv, Unused
    <3>. QED
      BY <2>1, <3>1 DEF InodeStep
  <2>4. CASE x \in {inum[p], Node(ip[p])}
    BY <1>3, <2>1, <2>4 DEF Seen
  <2>. QED
    BY <2>2, <2>3, <2>4
<1>5. ASSUME NEW f \in File, ftable'[f].ip # None
      PROVE  disk'[Node(ftable[f].ip)'].type # "none"
  <2>1. Node(ftable[f].ip)' \in Inum
    BY <1>5, HeldNodePrimed DEF HeldNodes
  <2>2. CASE Node(ftable[f].ip)' = Node(ftable[f].ip)
    <3>1. ftable[f].ip # None
      BY <2>1, <2>2, ConstantFacts DEF Node
    <3>2. disk[Node(ftable[f].ip)].type # "none" /\ ~Unused(Node(ftable[f].ip))
      BY <3>1 DEF LInv, HeldInv, Unused
    <3>. QED
      BY <2>1, <2>2, <3>2 DEF InodeStep
  <2>3. CASE Seen(p, Node(ftable[f].ip)')
    BY <1>3, <2>1, <2>3
  <2>. QED
    BY <2>2, <2>3 DEF HolderStep
<1>6. ASSUME NEW q \in Proc
      PROVE  /\ cur'[q] # None => disk'[Node(cur[q])'].type # "none"
             /\ ip'[q] # None => disk'[Node(ip[q])'].type # "none"
             /\ ip'[q] # None /\ At(q)' \in Linking => disk'[Node(ip[q])'].type # "dir"
  <2>1. /\ cur'[q] # None => Node(cur[q])' \in Inum
        /\ ip'[q] # None => Node(ip[q])' \in Inum
    BY HeldNodePrimed DEF HeldNodes
  <2>2. CASE q = p
    BY <1>3, <2>1, <2>2 DEF HolderStep
  <2>3. CASE q # p
    <3>1. /\ Node(cur[q])' = Node(cur[q]) /\ Node(ip[q])' = Node(ip[q])
          /\ At(q)' = At(q) /\ cur'[q] = cur[q] /\ ip'[q] = ip[q]
      BY <1>1, <2>3, OthersNodes DEF Only
    <3>2. /\ cur[q] # None => disk[Node(cur[q])].type # "none" /\ ~Unused(Node(cur[q]))
          /\ ip[q] # None => disk[Node(ip[q])].type # "none" /\ ~Unused(Node(ip[q]))
          /\ ip[q] # None /\ At(q) \in Linking => disk[Node(ip[q])].type # "dir"
      BY DEF LInv, HeldInv, Unused
    <3>. QED
      BY <2>1, <3>1, <3>2 DEF InodeStep
  <2>. QED
    BY <2>2, <2>3
<1>. QED
  BY <1>2, <1>4, <1>5, <1>6 DEF HeldInv

-----------------------------------------------------------------------------
(* Link counts, and what the parts of LInv owe to each other in a step.    *)

LEMMA BoundType ==
  ASSUME NEW d, NEW o, NEW i \in Inum
  PROVE  /\ Ind(i, ROOTINO) \in Nat
         /\ Names(d, i) \in Nat /\ Subdirs(d, i) \in Nat /\ Count(o, Proc, i) \in Nat
         /\ \A j \in Inum, n \in Name : d[j].dir[n] = i => Names(d, i) > 0
         /\ \A n \in Name : IsSubdir(d, i, n) => Subdirs(d, i) > 0
         /\ \A q \in Proc : o[q] = i => Count(o, Proc, i) > 0
         /\ Bound(d, o, i) \in Nat /\ Bound(d, o, ROOTINO) > 0
<1>1. IsFiniteSet(Inum \X Name) /\ IsFiniteSet(Name) /\ IsFiniteSet(Proc)
  BY ConstantFacts, FilesAssumption, FS_Product
<1>2. ASSUME NEW j \in Inum
      PROVE  /\ Ind(j, ROOTINO) \in Nat /\ Ind(ROOTINO, ROOTINO) = 1
             /\ Names(d, j) \in Nat /\ Subdirs(d, j) \in Nat /\ Count(o, Proc, j) \in Nat
  <2>1. IsFiniteSet({x \in Inum \X Name : d[x[1]].dir[x[2]] = j})
        /\ IsFiniteSet({n \in Name : IsSubdir(d, j, n)})
    BY <1>1, FS_Subset
  <2>. QED
    BY <1>1, <2>1, FS_CardinalityType, CountType DEF Names, Subdirs, Ind
<1>3. ASSUME NEW j \in Inum, NEW n \in Name, d[j].dir[n] = i
      PROVE  Names(d, i) > 0
  <2>. DEFINE S == {x \in Inum \X Name : d[x[1]].dir[x[2]] = i}
  <2>1. <<j, n>> \in S
    BY <1>3
  <2>2. IsFiniteSet(S)
    BY <1>1, FS_Subset
  <2>3. Cardinality(S) # 0
    BY <2>1, <2>2, FS_EmptySet
  <2>. QED
    BY <1>2, <2>3 DEF Names
<1>4. ASSUME NEW n \in Name, IsSubdir(d, i, n)
      PROVE  Subdirs(d, i) > 0
  <2>. DEFINE S == {m \in Name : IsSubdir(d, i, m)}
  <2>1. n \in S
    BY <1>4
  <2>2. IsFiniteSet(S)
    BY <1>1, FS_Subset
  <2>3. Cardinality(S) # 0
    BY <2>1, <2>2, FS_EmptySet
  <2>. QED
    BY <1>2, <2>3 DEF Subdirs
<1>5. \A q \in Proc : o[q] = i => Count(o, Proc, i) > 0
  BY <1>1, CountType
<1>. QED
  BY <1>2, <1>3, <1>4, <1>5, ConstantFacts DEF Bound

\* A link count is not negative; without links nothing names the inode.
LEMMA LinkFacts ==
  ASSUME LinkInv, disk \in DiskType, NEW i \in Inum
  PROVE  /\ disk[i].nlink \in Nat
         /\ disk[i].nlink = 0 =>
              /\ i # ROOTINO
              /\ \A j \in Inum, n \in Name : disk[j].dir[n] # i
              /\ \A n \in Name : ~IsSubdir(disk, i, n)
              /\ \A q \in Proc : Owes(q) # i
<1>1. disk[i].nlink \in Int /\ disk[i].nlink >= Bound(disk, Owed, i)
  BY DEF LinkInv, DiskType
<1>2. /\ Ind(i, ROOTINO) \in Nat
      /\ Names(disk, i) \in Nat /\ Subdirs(disk, i) \in Nat /\ Count(Owed, Proc, i) \in Nat
      /\ \A j \in Inum, n \in Name : disk[j].dir[n] = i => Names(disk, i) > 0
      /\ \A n \in Name : IsSubdir(disk, i, n) => Subdirs(disk, i) > 0
      /\ \A q \in Proc : Owed[q] = i => Count(Owed, Proc, i) > 0
  BY BoundType
<1>3. \A q \in Proc : Owed[q] = Owes(q)
  BY DEF Owed
<1>4. i = ROOTINO => Ind(i, ROOTINO) = 1
  BY DEF Ind
<1>. QED
  BY <1>1, <1>2, <1>3, <1>4 DEF Bound

LEMMA CacheKeeps ==
  ASSUME IInv, LInv, NEW p \in Proc, disk' \in DiskType,
         \A i \in Inum : disk'[i].nlink >= 0,
         \A s \in Slot : NodeStep(p, s)
  PROVE  CacheInv'
BY DEF LInv, CacheInv, NodeStep

LEMMA LockKeeps ==
  ASSUME IInv, IInv', LInv, NEW p \in Proc, HolderStep(p),
         \A s \in Slot : NodeStep(p, s), \A i \in Inum : InodeStep(p, i)
  PROVE  LockInv'
<1>1. Only(p) /\ \A s \in Slot : icache[s].ref > 0 => icache'[s].inum = icache[s].inum
  BY DEF HolderStep, NodeStep
<1>2. ASSUME NEW q \in Proc, q # p
      PROVE  LockOk(q)'
  <2>1. /\ Node(cur[q])' = Node(cur[q]) /\ Node(ip[q])' = Node(ip[q])
        /\ At(q)' = At(q) /\ cur'[q] = cur[q] /\ ip'[q] = ip[q] /\ pc'[q] = pc[q]
        /\ puts'[q] = puts[q] /\ call'[q] = call[q]
    BY <1>1, <1>2, OthersNodes DEF Only
  <2>2. ASSUME NEW s \in Slot, icache[s].ref > 0, Locked(s, q)
        PROVE  /\ Locked(s, q)' /\ icache'[s].nlink = icache[s].nlink
               /\ disk'[icache'[s].inum].dir = disk[icache[s].inum].dir
    <3>1. q \notin {None, p} /\ icache[s].inum \in Inum
      BY <1>2, <2>2, ConstantFacts DEF IInv, UseInv
    <3>. QED
      BY <2>2, <3>1 DEF NodeStep, InodeStep, Locked
  <2>3. At(q) \in CurLocked => cur[q] \in Slot /\ icache[cur[q]].ref > 0 /\ Locked(cur[q], q)
    BY HeldNode DEF HeldNodes, CurLocked, CurPoints, IInv, PcInv, PcOk, LInv, LockInv, LockOk
  <2>4. At(q) \in IpLocked => ip[q] \in Slot /\ icache[ip[q]].ref > 0 /\ Locked(ip[q], q)
    BY HeldNode DEF HeldNodes, IpLocked, IpPoints, IInv, PcInv, PcOk, LInv, LockInv, LockOk
  <2>5. ASSUME At(q) = "unlinkip"
        PROVE  Entry(cur[q], Last(call[q].path))' = Node(ip[q])'
    <3>1. disk'[icache'[cur[q]].inum].dir = disk[icache[cur[q]].inum].dir
      BY <2>2, <2>3, <2>5 DEF CurLocked
    <3>2. Entry(cur[q], Last(call[q].path)) = Node(ip[q])
      BY <2>5 DEF LInv, LockInv, LockOk
    <3>. QED
      BY <2>1, <3>1, <3>2 DEF Entry
  <2>6. ASSUME pc[q] = "putfree", NEW s, s = Head(puts[q])
        PROVE  Locked(s, q)' /\ icache'[s].ref = 1 /\ icache'[s].nlink = 0
    <3>1. puts[q] # <<>> /\ puts'[q] # <<>>
      BY <2>1, <2>6 DEF IInv, PcInv, PcOk, Putting
    <3>2. s \in Slot /\ icache[s].ref > 0 /\ icache[s].inum \in Inum /\ icache'[s].ref > 0
      BY <2>1, <2>6, <3>1, HeldNode, HeldNodePrimed DEF HeldNodes
    <3>3. Locked(s, q) /\ icache[s].ref = 1 /\ icache[s].nlink = 0
      BY <2>6 DEF LInv, LockInv, LockOk
    <3>4. Locked(s, q)' /\ icache'[s].nlink = 0 /\ icache'[s].inum = icache[s].inum
      BY <1>1, <2>2, <3>2, <3>3
    <3>5. disk[icache[s].inum].nlink = 0
      BY <3>2, <3>3 DEF LInv, CacheInv, Locked
    <3>6. ~(icache[s].inum = inum[p] /\ ip[p] = None)
      BY <3>2, <3>3, ConstantFacts DEF LInv, FreshInv, FreshOk, Locked
    <3>7. icache'[s].ref <= icache[s].ref
      BY <3>2, <3>4, <3>5, <3>6 DEF NodeStep
    <3>8. icache'[s].ref \in Int
      BY <3>2 DEF IInv, Shape, CacheType, NodeType
    <3>. QED
      BY <3>2, <3>3, <3>4, <3>7, <3>8
  <2>7. pc'[q] \in Putting => At(q)' \notin {"newget", "newlock"}
    BY <2>1 DEF LInv, LockInv, LockOk
  <2>. QED
    BY <2>1, <2>2, <2>3, <2>4, <2>5, <2>6, <2>7 DEF LockOk
<1>. QED
  BY <1>2 DEF LockInv, HolderStep

LEMMA FreshKeeps ==
  ASSUME IInv, IInv', LInv, NEW p \in Proc, HolderStep(p),
         \A s \in Slot : NodeStep(p, s), \A i \in Inum : InodeStep(p, i)
  PROVE  FreshInv'
<1>1. Only(p) /\ \A s \in Slot : icache[s].ref > 0 => icache'[s].inum = icache[s].inum
  BY DEF HolderStep, NodeStep
<1>2. ASSUME NEW q \in Proc, q # p, NEW i, i = inum[q], i # None
      PROVE  FreshOk(q)'
  <2>1. /\ Node(cur[q])' = Node(cur[q]) /\ Node(ip[q])' = Node(ip[q])
        /\ ip'[q] = ip[q] /\ inum'[q] = i /\ call'[q] = call[q]
    BY <1>1, <1>2, OthersNodes DEF Only
  <2>2. FreshOk(q) /\ i \in Inum
    BY <1>2 DEF LInv, FreshInv, IInv, Shape
  <2>3. disk'[i].type = disk[i].type /\ disk'[i].nlink = 0
    BY <1>2, <2>2 DEF InodeStep, FreshOk, Unused
  <2>4. \A x : Seen(p, x) => x # i
    BY <1>2, <2>2, ConstantFacts DEF Seen, FreshOk, Node
  <2>5. ASSUME NEW r \in Proc
        PROVE  /\ Node(cur[r])' # i
               /\ r # q => (Node(ip[r])' # i /\ inum'[r] # i)
    <3>1. CASE r = p
      BY <1>2, <2>2, <2>4, <3>1 DEF HolderStep, FreshOk
    <3>2. CASE r # p
      <4>1. /\ Node(cur[r])' = Node(cur[r]) /\ Node(ip[r])' = Node(ip[r])
            /\ inum'[r] = inum[r]
        BY <1>1, <3>2, OthersNodes DEF Only
      <4>. QED
        BY <1>2, <2>2, <4>1 DEF FreshOk
    <3>. QED
      BY <3>1, <3>2
  <2>6. \A f \in File : Node(ftable[f].ip)' # i
    BY <1>2, <2>2, <2>4 DEF HolderStep, FreshOk
  <2>7. ASSUME ip[q] = None, NEW s \in Slot, icache'[s].ref > 0, icache'[s].valid
        PROVE  icache'[s].inum # i
    <3>1. \/ icache[s].ref > 0 /\ icache[s].valid
          \/ icache'[s].inum \in {Node(cur[p]), Node(ip[p])}
      BY <2>7 DEF NodeStep
    <3>. QED
      BY <1>1, <1>2, <2>2, <2>7, <3>1 DEF FreshOk
  <2>. QED
    BY <1>2, <2>1, <2>2, <2>3, <2>5, <2>6, <2>7 DEF FreshOk
<1>3. ASSUME NEW q \in Proc, q # p
      PROVE  FreshOk(q)'
  <2>1. inum'[q] = inum[q]
    BY <1>1, <1>3 DEF Only
  <2>2. CASE inum[q] = None
    BY <2>1, <2>2 DEF FreshOk
  <2>. QED
    BY <1>2, <1>3, <2>2
<1>. QED
  BY <1>3 DEF FreshInv, HolderStep

LEMMA LInvKeeps ==
  ASSUME IInv, IInv', LInv, NEW p \in Proc, HolderStep(p), LinkInv',
         \A s \in Slot : NodeStep(p, s), \A i \in Inum : InodeStep(p, i)
  PROVE  LInv'
<1>1. disk' \in DiskType
  BY DEF IInv, Shape
<1>2. \A i \in Inum : disk'[i].nlink >= 0
  <2>. TAKE i \in Inum
  <2>1. Bound(disk', Owed', i) \in Nat
    BY BoundType
  <2>2. disk'[i].nlink >= Bound(disk', Owed', i) /\ disk'[i].nlink \in Int
    BY <1>1 DEF LinkInv, DiskType
  <2>. QED
    BY <2>1, <2>2
<1>. QED
  BY <1>1, <1>2, HeldKeeps, CacheKeeps, LockKeeps, FreshKeeps DEF LInv

\* What a step of p does to the calls that owe a link
LEMMA OwedStep ==
  ASSUME IInv, NEW p \in Proc, Only(p),
         \A s \in Slot : icache[s].ref > 0 => icache'[s].inum = icache[s].inum,
         NEW i \in Inum
  PROVE  /\ Count(Owed, Proc, i) \in Nat
         /\ Count(Owed', Proc, i) = Count(Owed, Proc, i) - Ind(Owes(p), i) + Ind(Owes(p)', i)
<1>1. \A q \in Proc : q # p => Owes(q)' = Owes(q)
  BY OthersNodes
<1>2. Moves(Owed, Owed', Proc, p, Owes(p)')
  BY <1>1 DEF Moves, Owed
<1>3. Owed[p] = Owes(p)
  BY DEF Owed
<1>. QED
  BY <1>2, <1>3, ConstantFacts, CountStep

\* A step that leaves the disk alone
LEMMA QuietKeeps ==
  ASSUME IInv, IInv', LInv, NEW p \in Proc, HolderStep(p), disk' = disk,
         \A s \in Slot : NodeStep(p, s), Owes(p)' \in {None, Owes(p)}
  PROVE  LInv'
<1>1. \A i \in Inum : InodeStep(p, i)
  BY DEF InodeStep
<1>2. LinkInv'
  <2>1. ASSUME NEW i \in Inum
        PROVE  disk'[i].nlink >= Bound(disk', Owed', i)
    <3>1. /\ Count(Owed, Proc, i) \in Nat
          /\ Count(Owed', Proc, i) = Count(Owed, Proc, i) - Ind(Owes(p), i) + Ind(Owes(p)', i)
      BY OwedStep DEF HolderStep, NodeStep
    <3>2. Ind(Owes(p)', i) <= Ind(Owes(p), i) /\ Ind(Owes(p)', i) \in Int /\ Ind(Owes(p), i) \in Int
      BY ConstantFacts DEF Ind
    <3>3. /\ Ind(i, ROOTINO) \in Nat /\ Names(disk, i) \in Nat /\ Subdirs(disk, i) \in Nat
      BY BoundType
    <3>4. disk[i].nlink >= Bound(disk, Owed, i) /\ disk[i].nlink \in Int
      BY DEF LInv, LinkInv, IInv, Shape, DiskType
    <3>. QED
      BY <3>1, <3>2, <3>3, <3>4 DEF Bound
  <2>. QED
    BY <2>1 DEF LinkInv
<1>. QED
  BY <1>1, <1>2, LInvKeeps

-----------------------------------------------------------------------------
(* The cache in a step of p.                                               *)

\* ilock() gives a slot in use what the disk has of its inode.
LEMMA LockedByHas ==
  ASSUME IInv, LInv, NEW s \in Slot, icache[s].ref > 0, NEW q \in Proc \cup {None}
  PROVE  /\ LockedBy(s, q) \in NodeType
         /\ LockedBy(s, q).valid = TRUE /\ LockedBy(s, q).lock = q
         /\ LockedBy(s, q).ref = icache[s].ref /\ LockedBy(s, q).inum = icache[s].inum
         /\ LockedBy(s, q).type = disk[icache[s].inum].type
         /\ LockedBy(s, q).nlink = disk[icache[s].inum].nlink
<1>. DEFINE m == icache[s]
            d == disk[m.inum]
<1>1. /\ m \in NodeType /\ d.type \in Type /\ d.nlink \in Int /\ m.inum \in Inum
      /\ m.valid => m.type = d.type /\ m.nlink = d.nlink
  BY DEF IInv, Shape, UseInv, CacheType, DiskType, LInv, CacheInv
<1>. HIDE DEF m, d
<1>. DEFINE l == Loaded(s)
<1>2. l = [inum |-> m.inum, ref |-> m.ref, valid |-> TRUE,
           type |-> d.type, nlink |-> d.nlink, lock |-> m.lock]
  <2>1. CASE m.valid
    BY <1>1, <2>1 DEF Loaded, m, NodeType
  <2>2. CASE ~m.valid
    <3>1. l = [m EXCEPT !.valid = TRUE, !.type = d.type, !.nlink = d.nlink]
      BY <2>2 DEF Loaded, m, d
    <3>. HIDE DEF l
    <3>. QED
      BY <1>1, <3>1 DEF NodeType
  <2>. QED
    BY <2>1, <2>2
<1>3. LockedBy(s, q) = [l EXCEPT !.lock = q]
  BY DEF LockedBy
<1>. HIDE DEF l
<1>4. LockedBy(s, q) = [inum |-> m.inum, ref |-> m.ref, valid |-> TRUE,
                        type |-> d.type, nlink |-> d.nlink, lock |-> q]
  BY <1>2, <1>3
<1>5. LockedBy(s, q) \in NodeType
  BY <1>1, <1>4 DEF NodeType
<1>. QED
  BY <1>4, <1>5 DEF m, d

\* The cache c is icache after p has locked, read, unlocked or dropped inodes:
\* it reads those it holds and unlocks its own.
Touch(p, c) ==
  \A s \in Slot :
    /\ c[s].inum = icache[s].inum /\ c[s].ref <= icache[s].ref
    /\ icache[s].lock \notin {None, p} => c[s].lock = icache[s].lock
    /\ \/ /\ c[s].valid = icache[s].valid
          /\ c[s].type = icache[s].type /\ c[s].nlink = icache[s].nlink
       \/ /\ s \in {cur[p], ip[p]} /\ icache[s].lock \in {None, p}
          /\ c[s].type = disk[icache[s].inum].type
          /\ c[s].nlink = disk[icache[s].inum].nlink

LEMMA TouchStep ==
  ASSUME IInv, LInv, NEW p \in Proc, Touch(p, icache'), icache' \in CacheType, disk' = disk,
         NEW s \in Slot
  PROVE  NodeStep(p, s)
<1>1. icache[s].ref \in Int /\ icache'[s].ref \in Int
  BY DEF IInv, Shape, CacheType, NodeType
<1>2. icache[s].ref > 0 => icache[s].inum \in Inum
  BY DEF IInv, UseInv
<1>3. s \in {cur[p], ip[p]} =>
        /\ icache[s].ref > 0 /\ icache[s].inum \in {Node(cur[p]), Node(ip[p])}
        /\ disk[icache[s].inum].type # "none"
  BY HeldNode, ConstantFacts DEF HeldNodes, LInv, HeldInv
<1>4. icache[s].ref > 0 /\ icache[s].valid =>
         /\ icache[s].type = disk[icache[s].inum].type
         /\ icache[s].nlink = disk[icache[s].inum].nlink
         /\ icache[s].type # "none"
  BY DEF LInv, CacheInv
<1>. QED
  BY <1>1, <1>2, <1>3, <1>4 DEF Touch, NodeStep

\* What iget() of inode i makes of a slot x
Fetched(x, n, i) ==
  \/ n = x
  \/ /\ n.ref = x.ref + 1 /\ n.inum = i
     /\ n.type = x.type /\ n.nlink = x.nlink /\ n.lock = x.lock
     /\ x.ref > 0 => n.valid = x.valid /\ x.inum = i
     /\ x.ref = 0 => n.valid = FALSE

LEMMA IgetNode ==
  ASSUME NEW c, CacheOk(c), NEW i \in Inum, NEW s \in Slot
  PROVE  Fetched(c[s], Iget(c, i)[s], i)
<1>. DEFINE t == SlotOf(c, i)
            m == c[s]
            N == IF m.ref > 0 THEN [m EXCEPT !.ref = @ + 1]
                 ELSE [m EXCEPT !.inum = i, !.ref = 1, !.valid = FALSE]
<1>1. t \in Slot /\ Got(c, Iget(c, i), i, t)
  BY IgetFacts
<1>2. m \in NodeType /\ m.ref \in Nat
  BY DEF CacheOk, CacheType
<1>3. CASE s # t
  BY <1>3 DEF Iget, CacheOk, CacheType, Fetched
<1>4. CASE s = t
  <2>1. Iget(c, i)[s] = N
    BY <1>4 DEF Iget, CacheOk, CacheType
  <2>2. m.ref > 0 => m.inum = i
    BY <1>1, <1>4 DEF Got
  <2>. HIDE DEF m
  <2>3. CASE m.ref > 0
    <3>1. N = [m EXCEPT !.ref = @ + 1]
      BY <2>3
    <3>. HIDE DEF N
    <3>2. Fetched(m, N, i)
      BY <1>2, <2>2, <2>3, <3>1 DEF NodeType, Fetched
    <3>. QED
      BY <2>1, <3>2 DEF m
  <2>4. CASE m.ref = 0
    <3>1. N = [m EXCEPT !.inum = i, !.ref = 1, !.valid = FALSE]
      BY <2>4
    <3>. HIDE DEF N
    <3>2. Fetched(m, N, i)
      BY <1>2, <2>4, <3>1 DEF NodeType, Fetched
    <3>. QED
      BY <2>1, <3>2 DEF m
  <2>. QED
    BY <1>2, <2>3, <2>4
<1>. QED
  BY <1>3, <1>4

LEMMA GetStep ==
  ASSUME IInv, LInv, NEW p \in Proc, NEW c \in CacheType, Touch(p, c), Steady(icache, c),
         NEW i \in Inum, disk[i].nlink > 0 \/ (i = inum[p] /\ ip[p] = None),
         icache' = Iget(c, i), disk' = disk, NEW s \in Slot
  PROVE  NodeStep(p, s)
<1>1. CacheOk(c)
  BY IInvCache, SteadyOk
<1>2. icache[s].ref \in Nat /\ c[s].ref = icache[s].ref
  BY IInvCache DEF CacheOk, Steady
<1>3. s \in {cur[p], ip[p]} =>
        /\ icache[s].ref > 0 /\ icache[s].inum \in {Node(cur[p]), Node(ip[p])}
        /\ disk[icache[s].inum].type # "none"
  BY HeldNode, ConstantFacts DEF HeldNodes, LInv, HeldInv
<1>4. icache[s].ref > 0 /\ icache[s].valid =>
         /\ icache[s].type = disk[icache[s].inum].type
         /\ icache[s].nlink = disk[icache[s].inum].nlink
         /\ icache[s].type # "none"
  BY DEF LInv, CacheInv
<1>5. icache[s].ref > 0 => icache[s].inum \in Inum
  BY DEF IInv, UseInv
<1>. DEFINE n == Iget(c, i)[s]
<1>6. Fetched(c[s], n, i)
  BY <1>1, IgetNode
<1>7. icache'[s] = n
  OBVIOUS
<1>. HIDE DEF n
<1>8. /\ c[s].inum = icache[s].inum
      /\ icache[s].lock \notin {None, p} => c[s].lock = icache[s].lock
      /\ \/ /\ c[s].valid = icache[s].valid
            /\ c[s].type = icache[s].type /\ c[s].nlink = icache[s].nlink
         \/ /\ s \in {cur[p], ip[p]} /\ icache[s].lock \in {None, p}
            /\ c[s].type = disk[icache[s].inum].type
            /\ c[s].nlink = disk[icache[s].inum].nlink
  BY DEF Touch
<1>9. CASE n = c[s]
  BY <1>2, <1>3, <1>4, <1>5, <1>7, <1>8, <1>9 DEF NodeStep
<1>10. CASE n # c[s]
  BY <1>2, <1>3, <1>4, <1>5, <1>6, <1>7, <1>8, <1>10 DEF NodeStep, Fetched
<1>. QED
  BY <1>9, <1>10

\* ilock() and iunlock() by p of an inode it holds
LEMMA LockedTouch ==
  ASSUME IInv, LInv, NEW p \in Proc, NEW s \in Slot, s \in {cur[p], ip[p]},
         icache[s].lock \in {None, p}, NEW q \in Proc \cup {None}
  PROVE  /\ Touch(p, SetTo(icache, s, LockedBy(s, q)))
         /\ SetTo(icache, s, LockedBy(s, q)) \in CacheType
         /\ Steady(icache, SetTo(icache, s, LockedBy(s, q)))
<1>1. icache[s].ref > 0 /\ icache[s].inum \in Inum
  BY HeldNode, ConstantFacts DEF HeldNodes
<1>2. \A x \in Slot : SetTo(icache, s, LockedBy(s, q))[x] =
                       IF x = s THEN LockedBy(s, q) ELSE icache[x]
  BY DEF SetTo, IInv, Shape, CacheType
<1>3. \A x \in Slot : icache[x].ref \in Int
  BY DEF IInv, Shape, CacheType, NodeType
<1>4. /\ LockedBy(s, q).lock = q /\ LockedBy(s, q).ref = icache[s].ref
      /\ LockedBy(s, q).inum = icache[s].inum
      /\ LockedBy(s, q).type = disk[icache[s].inum].type
      /\ LockedBy(s, q).nlink = disk[icache[s].inum].nlink
  BY <1>1, LockedByHas
<1>5. Touch(p, SetTo(icache, s, LockedBy(s, q)))
  BY <1>2, <1>3, <1>4 DEF Touch
<1>. QED
  BY <1>1, <1>5, LockedSteady

-----------------------------------------------------------------------------
(* The steps that leave the disk alone.                                    *)

\* p locks nothing after the step that it has to show to be locked.
Plain(p) ==
  /\ At(p)' \notin CurLocked \cup IpLocked
  /\ pc'[p] # "putfree"

LEMMA PlainLock == ASSUME NEW p \in Proc, Plain(p) PROVE LockOk(p)'
BY DEF Plain, LockOk, CurLocked

\* A file or a call that takes over an inode of p has one p may hold.
LEMMA MovedSeen ==
  ASSUME IInv, NEW p \in Proc, \A s \in Slot : NodeStep(p, s),
         NEW x, x \in {None, cur[p], ip[p]}
  PROVE  Seen(p, IF x = None THEN None ELSE icache'[x].inum)
<1>1. /\ cur[p] # None => /\ cur[p] \in Slot /\ icache[cur[p]].ref > 0
                          /\ Node(cur[p]) = icache[cur[p]].inum
      /\ ip[p] # None => /\ ip[p] \in Slot /\ icache[ip[p]].ref > 0
                         /\ Node(ip[p]) = icache[ip[p]].inum
  BY HeldNode DEF HeldNodes
<1>. QED
  BY <1>1 DEF NodeStep, Seen

\* Which links p owes after a step that leaves them as they are
SameOwes(p) ==
  \/ At(p)' \notin Linking \cup {"unlinked"}
  \/ ip'[p] = None
  \/ /\ ip'[p] = ip[p]
     /\ At(p)' \in Linking => At(p) \in Linking
     /\ At(p)' = "unlinked" => At(p) = "unlinked"

LEMMA QuietMoves ==
  ASSUME IInv, IInv', LInv, NEW p \in Proc, Only(p), disk' = disk,
         \A s \in Slot : NodeStep(p, s),
         cur'[p] \in {None, cur[p], ip[p]} \/ Seen(p, Node(cur[p])'),
         ip'[p] \in {None, cur[p], ip[p]} \/ Seen(p, Node(ip[p])'),
         \A f \in File : ftable'[f].ip \in {None, ftable[f].ip, cur[p], ip[p]},
         inum'[p] \in {None, inum[p]}, SameOwes(p), LockOk(p)',
         At(p)' \in {"newget", "newlock"} => FreshOk(p)'
  PROVE  LInv'
<1>1. \A s \in Slot : icache[s].ref > 0 => icache'[s].inum = icache[s].inum
  BY DEF NodeStep
<1>2. Seen(p, Node(cur[p])') /\ Seen(p, Node(ip[p])')
  BY MovedSeen DEF Node
<1>3. ASSUME NEW f \in File
      PROVE  Node(ftable[f].ip)' = Node(ftable[f].ip) \/ Seen(p, Node(ftable[f].ip)')
  <2>1. CASE ftable'[f].ip = ftable[f].ip
    BY <1>1, <2>1, HeldNode DEF HeldNodes, Node
  <2>2. CASE ftable'[f].ip \in {None, cur[p], ip[p]}
    BY <2>2, MovedSeen DEF Node
  <2>. QED
    BY <2>1, <2>2
<1>4. FreshOk(p)'
  <2>1. inum'[p] # None <=> At(p)' \in {"newget", "newlock"}
    BY DEF IInv, PcInv, PcOk
  <2>. QED
    BY <2>1 DEF FreshOk
<1>5. ip'[p] = ip[p] => Node(ip[p])' = Node(ip[p])
  BY <1>1, HeldNode DEF HeldNodes, Node
<1>6. ip'[p] # None /\ At(p)' \in Linking => disk'[Node(ip[p])'].type # "dir"
  BY <1>5 DEF SameOwes, LInv, HeldInv, Linking
<1>7. HolderStep(p)
  BY <1>2, <1>3, <1>4, <1>6 DEF HolderStep
<1>8. Owes(p)' \in {None, Owes(p)}
  <2>1. Owes(p)' = IF At(p)' \in Linking \cup {"unlinked"} THEN Node(ip[p])' ELSE None
    BY DEF Owes
  <2>2. CASE At(p)' \notin Linking \cup {"unlinked"}
    BY <2>1, <2>2
  <2>3. CASE ip'[p] = None
    BY <2>1, <2>3 DEF Node
  <2>4. CASE /\ At(p)' \in Linking \cup {"unlinked"} /\ ip'[p] = ip[p]
             /\ At(p)' \in Linking => At(p) \in Linking
             /\ At(p)' = "unlinked" => At(p) = "unlinked"
    BY <1>5, <2>1, <2>4 DEF Owes
  <2>. QED
    BY <2>2, <2>3, <2>4 DEF SameOwes
<1>. QED
  BY <1>7, <1>8, QuietKeeps

\* p puts cur[p] and goes on.
LEMMA HandsCurLinks ==
  ASSUME IInv, IInv', LInv, NEW p \in Proc, pc[p] \in CurPoints,
         NEW N \in {"idle", "linkbad"}, HandsCur(p, N),
         N = "linkbad" => pc[p] \in {"walk", "linkfound"},
         disk' = disk, Touch(p, icache')
  PROVE  LInv'
<1>1. /\ pc'[p] = "put" /\ then'[p] = N /\ cur'[p] = None /\ ip'[p] = ip[p]
      /\ inum'[p] = None /\ ftable' = ftable /\ Only(p)
  BY DEF HandsCur, Put, fileVars, IInv, Shape, Only
<1>2. At(p)' = N /\ At(p) = pc[p]
  BY <1>1 DEF At, Putting, CurPoints
<1>3. icache' \in CacheType
  BY DEF IInv, Shape
<1>4. Plain(p)
  BY <1>1, <1>2 DEF Plain, CurLocked, IpLocked
<1>5. SameOwes(p)
  <2>1. N = "idle" => At(p)' \notin Linking \cup {"unlinked"}
    BY <1>2 DEF Linking
  <2>. QED
    BY <1>1, <1>2, <2>1 DEF SameOwes, Linking
<1>. QED
  BY <1>1, <1>2, <1>3, <1>4, <1>5, PlainLock, TouchStep, QuietMoves

LEMMA WalkFailLinks ==
  ASSUME IInv, IInv', LInv, NEW p \in Proc, WalkFail(p)
  PROVE  LInv'
<1>1. pc[p] = "walk" /\ cur[p] \in Slot /\ icache[cur[p]].lock = None
  BY AtFacts DEF WalkFail, Putting, CurPoints, Unlocked
<1>2. Touch(p, icache')
  BY <1>1, LockedTouch DEF WalkFail, SetTo
<1>3. HandsCur(p, NotFound(p)) /\ disk' = disk /\ NotFound(p) \in {"idle", "linkbad"}
  <2>1. inum[p] = None
    BY <1>1 DEF IInv, PcInv, PcOk, At, Putting
  <2>2. inum = [inum EXCEPT ![p] = None]
    BY <2>1 DEF IInv, Shape
  <2>. QED
    BY <2>2 DEF WalkFail, HandsCur, NotFound
<1>. QED
  BY <1>1, <1>2, <1>3, HandsCurLinks DEF CurPoints

LEMMA UnlinkNoneLinks ==
  ASSUME IInv, IInv', LInv, NEW p \in Proc, UnlinkNone(p)
  PROVE  LInv'
<1>1. pc[p] = "unlink" /\ cur[p] \in Slot /\ icache[cur[p]].lock = None
  BY AtFacts DEF UnlinkNone, Putting, CurPoints, Unlocked
<1>2. Touch(p, icache')
  BY <1>1, LockedTouch DEF UnlinkNone, SetTo
<1>3. HandsCur(p, "idle") /\ disk' = disk
  <2>1. inum[p] = None
    BY <1>1 DEF IInv, PcInv, PcOk, At, Putting
  <2>2. inum = [inum EXCEPT ![p] = None]
    BY <2>1 DEF IInv, Shape
  <2>. QED
    BY <2>2 DEF UnlinkNone, HandsCur
<1>. QED
  BY <1>1, <1>2, <1>3, HandsCurLinks DEF CurPoints

\* A change of the lock alone, by p
LEMMA UnlockTouch ==
  ASSUME IInv, NEW p \in Proc, NEW s \in Slot, icache[s].lock \in {None, p},
         NEW q \in Proc \cup {None}
  PROVE  /\ Touch(p, SetTo(icache, s, [icache[s] EXCEPT !.lock = q]))
         /\ SetTo(icache, s, [icache[s] EXCEPT !.lock = q])[s].lock = q
         /\ SetTo(icache, s, [icache[s] EXCEPT !.lock = q])[s].valid = icache[s].valid
<1>. DEFINE m == icache[s]
            n == [m EXCEPT !.lock = q]
<1>1. m \in NodeType
  BY DEF IInv, Shape, CacheType
<1>2. \A x \in Slot : SetTo(icache, s, n)[x] = IF x = s THEN n ELSE icache[x]
  BY DEF SetTo, IInv, Shape, CacheType
<1>3. \A x \in Slot : icache[x].ref \in Int
  BY DEF IInv, Shape, CacheType, NodeType
<1>. HIDE DEF m
<1>4. /\ n.lock = q /\ n.ref = m.ref /\ n.inum = m.inum /\ n.valid = m.valid
      /\ n.type = m.type /\ n.nlink = m.nlink
  BY <1>1 DEF NodeType
<1>. HIDE DEF n
<1>5. Touch(p, SetTo(icache, s, n))
  BY <1>2, <1>3, <1>4 DEF Touch, m
<1>6. SetTo(icache, s, n)[s].lock = q /\ SetTo(icache, s, n)[s].valid = m.valid
  BY <1>2, <1>4
<1>. QED
  BY <1>5, <1>6 DEF n, m

LEMMA LinkRefuseLinks ==
  ASSUME IInv, IInv', LInv, NEW p \in Proc, LinkRefuse(p)
  PROVE  LInv'
<1>1. pc[p] = "linkold" /\ cur[p] \in Slot /\ icache[cur[p]].lock = None
  BY AtFacts DEF LinkRefuse, Putting, CurPoints, Unlocked
<1>2. Touch(p, icache')
  BY <1>1, LockedTouch DEF LinkRefuse, SetTo
<1>3. HandsCur(p, "idle") /\ disk' = disk
  <2>1. inum[p] = None
    BY <1>1 DEF IInv, PcInv, PcOk, At, Putting
  <2>2. inum = [inum EXCEPT ![p] = None]
    BY <2>1 DEF IInv, Shape
  <2>. QED
    BY <2>2 DEF LinkRefuse, HandsCur
<1>. QED
  BY <1>1, <1>2, <1>3, HandsCurLinks DEF CurPoints

LEMMA UnlinkBadLinks ==
  ASSUME IInv, IInv', LInv, NEW p \in Proc, UnlinkBad(p)
  PROVE  LInv'
<1>1. pc[p] = "unlinkbad" /\ cur[p] \in Slot /\ At(p) = "unlinkbad"
  BY AtFacts DEF UnlinkBad, Putting, CurPoints
<1>2. icache[cur[p]].lock = p
  BY <1>1 DEF LInv, LockInv, LockOk, Locked, CurLocked
<1>3. Touch(p, icache')
  <2>1. icache' = SetTo(icache, cur[p], [icache[cur[p]] EXCEPT !.lock = None])
    BY DEF UnlinkBad, SetTo
  <2>. QED
    BY <1>1, <1>2, <2>1, UnlockTouch
<1>4. HandsCur(p, "idle") /\ disk' = disk
  <2>1. inum[p] = None
    BY <1>1 DEF IInv, PcInv, PcOk
  <2>2. inum = [inum EXCEPT ![p] = None]
    BY <2>1 DEF IInv, Shape
  <2>. QED
    BY <2>2 DEF UnlinkBad, HandsCur
<1>. QED
  BY <1>1, <1>3, <1>4, HandsCurLinks DEF CurPoints

LEMMA LinkFoundLinks ==
  ASSUME IInv, IInv', LInv, NEW p \in Proc, LinkFound(p)
  PROVE  LInv'
<1>1. pc[p] = "linkfound" /\ cur[p] \in Slot /\ At(p) = "linkfound"
  BY AtFacts DEF LinkFound, Putting, CurPoints
<1>2. icache[cur[p]].lock = p
  BY <1>1 DEF LInv, LockInv, LockOk, Locked, CurLocked
<1>3. Touch(p, icache')
  <2>1. icache' = SetTo(icache, cur[p], [icache[cur[p]] EXCEPT !.lock = None])
    BY DEF LinkFound, SetTo
  <2>. QED
    BY <1>1, <1>2, <2>1, UnlockTouch
<1>4. HandsCur(p, "linkbad") /\ disk' = disk
  <2>1. inum[p] = None
    BY <1>1 DEF IInv, PcInv, PcOk
  <2>2. inum = [inum EXCEPT ![p] = None]
    BY <2>1 DEF IInv, Shape
  <2>. QED
    BY <2>2 DEF LinkFound, HandsCur
<1>. QED
  BY <1>1, <1>3, <1>4, HandsCurLinks DEF CurPoints

\* p goes on at N and keeps what it holds.
LEMMA GoToLinks ==
  ASSUME IInv, IInv', LInv, NEW p \in Proc, pc[p] \notin Putting, NEW N \in Point,
         N \notin {"newget", "newlock"} \cup Putting, GoTo(p, N),
         N \in Linking => pc[p] \in Linking, N = "unlinked" => pc[p] = "unlinked",
         UNCHANGED <<disk, fileVars, call, cur, ip, inum>>, rest' \in [Proc -> Seq(Name)],
         \A q \in Proc : q # p => rest'[q] = rest[q],
         Touch(p, icache'), LockOk(p)'
  PROVE  LInv'
<1>1. /\ pc'[p] = N /\ cur'[p] = cur[p] /\ ip'[p] = ip[p]
      /\ inum'[p] = inum[p] /\ ftable' = ftable /\ Only(p)
  BY DEF GoTo, putVars, fileVars, IInv, Shape, Only
<1>2. At(p)' = N /\ At(p) = pc[p]
  BY <1>1 DEF At
<1>3. icache' \in CacheType
  BY DEF IInv, Shape
<1>4. SameOwes(p)
  BY <1>1, <1>2 DEF SameOwes
<1>. QED
  BY <1>1, <1>2, <1>3, <1>4, TouchStep, QuietMoves

LEMMA WalkParentLinks ==
  ASSUME IInv, IInv', LInv, NEW p \in Proc, WalkParent(p)
  PROVE  LInv'
<1>1. pc[p] = "walk" /\ cur[p] \in Slot /\ icache[cur[p]].lock = None
  BY AtFacts DEF WalkParent, Putting, CurPoints, Unlocked
<1>2. Touch(p, icache')
  BY <1>1, LockedTouch DEF WalkParent, SetTo
<1>. DEFINE N == Found(p)
<1>3. N \in {"open", "create", "unlink", "linkold", "linknew"} /\ (N = "linkold" => FALSE)
  BY <1>1, FoundFacts DEF WalkParent
<1>4. GoTo(p, N) /\ UNCHANGED <<disk, fileVars, call, cur, ip, inum>>
  BY DEF WalkParent
<1>. HIDE DEF N
<1>5. LockOk(p)'
  <2>1. pc'[p] = N
    BY <1>4 DEF GoTo, IInv, Shape
  <2>2. Plain(p)
    BY <1>3, <2>1 DEF Plain, At, Putting, CurLocked, IpLocked
  <2>. QED
    BY <2>2, PlainLock
<1>6. /\ rest' \in [Proc -> Seq(Name)]
      /\ \A q \in Proc : q # p => rest'[q] = rest[q]
  BY DEF IInv, Shape, WalkParent
<1>. QED
  BY <1>1, <1>2, <1>3, <1>4, <1>5, <1>6, GoToLinks DEF Point, Putting, Linking

LEMMA TouchSelf == ASSUME IInv, NEW p \in Proc PROVE Touch(p, icache)
BY DEF Touch, IInv, Shape, CacheType, NodeType

LEMMA WalkRootLinks ==
  ASSUME IInv, IInv', LInv, NEW p \in Proc, WalkRoot(p)
  PROVE  LInv'
<1>1. pc[p] = "walk" /\ At(p) = "walk" /\ disk' = disk /\ Touch(p, icache')
  BY AtFacts, TouchSelf DEF WalkRoot, Putting, diskVars
<1>2. CASE WantsParent(p)
  <2>1. inum[p] = None
    BY <1>1 DEF IInv, PcInv, PcOk
  <2>2. HandsCur(p, NotFound(p)) /\ NotFound(p) \in {"idle", "linkbad"}
    BY <1>2, <2>1 DEF WalkRoot, HandsCur, NotFound, IInv, Shape
  <2>. QED
    BY <1>1, <2>2, HandsCurLinks DEF CurPoints
<1>3. CASE ~WantsParent(p)
  <2>. DEFINE N == Found(p)
  <2>1. N \in {"open", "linkold"}
    BY <1>1, <1>3, FoundFacts
  <2>2. GoTo(p, N) /\ UNCHANGED <<disk, icache, fileVars, call, rest, cur, ip, inum>>
    BY <1>3 DEF WalkRoot, diskVars
  <2>. HIDE DEF N
  <2>3. LockOk(p)'
    <3>1. pc'[p] = N
      BY <2>2 DEF GoTo, IInv, Shape
    <3>2. Plain(p)
      BY <2>1, <3>1 DEF Plain, At, Putting, CurLocked, IpLocked
    <3>. QED
      BY <3>2, PlainLock
  <2>. QED
    BY <1>1, <2>1, <2>2, <2>3, GoToLinks DEF Point, Putting, Linking, IInv, Shape
<1>. QED
  BY <1>2, <1>3

LEMMA CreateNewLinks ==
  ASSUME IInv, IInv', LInv, NEW p \in Proc, CreateNew(p)
  PROVE  LInv'
<1>1. pc[p] = "create" /\ cur[p] \in Slot /\ icache[cur[p]].lock = None
  BY AtFacts DEF CreateNew, Putting, CurPoints, Unlocked
<1>2. icache' = SetTo(icache, cur[p], LockedBy(cur[p], p))
  BY DEF CreateNew, SetTo
<1>3. Touch(p, icache')
  BY <1>1, <1>2, LockedTouch
<1>4. GoTo(p, "ialloc") /\ UNCHANGED <<disk, fileVars, call, rest, cur, ip, inum>>
  BY DEF CreateNew, walkVars
<1>5. LockOk(p)'
  <2>1. pc'[p] = "ialloc" /\ At(p)' = "ialloc"
    BY <1>4 DEF GoTo, At, Putting, IInv, Shape
  <2>2. icache'[cur[p]] = LockedBy(cur[p], p)
    BY <1>1, <1>2 DEF SetTo, IInv, Shape, CacheType
  <2>3. icache[cur[p]].ref > 0
    BY <1>1, HeldNode, ConstantFacts DEF HeldNodes
  <2>4. LockedBy(cur[p], p).lock = p /\ LockedBy(cur[p], p).valid
    BY <1>1, <2>3, LockedByHas
  <2>5. Locked(cur[p], p)'
    BY <1>4, <2>2, <2>4 DEF Locked
  <2>. QED
    BY <2>1, <2>5 DEF LockOk, IpLocked, Putting
<1>. QED
  BY <1>1, <1>3, <1>4, <1>5, GoToLinks DEF Point, Putting, Linking, IInv, Shape

\* A step of iput() in which p keeps its locks and its place in the call
LEMMA PuttingLinks ==
  ASSUME IInv, IInv', LInv, NEW p \in Proc, pc[p] \in Putting, Only(p), disk' = disk,
         Touch(p, icache'),
         \A s \in Slot : icache[s].lock = p =>
           icache'[s].lock = p /\ icache'[s].valid = icache[s].valid,
         UNCHANGED <<ftable, cur, ip, inum>>, At(p)' = At(p),
         At(p) # "idle" => call'[p] = call[p],
         (pc[p] = "putfree" =>
            LET s == Head(puts[p]) IN
            Locked(s, p) /\ icache[s].ref = 1 /\ icache[s].nlink = 0)'
  PROVE  LInv'
<1>1. icache' \in CacheType
  BY DEF IInv, Shape
<1>2. SameOwes(p)
  BY DEF SameOwes
<1>3. At(p) \notin {"newget", "newlock"}
  BY DEF LInv, LockInv, LockOk
<1>4. LockOk(p)'
  <2>1. At(p) \in CurLocked => cur[p] \in Slot /\ Locked(cur[p], p)
    BY HeldNode DEF HeldNodes, CurLocked, CurPoints, IInv, PcInv, PcOk, LInv, LockInv, LockOk
  <2>2. At(p) \in IpLocked => ip[p] \in Slot /\ Locked(ip[p], p)
    BY HeldNode DEF HeldNodes, IpLocked, IpPoints, IInv, PcInv, PcOk, LInv, LockInv, LockOk
  <2>3. ASSUME At(p) = "unlinkip"
        PROVE  (Entry(cur[p], Last(call[p].path)) = Node(ip[p]))'
    <3>1. Entry(cur[p], Last(call[p].path)) = Node(ip[p]) /\ call'[p] = call[p]
      BY <2>3 DEF LInv, LockInv, LockOk
    <3>2. cur[p] \in Slot
      BY <2>1, <2>3 DEF CurLocked
    <3>3. ip[p] = None \/ ip[p] \in Slot
      BY DEF IInv, Shape
    <3>. QED
      BY <3>1, <3>2, <3>3 DEF Entry, Node, Touch
  <2>4. At(p) \in CurLocked => Locked(cur[p], p)'
    BY <2>1 DEF Locked
  <2>5. At(p) \in IpLocked => Locked(ip[p], p)'
    BY <2>2 DEF Locked
  <2>. QED
    BY <1>3, <2>3, <2>4, <2>5 DEF LockOk
<1>. QED
  BY <1>1, <1>2, <1>3, <1>4, TouchStep, QuietMoves

LEMMA PutLockLinks ==
  ASSUME IInv, IInv', LInv, NEW p \in Proc, PutLock(p)
  PROVE  LInv'
<1>. DEFINE s == Head(puts[p])
            P == IF icache[s].valid /\ icache[s].nlink = 0 /\ icache[s].ref = 1
                 THEN "putfree" ELSE "putdrop"
            c == SetTo(icache, s, [icache[s] EXCEPT !.lock = p])
<1>1. pc[p] = "put" /\ s \in Slot /\ icache[s].lock = None
  BY PutFacts DEF PutLock, Putting, Unlocked
<1>2. /\ pc' = [pc EXCEPT ![p] = P]
      /\ UNCHANGED <<disk, fileVars, walkVars, ip, inum, putVars>>
      /\ P = "putfree" => icache' = c
      /\ P = "putdrop" => icache' = icache
      /\ P = "putfree" => icache[s].valid /\ icache[s].nlink = 0 /\ icache[s].ref = 1
  BY DEF PutLock, SetTo
<1>3. P \in {"putfree", "putdrop"}
  OBVIOUS
<1>4. /\ Touch(p, c) /\ c[s].lock = p /\ c[s].valid = icache[s].valid
      /\ c[s].ref = icache[s].ref /\ c[s].nlink = icache[s].nlink
      /\ \A x \in Slot : x # s => c[x] = icache[x]
  <2>1. Touch(p, c) /\ c[s].lock = p /\ c[s].valid = icache[s].valid
    BY <1>1, UnlockTouch
  <2>2. \A x \in Slot : c[x] = IF x = s THEN [icache[s] EXCEPT !.lock = p] ELSE icache[x]
    BY DEF SetTo, IInv, Shape, CacheType
  <2>3. icache[s] \in NodeType
    BY <1>1 DEF IInv, Shape, CacheType
  <2>. QED
    BY <1>1, <2>1, <2>2, <2>3 DEF NodeType
<1>. HIDE DEF P, c
<1>5. Touch(p, icache')
  <2>1. Touch(p, icache)
    BY DEF Touch, IInv, Shape, CacheType, NodeType
  <2>. QED
    BY <1>2, <1>3, <1>4, <2>1
<1>6. /\ pc'[p] = P /\ At(p)' = At(p) /\ pc[p] \in Putting /\ Only(p)
      /\ UNCHANGED <<disk, ftable, call, cur, ip, inum, puts>>
  BY <1>1, <1>2, <1>3 DEF IInv, Shape, At, Putting, Only, fileVars, walkVars, putVars
<1>7. \A x \in Slot : icache[x].lock = p =>
        icache'[x].lock = p /\ icache'[x].valid = icache[x].valid
  BY <1>1, <1>2, <1>3, <1>4, ConstantFacts
<1>8. P = "putfree" =>
        /\ icache'[s].lock = p /\ icache'[s].valid
        /\ icache'[s].ref = 1 /\ icache'[s].nlink = 0
  BY <1>2, <1>4
<1>9. (pc[p] = "putfree" =>
         LET x == Head(puts[p]) IN
         Locked(x, p) /\ icache[x].ref = 1 /\ icache[x].nlink = 0)'
  BY <1>6, <1>8 DEF Locked
<1>. QED
  BY <1>2, <1>5, <1>6, <1>7, <1>9, PuttingLinks

LEMMA DropLinks ==
  ASSUME IInv, IInv', LInv, NEW p \in Proc, pc[p] \in Putting, Drop(p)
  PROVE  LInv'
<1>. DEFINE s == Head(puts[p])
            q == Tail(puts[p])
            m == icache[s]
            n == [m EXCEPT !.ref = @ - 1]
<1>1. s \in Slot /\ then[p] \notin Putting
  BY PutFacts DEF IInv, PcInv, PcOk
<1>2. \A x \in Slot : icache'[x] = IF x = s THEN n ELSE icache[x]
  BY <1>1 DEF Drop, IInv, Shape, CacheType
<1>3. m \in NodeType /\ \A x \in Slot : icache[x].ref \in Int
  BY <1>1 DEF IInv, Shape, CacheType, NodeType
<1>. HIDE DEF m
<1>4. /\ n.lock = m.lock /\ n.ref = m.ref - 1 /\ n.inum = m.inum /\ n.valid = m.valid
      /\ n.type = m.type /\ n.nlink = m.nlink
  BY <1>3 DEF NodeType
<1>. HIDE DEF n
<1>5. Touch(p, icache')
  <2>1. m.ref - 1 <= m.ref
    BY <1>1, <1>3 DEF m
  <2>. QED
    BY <1>2, <1>3, <1>4, <2>1 DEF Touch, m
<1>6. \A x \in Slot : icache[x].lock = p =>
        icache'[x].lock = p /\ icache'[x].valid = icache[x].valid
  BY <1>2, <1>4 DEF m
<1>7. /\ pc'[p] = (IF q # <<>> THEN "put" ELSE then[p])
      /\ q # <<>> => then'[p] = then[p] /\ call'[p] = call[p]
      /\ then[p] # "idle" => call'[p] = call[p]
      /\ UNCHANGED <<disk, ftable, cur, ip, inum>>
  BY DEF Drop, IInv, Shape, fileVars
<1>8. Only(p)
  BY DEF Drop, IInv, Shape, Only
<1>9. At(p)' = At(p) /\ pc'[p] # "putfree" /\ At(p) = then[p]
  BY <1>1, <1>7 DEF At, Putting
<1>. QED
  BY <1>5, <1>6, <1>7, <1>8, <1>9, PuttingLinks

LEMMA UnlinkRefuseLinks ==
  ASSUME IInv, IInv', LInv, NEW p \in Proc, UnlinkRefuse(p)
  PROVE  LInv'
<1>1. /\ pc[p] = "unlinkip" /\ At(p) = "unlinkip" /\ ip[p] \in Slot /\ cur[p] \in Slot
      /\ icache[ip[p]].lock = None
  BY AtFacts DEF UnlinkRefuse, Putting, CurPoints, IpPoints, Unlocked
<1>2. Locked(cur[p], p)
  BY <1>1 DEF LInv, LockInv, LockOk, CurLocked
<1>3. icache' = SetTo(icache, ip[p], LockedBy(ip[p], None)) /\ disk' = disk
  BY DEF UnlinkRefuse, SetTo
<1>4. Touch(p, icache')
  BY <1>1, <1>3, LockedTouch
<1>5. /\ pc'[p] = "put" /\ then'[p] = "unlinkbad" /\ cur' = cur /\ ip'[p] = None
      /\ inum' = inum /\ ftable' = ftable /\ Only(p)
  BY DEF UnlinkRefuse, Put, fileVars, walkVars, IInv, Shape, Only
<1>6. At(p)' = "unlinkbad"
  BY <1>5 DEF At, Putting
<1>7. LockOk(p)'
  <2>1. cur[p] # ip[p]
    BY <1>1, <1>2, ConstantFacts DEF Locked
  <2>2. icache'[cur[p]] = icache[cur[p]]
    BY <1>1, <1>3, <2>1 DEF SetTo, IInv, Shape, CacheType
  <2>3. Locked(cur[p], p)'
    BY <1>2, <1>5, <2>2 DEF Locked
  <2>. QED
    BY <1>5, <1>6, <2>3 DEF LockOk, IpLocked, Putting
<1>8. SameOwes(p) /\ icache' \in CacheType
  BY <1>5 DEF SameOwes, IInv, Shape
<1>. QED
  BY <1>3, <1>4, <1>5, <1>6, <1>7, <1>8, TouchStep, QuietMoves

\* The call of p ends; what it held it puts, or a file has.
LEMMA EndLinks ==
  ASSUME IInv, IInv', LInv, NEW p \in Proc, Only(p), disk' = disk, Touch(p, icache'),
         pc'[p] = "idle" \/ (pc'[p] = "put" /\ then'[p] = "idle"),
         cur'[p] \in {None, cur[p]}, ip'[p] \in {None, ip[p]}, inum'[p] = inum[p],
         \A f \in File : ftable'[f].ip \in {None, ftable[f].ip, cur[p], ip[p]}
  PROVE  LInv'
<1>1. At(p)' = "idle" /\ pc'[p] # "putfree"
  BY DEF At, Putting
<1>2. LockOk(p)'
  BY <1>1, PlainLock DEF Plain, CurLocked, IpLocked
<1>3. SameOwes(p) /\ icache' \in CacheType
  BY <1>1 DEF SameOwes, Linking, IInv, Shape
<1>. QED
  BY <1>1, <1>2, <1>3, TouchStep, QuietMoves

LEMMA OpenFileEnds ==
  ASSUME IInv, NEW p \in Proc, NEW s \in Slot, pc[p] \notin Putting,
         OpenFile(p, s) \/ (Put(p, <<s>>, "idle") /\ UNCHANGED <<fileVars, call>>)
  PROVE  /\ pc'[p] = "idle" \/ (pc'[p] = "put" /\ then'[p] = "idle")
         /\ \A f \in File : ftable'[f].ip \in {ftable[f].ip, s}
         /\ \A r \in Proc : r # p =>
              /\ pc'[r] = pc[r] /\ then'[r] = then[r] /\ puts'[r] = puts[r]
              /\ call'[r] = call[r]
<1>1. CASE Put(p, <<s>>, "idle") /\ UNCHANGED <<fileVars, call>>
  BY <1>1 DEF Put, fileVars, IInv, Shape
<1>2. CASE MayOpen(p) /\ OpenFile(p, s)
  <2>. DEFINE f == First(FreeFiles)
              r == [ref |-> 1, ip |-> s]
  <2>1. /\ ftable' = [ftable EXCEPT ![f] = r] /\ call' = [call EXCEPT ![p] = None]
        /\ pc' = [pc EXCEPT ![p] = "idle"] /\ UNCHANGED <<puts, then>>
    BY <1>2 DEF OpenFile, GoTo, putVars
  <2>2. r.ip = s
    OBVIOUS
  <2>. HIDE DEF f, r
  <2>3. \A g \in File : ftable'[g].ip \in {ftable[g].ip, s}
    BY <2>1, <2>2 DEF IInv, Shape
  <2>. QED
    BY <2>1, <2>3 DEF IInv, Shape
<1>. QED
  BY <1>1, <1>2 DEF OpenFile

LEMMA OpenLinks ==
  ASSUME IInv, IInv', LInv, NEW p \in Proc, Open(p)
  PROVE  LInv'
<1>1. pc[p] = "open" /\ pc[p] \notin Putting /\ cur[p] \in Slot /\ icache[cur[p]].lock = None
  BY AtFacts DEF Open, Putting, CurPoints, Unlocked
<1>2. Touch(p, icache')
  BY <1>1, LockedTouch DEF Open, SetTo
<1>3. /\ OpenFile(p, cur[p]) \/ (Put(p, <<cur[p]>>, "idle") /\ UNCHANGED <<fileVars, call>>)
      /\ cur' = [cur EXCEPT ![p] = None] /\ UNCHANGED <<disk, rest, ip, inum>>
  BY DEF Open
<1>4. /\ pc'[p] = "idle" \/ (pc'[p] = "put" /\ then'[p] = "idle")
      /\ \A f \in File : ftable'[f].ip \in {ftable[f].ip, cur[p]}
      /\ \A r \in Proc : r # p =>
           /\ pc'[r] = pc[r] /\ then'[r] = then[r] /\ puts'[r] = puts[r]
           /\ call'[r] = call[r]
  BY <1>1, <1>3, OpenFileEnds
<1>5. Only(p) /\ cur'[p] = None
  BY <1>3, <1>4 DEF Only, IInv, Shape
<1>. QED
  BY <1>2, <1>3, <1>4, <1>5, EndLinks

LEMMA CreateOldLockLinks ==
  ASSUME IInv, IInv', LInv, NEW p \in Proc, CreateOldLock(p)
  PROVE  LInv'
<1>1. /\ pc[p] = "createold" /\ pc[p] \notin Putting /\ ip[p] \in Slot
      /\ icache[ip[p]].lock = None
  BY AtFacts DEF CreateOldLock, Putting, IpPoints, Unlocked
<1>2. Touch(p, icache')
  BY <1>1, LockedTouch DEF CreateOldLock, SetTo
<1>3. /\ OpenFile(p, ip[p]) \/ (Put(p, <<ip[p]>>, "idle") /\ UNCHANGED <<fileVars, call>>)
      /\ ip' = [ip EXCEPT ![p] = None] /\ UNCHANGED <<disk, rest, cur, inum>>
  BY DEF CreateOldLock
<1>4. /\ pc'[p] = "idle" \/ (pc'[p] = "put" /\ then'[p] = "idle")
      /\ \A f \in File : ftable'[f].ip \in {ftable[f].ip, ip[p]}
      /\ \A r \in Proc : r # p =>
           /\ pc'[r] = pc[r] /\ then'[r] = then[r] /\ puts'[r] = puts[r]
           /\ call'[r] = call[r]
  BY <1>1, <1>3, OpenFileEnds
<1>5. Only(p) /\ ip'[p] = None
  BY <1>3, <1>4 DEF Only, IInv, Shape
<1>. QED
  BY <1>2, <1>3, <1>4, <1>5, EndLinks

LEMMA CreatedLinks ==
  ASSUME IInv, IInv', LInv, NEW p \in Proc, Created(p)
  PROVE  LInv'
<1>1. pc[p] = "created" /\ pc[p] \notin Putting /\ ip[p] \in Slot /\ At(p) = "created"
  BY AtFacts DEF Created, Putting, IpPoints
<1>2. icache[ip[p]].lock = p
  BY <1>1 DEF LInv, LockInv, LockOk, Locked, IpLocked
<1>3. Touch(p, icache')
  <2>1. icache' = SetTo(icache, ip[p], [icache[ip[p]] EXCEPT !.lock = None])
    BY DEF Created, SetTo
  <2>. QED
    BY <1>1, <1>2, <2>1, UnlockTouch
<1>4. /\ OpenFile(p, ip[p]) \/ (Put(p, <<ip[p]>>, "idle") /\ UNCHANGED <<fileVars, call>>)
      /\ ip' = [ip EXCEPT ![p] = None] /\ UNCHANGED <<disk, rest, cur, inum>>
  BY DEF Created
<1>5. /\ pc'[p] = "idle" \/ (pc'[p] = "put" /\ then'[p] = "idle")
      /\ \A f \in File : ftable'[f].ip \in {ftable[f].ip, ip[p]}
      /\ \A r \in Proc : r # p =>
           /\ pc'[r] = pc[r] /\ then'[r] = then[r] /\ puts'[r] = puts[r]
           /\ call'[r] = call[r]
  BY <1>1, <1>4, OpenFileEnds
<1>6. Only(p) /\ ip'[p] = None
  BY <1>4, <1>5 DEF Only, IInv, Shape
<1>. QED
  BY <1>3, <1>4, <1>5, <1>6, EndLinks

LEMMA CloseLinks ==
  ASSUME IInv, IInv', LInv, NEW p \in Proc, NEW d \in Fd, Close(p, d)
  PROVE  LInv'
<1>. DEFINE f == ofile[p][d]
<1>1. f \in File /\ pc[p] = "idle"
  BY DEF Close, IInv, Shape
<1>2. UNCHANGED <<disk, icache, call, rest, cur, ip, inum>>
  BY DEF Close, diskVars, walkVars
<1>3. CASE ftable[f].ref > 1
  <2>. DEFINE m == ftable[f]
              n == [m EXCEPT !.ref = @ - 1]
  <2>1. ftable' = [ftable EXCEPT ![f] = n] /\ GoTo(p, "idle")
    BY <1>1, <1>3 DEF Close, IInv, Shape
  <2>2. m \in [ref : Int, ip : Slot \cup {None}]
    BY <1>1 DEF IInv, Shape
  <2>. HIDE DEF m
  <2>3. n.ip = m.ip
    BY <2>2
  <2>. HIDE DEF n
  <2>4. \A g \in File : ftable'[g].ip = ftable[g].ip
    BY <2>1, <2>3 DEF m, IInv, Shape
  <2>5. pc'[p] = "idle" /\ Only(p)
    BY <1>2, <2>1 DEF GoTo, putVars, Only, IInv, Shape
  <2>. QED
    BY <1>2, <2>4, <2>5, TouchSelf, EndLinks
<1>4. CASE ~(ftable[f].ref > 1)
  <2>. DEFINE n == [ref |-> 0, ip |-> None]
  <2>1. ftable' = [ftable EXCEPT ![f] = n] /\ Put(p, <<ftable[f].ip>>, "idle")
    BY <1>4 DEF Close
  <2>2. n.ip = None
    OBVIOUS
  <2>. HIDE DEF n
  <2>3. \A g \in File : ftable'[g].ip \in {None, ftable[g].ip}
    BY <2>1, <2>2 DEF IInv, Shape
  <2>4. pc'[p] = "put" /\ then'[p] = "idle" /\ Only(p)
    BY <1>2, <2>1 DEF Put, Only, IInv, Shape
  <2>. QED
    BY <1>2, <2>3, <2>4, TouchSelf, EndLinks
<1>. QED
  BY <1>3, <1>4

LEMMA ForkLinks ==
  ASSUME IInv, IInv', LInv, NEW p \in Proc, NEW q \in Proc, Fork(p, q)
  PROVE  LInv'
<1>1. UNCHANGED <<disk, icache, pc, call, rest, cur, ip, inum, puts, then>>
  BY DEF Fork, diskVars, walkVars, putVars
<1>2. Only(p) /\ pc'[p] = "idle"
  BY <1>1 DEF Only, Fork
<1>3. ASSUME NEW f \in File
      PROVE  ftable'[f].ip = ftable[f].ip
  <2>. DEFINE m == ftable[f]
              k == Cardinality({d \in Fd : ofile[p][d] = f})
  <2>1. ftable'[f] = [m EXCEPT !.ref = @ + k] /\ m \in [ref : Int, ip : Slot \cup {None}]
    BY DEF Fork, IInv, Shape
  <2>. HIDE DEF m, k
  <2>2. ftable'[f].ip = m.ip
    BY <2>1
  <2>. QED
    BY <2>2 DEF m
<1>. QED
  BY <1>1, <1>2, <1>3, TouchSelf, EndLinks

\* A name has its link, and so has the root.
LEMMA LinkedNodes ==
  ASSUME IInv, LInv
  PROVE  /\ \A i \in Inum, n \in Name : disk[i].dir[n] # None =>
              LET j == disk[i].dir[n] IN
              j \in Inum /\ disk[j].type # "none" /\ disk[j].nlink > 0
         /\ disk[ROOTINO].type # "none" /\ disk[ROOTINO].nlink > 0
<1>1. disk \in DiskType
  BY DEF IInv, Shape
<1>2. ASSUME NEW i \in Inum, NEW n \in Name, disk[i].dir[n] # None, NEW j, j = disk[i].dir[n]
      PROVE  j \in Inum /\ disk[j].type # "none" /\ disk[j].nlink > 0
  <2>1. j \in Inum
    BY <1>1, <1>2 DEF DiskType
  <2>2. disk[j].nlink \in Nat /\ disk[j].nlink # 0
    BY <1>1, <1>2, <2>1, LinkFacts DEF LInv
  <2>. QED
    BY <1>2, <2>1, <2>2 DEF LInv, HeldInv
<1>3. disk[ROOTINO].nlink \in Nat /\ disk[ROOTINO].nlink # 0
  BY <1>1, ConstantFacts, LinkFacts DEF LInv
<1>. QED
  BY <1>2, <1>3 DEF LInv, HeldInv

\* iget() of inode i by p, in a cache c in which it has locked what it holds
LEMMA GetFacts ==
  ASSUME IInv, IInv', LInv, NEW p \in Proc, NEW c \in CacheType, Touch(p, c), Steady(icache, c),
         NEW i \in Inum, disk[i].type # "none" /\ disk[i].nlink > 0,
         icache' = Iget(c, i), disk' = disk
  PROVE  /\ \A s \in Slot : NodeStep(p, s)
         /\ icache'[SlotOf(c, i)].inum = i /\ SlotOf(c, i) \in Slot
         /\ Seen(p, i)
         /\ \A s \in Slot : c[s].ref > 0 =>
              icache'[s].lock = c[s].lock /\ icache'[s].valid = c[s].valid
<1>1. \A s \in Slot : NodeStep(p, s)
  BY GetStep
<1>2. icache'[SlotOf(c, i)].inum = i /\ SlotOf(c, i) \in Slot
  BY IgetOn DEF Got
<1>3. Seen(p, i)
  BY DEF Seen
<1>4. ASSUME NEW s \in Slot, c[s].ref > 0
      PROVE  icache'[s].lock = c[s].lock /\ icache'[s].valid = c[s].valid
  <2>1. CacheOk(c)
    BY IInvCache, SteadyOk
  <2>2. Fetched(c[s], icache'[s], i)
    BY <2>1, IgetNode
  <2>. QED
    BY <1>4, <2>2 DEF Fetched
<1>. QED
  BY <1>1, <1>2, <1>3, <1>4

LEMMA BeginLinks ==
  ASSUME IInv, IInv', LInv, NEW p \in Proc, NEW k \in Call, Begin(p, k)
  PROVE  LInv'
<1>. DEFINE t == SlotOf(icache, ROOTINO)
<1>1. /\ icache' = Iget(icache, ROOTINO) /\ pc' = [pc EXCEPT ![p] = "walk"]
      /\ cur' = [cur EXCEPT ![p] = t] /\ call' = [call EXCEPT ![p] = k]
      /\ rest' = [rest EXCEPT ![p] = k.path]
      /\ UNCHANGED <<disk, ftable, ip, inum, puts, then>>
  BY DEF Begin, GoTo, putVars, fileVars
<1>2. /\ \A s \in Slot : NodeStep(p, s)
      /\ icache'[t].inum = ROOTINO /\ t \in Slot /\ Seen(p, ROOTINO)
  BY <1>1, TouchSelf, SteadySelf, LinkedNodes, ConstantFacts, GetFacts
<1>. HIDE DEF t
<1>3. /\ pc'[p] = "walk" /\ At(p)' = "walk" /\ cur'[p] = t /\ ip'[p] = ip[p] /\ Only(p)
      /\ inum'[p] = inum[p]
  BY <1>1 DEF At, Putting, Only, IInv, Shape
<1>4. Seen(p, Node(cur[p])')
  BY <1>2, <1>3, ConstantFacts DEF Node
<1>5. ip[p] = None
  BY AtFacts DEF Begin, Putting, IpPoints
<1>6. SameOwes(p) /\ LockOk(p)'
  BY <1>3, <1>5, PlainLock DEF SameOwes, Plain, CurLocked, IpLocked
<1>. QED
  BY <1>1, <1>2, <1>3, <1>4, <1>6, QuietMoves

LEMMA WalkDownLinks ==
  ASSUME IInv, IInv', LInv, NEW p \in Proc, WalkDown(p)
  PROVE  LInv'
<1>. DEFINE s == cur[p]
            i == Entry(s, rest[p][1])
            c == SetTo(icache, s, LockedBy(s, None))
            t == SlotOf(c, i)
            N == IF Len(rest[p]) = 1 THEN Found(p) ELSE "walk"
<1>1. pc[p] = "walk" /\ s \in Slot /\ icache[s].inum \in Inum /\ icache[s].lock = None
      /\ At(p) = "walk"
  BY AtFacts DEF WalkDown, Putting, CurPoints, Unlocked
<1>2. rest[p][1] \in Name
  <2>. DEFINE r == rest[p]
  <2>1. r \in Seq(Name) /\ r # <<>>
    BY DEF WalkDown, IInv, Shape
  <2>. HIDE DEF r
  <2>2. r[1] \in Name
    BY <2>1
  <2>. QED
    BY <2>2 DEF r
<1>3. /\ icache' = Iget(c, i) /\ cur' = [cur EXCEPT ![p] = t]
      /\ Put(p, <<s>>, N) /\ rest' = [rest EXCEPT ![p] = Tail(@)] /\ i # None
      /\ UNCHANGED <<disk, ftable, call, ip, inum>>
  BY DEF WalkDown, SetTo, fileVars
<1>4. i \in Inum /\ disk[i].type # "none" /\ disk[i].nlink > 0
  BY <1>1, <1>2, <1>3, LinkedNodes DEF Entry
<1>5. Touch(p, c) /\ c \in CacheType /\ Steady(icache, c)
  BY <1>1, LockedTouch
<1>6. N \in {"open", "create", "unlink", "linkold", "linknew", "walk"}
  BY <1>1, FoundFacts
<1>. HIDE DEF i, c, N
<1>7. /\ \A x \in Slot : NodeStep(p, x)
      /\ icache'[t].inum = i /\ t \in Slot /\ Seen(p, i)
  BY <1>3, <1>4, <1>5, GetFacts
<1>. HIDE DEF t
<1>8. /\ pc'[p] = "put" /\ then'[p] = N /\ cur'[p] = t /\ ip'[p] = ip[p] /\ Only(p)
      /\ inum'[p] = inum[p]
  BY <1>3 DEF Put, Only, IInv, Shape
<1>9. At(p)' = N
  BY <1>8 DEF At, Putting
<1>10. Seen(p, Node(cur[p])')
  BY <1>7, <1>8, ConstantFacts DEF Node
<1>11. SameOwes(p) /\ LockOk(p)'
  BY <1>1, <1>6, <1>8, <1>9, PlainLock DEF SameOwes, Plain, CurLocked, IpLocked, Linking
<1>. QED
  BY <1>3, <1>6, <1>7, <1>8, <1>9, <1>10, <1>11, QuietMoves

LEMMA CreateOldLinks ==
  ASSUME IInv, IInv', LInv, NEW p \in Proc, CreateOld(p)
  PROVE  LInv'
<1>. DEFINE s == cur[p]
            i == Entry(s, Last(call[p].path))
            c == SetTo(icache, s, LockedBy(s, None))
            t == SlotOf(c, i)
<1>1. pc[p] = "create" /\ s \in Slot /\ icache[s].inum \in Inum /\ icache[s].lock = None
      /\ Last(call[p].path) \in Name
  BY AtFacts, LooksUp DEF CreateOld, Putting, CurPoints, Unlocked
<1>2. /\ icache' = Iget(c, i) /\ ip' = [ip EXCEPT ![p] = t] /\ cur' = [cur EXCEPT ![p] = None]
      /\ Put(p, <<s>>, "createold") /\ i # None
      /\ UNCHANGED <<disk, ftable, call, rest, inum>>
  BY DEF CreateOld, SetTo, fileVars
<1>3. i \in Inum /\ disk[i].type # "none" /\ disk[i].nlink > 0
  BY <1>1, <1>2, LinkedNodes DEF Entry
<1>4. Touch(p, c) /\ c \in CacheType /\ Steady(icache, c)
  BY <1>1, LockedTouch
<1>. HIDE DEF i, c
<1>5. /\ \A x \in Slot : NodeStep(p, x)
      /\ icache'[t].inum = i /\ t \in Slot /\ Seen(p, i)
  BY <1>2, <1>3, <1>4, GetFacts
<1>. HIDE DEF t
<1>6. /\ pc'[p] = "put" /\ then'[p] = "createold" /\ ip'[p] = t /\ cur'[p] = None /\ Only(p)
      /\ inum'[p] = inum[p]
  BY <1>2 DEF Put, Only, IInv, Shape
<1>7. At(p)' = "createold"
  BY <1>6 DEF At, Putting
<1>8. Seen(p, Node(ip[p])')
  BY <1>5, <1>6, ConstantFacts DEF Node
<1>9. SameOwes(p) /\ LockOk(p)'
  BY <1>6, <1>7, PlainLock DEF SameOwes, Plain, CurLocked, IpLocked, Linking
<1>. QED
  BY <1>2, <1>5, <1>6, <1>7, <1>8, <1>9, QuietMoves

LEMMA UnlinkFoundLinks ==
  ASSUME IInv, IInv', LInv, NEW p \in Proc, UnlinkFound(p)
  PROVE  LInv'
<1>. DEFINE s == cur[p]
            n == Last(call[p].path)
            i == Entry(s, n)
            c == SetTo(icache, s, LockedBy(s, p))
            t == SlotOf(c, i)
<1>1. pc[p] = "unlink" /\ s \in Slot /\ icache[s].inum \in Inum /\ icache[s].lock = None
      /\ n \in Name
  BY AtFacts, LooksUp DEF UnlinkFound, Putting, CurPoints, Unlocked
<1>2. /\ icache' = Iget(c, i) /\ ip' = [ip EXCEPT ![p] = t] /\ i # None
      /\ GoTo(p, "unlinkip") /\ UNCHANGED <<disk, ftable, call, rest, cur, inum>>
  BY DEF UnlinkFound, SetTo, fileVars, walkVars
<1>3. /\ i \in Inum /\ disk[i].type # "none" /\ disk[i].nlink > 0
      /\ i = disk[icache[s].inum].dir[n]
  BY <1>1, <1>2, LinkedNodes DEF Entry
<1>4. Touch(p, c) /\ c \in CacheType /\ Steady(icache, c)
  BY <1>1, LockedTouch
<1>5. c[s].lock = p /\ c[s].valid /\ c[s].ref > 0
  <2>1. icache[s].ref > 0
    BY <1>1, HeldNode, ConstantFacts DEF HeldNodes
  <2>2. c[s] = LockedBy(s, p)
    BY <1>1 DEF SetTo, IInv, Shape, CacheType
  <2>3. /\ LockedBy(s, p).lock = p /\ LockedBy(s, p).valid
        /\ LockedBy(s, p).ref = icache[s].ref
    BY <1>1, <2>1, LockedByHas
  <2>. QED
    BY <2>1, <2>2, <2>3
<1>. HIDE DEF i, c
<1>6. /\ \A x \in Slot : NodeStep(p, x)
      /\ icache'[t].inum = i /\ t \in Slot /\ Seen(p, i)
      /\ icache'[s].lock = p /\ icache'[s].valid
  <2>1. /\ \A x \in Slot : NodeStep(p, x)
        /\ icache'[t].inum = i /\ t \in Slot /\ Seen(p, i)
        /\ \A x \in Slot : c[x].ref > 0 =>
             icache'[x].lock = c[x].lock /\ icache'[x].valid = c[x].valid
    BY <1>2, <1>3, <1>4, GetFacts
  <2>. QED
    BY <1>1, <1>5, <2>1
<1>. HIDE DEF t
<1>7. /\ pc'[p] = "unlinkip" /\ ip'[p] = t /\ cur'[p] = s /\ Only(p)
      /\ inum'[p] = inum[p] /\ call'[p] = call[p]
  BY <1>2 DEF GoTo, putVars, Only, IInv, Shape
<1>8. At(p)' = "unlinkip"
  BY <1>7 DEF At, Putting
<1>9. Node(ip[p])' = i
  BY <1>6, <1>7, ConstantFacts DEF Node
<1>10. SameOwes(p)
  BY <1>8 DEF SameOwes, Linking
<1>11. LockOk(p)'
  <2>1. icache'[s].inum = icache[s].inum
    <3>1. icache[s].ref > 0
      BY <1>1, HeldNode, ConstantFacts DEF HeldNodes
    <3>. QED
      BY <1>1, <1>6, <3>1 DEF NodeStep
  <2>2. Entry(cur[p], Last(call[p].path))' = i
    BY <1>2, <1>3, <1>7, <2>1 DEF Entry
  <2>3. Locked(cur[p], p)'
    BY <1>6, <1>7 DEF Locked
  <2>. QED
    BY <1>7, <1>8, <1>9, <2>2, <2>3 DEF LockOk, IpLocked
<1>. QED
  BY <1>2, <1>6, <1>7, <1>8, <1>9, <1>10, <1>11, QuietMoves

LEMMA LinkExistsLinks ==
  ASSUME IInv, IInv', LInv, NEW p \in Proc, LinkExists(p)
  PROVE  LInv'
<1>. DEFINE s == cur[p]
            n == Last(call[p].new)
            i == Entry(s, n)
            c == SetTo(icache, s, LockedBy(s, p))
            t == SlotOf(c, i)
<1>1. pc[p] = "linknew" /\ s \in Slot /\ icache[s].inum \in Inum /\ icache[s].lock = None
      /\ n \in Name /\ At(p) = "linknew"
  BY AtFacts, LooksUp DEF LinkExists, Putting, CurPoints, Unlocked
<1>2. /\ icache' = Iget(c, i) /\ i # None
      /\ Put(p, <<t>>, "linkfound") /\ UNCHANGED <<disk, ftable, call, rest, cur, ip, inum>>
  BY DEF LinkExists, SetTo, fileVars, walkVars
<1>3. i \in Inum /\ disk[i].type # "none" /\ disk[i].nlink > 0
  BY <1>1, <1>2, LinkedNodes DEF Entry
<1>4. Touch(p, c) /\ c \in CacheType /\ Steady(icache, c)
  BY <1>1, LockedTouch
<1>5. c[s].lock = p /\ c[s].valid /\ c[s].ref > 0
  <2>1. icache[s].ref > 0
    BY <1>1, HeldNode, ConstantFacts DEF HeldNodes
  <2>2. c[s] = LockedBy(s, p)
    BY <1>1 DEF SetTo, IInv, Shape, CacheType
  <2>3. /\ LockedBy(s, p).lock = p /\ LockedBy(s, p).valid
        /\ LockedBy(s, p).ref = icache[s].ref
    BY <1>1, <2>1, LockedByHas
  <2>. QED
    BY <2>1, <2>2, <2>3
<1>. HIDE DEF i, c
<1>6. /\ \A x \in Slot : NodeStep(p, x)
      /\ icache'[s].lock = p /\ icache'[s].valid
  BY <1>1, <1>2, <1>3, <1>4, <1>5, GetFacts
<1>. HIDE DEF t
<1>7. /\ pc'[p] = "put" /\ then'[p] = "linkfound" /\ ip'[p] = ip[p] /\ cur'[p] = s /\ Only(p)
      /\ inum'[p] = inum[p] /\ call'[p] = call[p]
  BY <1>2 DEF Put, Only, IInv, Shape
<1>8. At(p)' = "linkfound"
  BY <1>7 DEF At, Putting
<1>9. SameOwes(p)
  BY <1>1, <1>7, <1>8 DEF SameOwes, Linking
<1>10. LockOk(p)'
  <2>1. Locked(cur[p], p)'
    BY <1>6, <1>7 DEF Locked
  <2>. QED
    BY <1>7, <1>8, <2>1 DEF LockOk, IpLocked
<1>. QED
  BY <1>2, <1>6, <1>7, <1>8, <1>9, <1>10, QuietMoves

LEMMA NewGetLinks ==
  ASSUME IInv, IInv', LInv, NEW p \in Proc, NewGet(p)
  PROVE  LInv'
<1>. DEFINE i == inum[p]
            t == SlotOf(icache, i)
<1>1. /\ pc[p] = "newget" /\ cur[p] \in Slot /\ ip[p] = None /\ i \in Inum /\ At(p) = "newget"
      /\ Locked(cur[p], p) /\ FreshOk(p)
  <2>1. pc[p] = "newget" /\ cur[p] \in Slot /\ ip[p] = None /\ At(p) = "newget"
    BY AtFacts DEF NewGet, Putting, CurPoints, IpPoints
  <2>2. i \in Inum
    BY <2>1 DEF IInv, PcInv, PcOk, Shape
  <2>. QED
    BY <2>1, <2>2 DEF LInv, LockInv, LockOk, CurLocked, FreshInv
<1>2. /\ icache' = Iget(icache, i) /\ ip' = [ip EXCEPT ![p] = t]
      /\ GoTo(p, "newlock") /\ UNCHANGED <<disk, ftable, call, rest, cur, inum>>
  BY DEF NewGet, fileVars, walkVars
<1>3. \A x \in Slot : NodeStep(p, x)
  BY <1>1, <1>2, TouchSelf, SteadySelf, GetStep
<1>4. icache'[t].inum = i /\ t \in Slot
  BY <1>1, <1>2, SteadySelf, IgetOn DEF Got
<1>5. icache'[cur[p]].lock = p /\ icache'[cur[p]].valid
  <2>1. icache[cur[p]].ref > 0
    BY <1>1, HeldNode, ConstantFacts DEF HeldNodes
  <2>2. Fetched(icache[cur[p]], icache'[cur[p]], i)
    BY <1>1, <1>2, IInvCache, IgetNode
  <2>. QED
    BY <1>1, <2>1, <2>2 DEF Fetched, Locked
<1>. HIDE DEF t
<1>6. /\ pc'[p] = "newlock" /\ ip'[p] = t /\ cur'[p] = cur[p] /\ Only(p)
      /\ inum'[p] = i /\ call'[p] = call[p]
  BY <1>2 DEF GoTo, putVars, Only, IInv, Shape
<1>7. At(p)' = "newlock"
  BY <1>6 DEF At, Putting
<1>8. Node(ip[p])' = i
  BY <1>4, <1>6, ConstantFacts DEF Node
<1>9. SameOwes(p)
  BY <1>7 DEF SameOwes, Linking
<1>10. LockOk(p)'
  <2>1. Locked(cur[p], p)'
    BY <1>5, <1>6 DEF Locked
  <2>. QED
    BY <1>6, <1>7, <2>1 DEF LockOk, IpLocked, Putting
<1>11. FreshOk(p)'
  <2>1. \A s \in Slot : icache[s].ref > 0 => icache'[s].inum = icache[s].inum
    BY <1>3 DEF NodeStep
  <2>2. ASSUME NEW q \in Proc
        PROVE  Node(cur[q])' # i /\ (q # p => Node(ip[q])' # i /\ inum'[q] # i)
    <3>1. Node(cur[q])' = Node(cur[q])
      BY <1>2, <2>1, HeldNode DEF HeldNodes, Node
    <3>2. q # p => Node(ip[q])' = Node(ip[q]) /\ inum'[q] = inum[q]
      BY <1>6, <2>1, OthersNodes DEF Only
    <3>3. Node(cur[q]) # i /\ (q # p => Node(ip[q]) # i /\ inum[q] # i)
      BY <1>1, ConstantFacts DEF FreshOk
    <3>. QED
      BY <3>1, <3>2, <3>3
  <2>3. \A f \in File : Node(ftable[f].ip)' = Node(ftable[f].ip)
    BY <1>2, <2>1, HeldNode DEF HeldNodes, Node
  <2>4. ip'[p] # None
    BY <1>4, <1>6, ConstantFacts
  <2>. QED
    BY <1>1, <1>2, <1>6, <1>8, <2>2, <2>3, <2>4 DEF FreshOk
<1>. QED
  BY <1>2, <1>3, <1>6, <1>7, <1>8, <1>9, <1>10, <1>11, QuietMoves DEF Seen

-----------------------------------------------------------------------------
(* Counting links.                                                         *)

\* One if an entry v of a directory is a subdirectory
Sub(d, v) == IF v # None /\ d[v].type = "dir" THEN 1 ELSE 0

\* e is d but for the entry n of inode j, which is v there.
Enters(d, e, j, n, v) ==
  /\ \A k \in Inum : e[k].type = d[k].type
  /\ \A k \in Inum, m \in Name :
       e[k].dir[m] = IF k = j /\ m = n THEN v ELSE d[k].dir[m]

LEMMA NamesStep ==
  ASSUME NEW d, NEW e, NEW j \in Inum, NEW n \in Name, NEW v, Enters(d, e, j, n, v),
         NEW i \in Inum
  PROVE  Names(e, i) = Names(d, i) - Ind(d[j].dir[n], i) + Ind(v, i)
<1>. DEFINE S == Inum \X Name
            F == [x \in S |-> d[x[1]].dir[x[2]]]
            G == [x \in S |-> e[x[1]].dir[x[2]]]
<1>1. IsFiniteSet(S) /\ <<j, n>> \in S
  BY ConstantFacts, FilesAssumption, FS_Product
<1>2. Moves(F, G, S, <<j, n>>, v)
  <2>1. ASSUME NEW x \in S
        PROVE  G[x] = IF x = <<j, n>> THEN v ELSE F[x]
    <3>1. x[1] \in Inum /\ x[2] \in Name /\ x = <<x[1], x[2]>>
      OBVIOUS
    <3>. QED
      BY <3>1 DEF Enters
  <2>. HIDE DEF F, G, S
  <2>. QED
    BY <2>1 DEF Moves
<1>3. Names(d, i) = Count(F, S, i) /\ Names(e, i) = Count(G, S, i)
  BY DEF Names, Count
<1>4. F[<<j, n>>] = d[j].dir[n]
  BY <1>1
<1>. HIDE DEF F, G, S
<1>. QED
  BY <1>1, <1>2, <1>3, <1>4, CountStep

LEMMA SubdirsStep ==
  ASSUME NEW d \in DiskType, NEW e \in DiskType, NEW j \in Inum, NEW n \in Name,
         NEW v \in Inum \cup {None}, Enters(d, e, j, n, v), NEW i \in Inum
  PROVE  Subdirs(e, i) = Subdirs(d, i)
                         + (IF i = j THEN Sub(d, v) - Sub(d, d[j].dir[n]) ELSE 0)
<1>1. Subdirs(d, i) \in Nat
  BY BoundType
<1>2. CASE i # j
  <2>1. \A m \in Name : IsSubdir(e, i, m) <=> IsSubdir(d, i, m)
    BY <1>2 DEF Enters, IsSubdir, DiskType
  <2>2. Subdirs(e, i) = Subdirs(d, i)
    BY <2>1 DEF Subdirs
  <2>. QED
    BY <1>1, <1>2, <2>2
<1>3. CASE i = j
  <2>. DEFINE F == [m \in Name |-> Sub(d, d[j].dir[m])]
              G == [m \in Name |-> Sub(e, e[j].dir[m])]
  <2>1. Sub(e, v) = Sub(d, v)
    BY DEF Enters, Sub
  <2>2. Moves(F, G, Name, n, Sub(d, v))
    <3>1. ASSUME NEW m \in Name
          PROVE  G[m] = IF m = n THEN Sub(d, v) ELSE F[m]
      BY <2>1 DEF Enters, Sub, DiskType
    <3>. HIDE DEF F, G
    <3>. QED
      BY <3>1 DEF Moves
  <2>3. Subdirs(d, j) = Count(F, Name, 1) /\ Subdirs(e, j) = Count(G, Name, 1)
    <3>1. \A m \in Name : /\ IsSubdir(d, j, m) <=> F[m] = 1
                          /\ IsSubdir(e, j, m) <=> G[m] = 1
      BY DEF IsSubdir, Sub
    <3>. HIDE DEF F, G
    <3>2. /\ {m \in Name : IsSubdir(d, j, m)} = {m \in Name : F[m] = 1}
          /\ {m \in Name : IsSubdir(e, j, m)} = {m \in Name : G[m] = 1}
      BY <3>1
    <3>. QED
      BY <3>2 DEF Subdirs, Count
  <2>4. F[n] = Sub(d, d[j].dir[n])
    OBVIOUS
  <2>5. Count(G, Name, 1) = Count(F, Name, 1) - Ind(F[n], 1) + Ind(Sub(d, v), 1)
    <3>. HIDE DEF F, G
    <3>. QED
      BY <2>2, FilesAssumption, CountStep
  <2>6. \A x : Ind(Sub(d, x), 1) = Sub(d, x) /\ Sub(d, x) \in Int
    BY DEF Ind, Sub
  <2>. HIDE DEF F, G
  <2>. QED
    BY <1>1, <1>3, <2>3, <2>4, <2>5, <2>6
<1>. QED
  BY <1>2, <1>3

\* Fewer entries, fewer names and subdirectories
LEMMA NamesLess ==
  ASSUME NEW d, NEW e, NEW i \in Inum,
         \A k \in Inum, m \in Name : e[k].dir[m] = i => d[k].dir[m] = i
  PROVE  Names(e, i) <= Names(d, i)
<1>. DEFINE S == {x \in Inum \X Name : d[x[1]].dir[x[2]] = i}
            T == {x \in Inum \X Name : e[x[1]].dir[x[2]] = i}
<1>1. T \subseteq S
  <2>1. ASSUME NEW x \in Inum \X Name, e[x[1]].dir[x[2]] = i
        PROVE  d[x[1]].dir[x[2]] = i
    <3>1. x[1] \in Inum /\ x[2] \in Name
      OBVIOUS
    <3>. QED
      BY <2>1, <3>1
  <2>. QED
    BY <2>1
<1>2. IsFiniteSet(S)
  BY ConstantFacts, FilesAssumption, FS_Product, FS_Subset
<1>3. Cardinality(T) <= Cardinality(S)
  BY <1>1, <1>2, FS_Subset
<1>. QED
  BY <1>3 DEF Names

LEMMA SubdirsLess ==
  ASSUME NEW d, NEW e, NEW i \in Inum,
         \A m \in Name : IsSubdir(e, i, m) => IsSubdir(d, i, m)
  PROVE  Subdirs(e, i) <= Subdirs(d, i)
<1>. DEFINE S == {m \in Name : IsSubdir(d, i, m)}
            T == {m \in Name : IsSubdir(e, i, m)}
<1>1. T \subseteq S
  OBVIOUS
<1>2. IsFiniteSet(S)
  BY FilesAssumption, FS_Subset
<1>3. Cardinality(T) <= Cardinality(S)
  BY <1>1, <1>2, FS_Subset
<1>. QED
  BY <1>3 DEF Subdirs

LEMMA SameNames ==
  ASSUME NEW d, NEW e, NEW i \in Inum, d \in DiskType,
         \A k \in Inum : e[k].type = d[k].type /\ e[k].dir = d[k].dir
  PROVE  Names(e, i) = Names(d, i) /\ Subdirs(e, i) = Subdirs(d, i)
<1>1. {x \in Inum \X Name : e[x[1]].dir[x[2]] = i} = {x \in Inum \X Name : d[x[1]].dir[x[2]] = i}
  OBVIOUS
<1>2. {m \in Name : IsSubdir(e, i, m)} = {m \in Name : IsSubdir(d, i, m)}
  BY DEF IsSubdir, DiskType
<1>. QED
  BY <1>1, <1>2 DEF Names, Subdirs

\* What iupdate() and dirlink() do to each inode
LEMMA UpdatedAt ==
  ASSUME NEW d \in DiskType, NEW node \in NodeType, node.inum \in Inum, NEW k \in Inum
  PROVE  /\ Updated(d, node) \in DiskType
         /\ Updated(d, node)[k].dir = d[k].dir
         /\ Updated(d, node)[k].type = IF k = node.inum THEN node.type ELSE d[k].type
         /\ Updated(d, node)[k].nlink = IF k = node.inum THEN node.nlink ELSE d[k].nlink
<1>. DEFINE e == [d EXCEPT ![node.inum].type = node.type]
<1>1. /\ e \in DiskType /\ e[k].dir = d[k].dir /\ e[k].nlink = d[k].nlink
      /\ e[k].type = IF k = node.inum THEN node.type ELSE d[k].type
  BY DEF DiskType, NodeType
<1>2. Updated(d, node) = [e EXCEPT ![node.inum].nlink = node.nlink]
  BY DEF Updated
<1>. HIDE DEF e
<1>3. /\ Updated(d, node)[k].dir = e[k].dir /\ Updated(d, node)[k].type = e[k].type
      /\ Updated(d, node)[k].nlink = IF k = node.inum THEN node.nlink ELSE e[k].nlink
  BY <1>1, <1>2 DEF DiskType, NodeType
<1>. QED
  BY <1>1, <1>3, UpdatedType

LEMMA EntrySetAt ==
  ASSUME NEW d \in DiskType, NEW i \in Inum, NEW n \in Name, NEW v \in Inum \cup {None},
         NEW k \in Inum
  PROVE  /\ EntrySet(d, i, n, v)[k].type = d[k].type
         /\ EntrySet(d, i, n, v)[k].nlink = d[k].nlink
         /\ k # i => EntrySet(d, i, n, v)[k].dir = d[k].dir
         /\ \A m \in Name :
              EntrySet(d, i, n, v)[k].dir[m] = IF k = i /\ m = n THEN v ELSE d[k].dir[m]
<1>. DEFINE D == [d[i] EXCEPT !.dir[n] = v]
<1>1. EntrySet(d, i, n, v)[k] = IF k = i THEN D ELSE d[k]
  BY DEF EntrySet, DiskType
<1>2. /\ D.type = d[i].type /\ D.nlink = d[i].nlink
      /\ \A m \in Name : D.dir[m] = IF m = n THEN v ELSE d[i].dir[m]
  BY DEF DiskType
<1>. HIDE DEF D
<1>. QED
  BY <1>1, <1>2

\* Link counts follow what names the inodes.
LEMMA LinkKeeps ==
  ASSUME IInv, IInv', LInv, NEW p \in Proc, Only(p),
         \A s \in Slot : icache[s].ref > 0 => icache'[s].inum = icache[s].inum,
         \A i \in Inum :
           disk'[i].nlink - disk[i].nlink >=
             Names(disk', i) - Names(disk, i) + Subdirs(disk', i) - Subdirs(disk, i)
             + Ind(Owes(p)', i) - Ind(Owes(p), i)
  PROVE  LinkInv'
<1>1. ASSUME NEW i \in Inum
      PROVE  disk'[i].nlink >= Bound(disk', Owed', i)
  <2>1. /\ Count(Owed, Proc, i) \in Nat
        /\ Count(Owed', Proc, i) = Count(Owed, Proc, i) - Ind(Owes(p), i) + Ind(Owes(p)', i)
    BY OwedStep
  <2>2. Ind(Owes(p)', i) \in Int /\ Ind(Owes(p), i) \in Int
    BY DEF Ind
  <2>3. /\ Ind(i, ROOTINO) \in Nat /\ Names(disk, i) \in Nat /\ Subdirs(disk, i) \in Nat
    BY BoundType
  <2>4. Names(disk', i) \in Nat /\ Subdirs(disk', i) \in Nat
    BY BoundType
  <2>5. disk[i].nlink >= Bound(disk, Owed, i) /\ disk[i].nlink \in Int /\ disk'[i].nlink \in Int
    BY DEF LInv, LinkInv, IInv, Shape, DiskType
  <2>. QED
    BY <2>1, <2>2, <2>3, <2>4, <2>5 DEF Bound
<1>. QED
  BY <1>1 DEF LinkInv

\* Nothing but iput() holds an inode of which it has the last reference.
LEMMA Sole ==
  ASSUME IInv, NEW p \in Proc, puts[p] # <<>>, NEW s \in Slot, s = Head(puts[p]),
         icache[s].ref = 1
  PROVE  /\ \A q \in Proc : cur[q] # s /\ ip[q] # s
         /\ \A f \in File : ftable[f].ip # s
<1>1. /\ Refs(cur, s) \in Nat
      /\ \A q \in Proc : cur[q] = s => Refs(cur, s) > 0
      /\ Refs(ip, s) \in Nat
      /\ \A q \in Proc : ip[q] = s => Refs(ip, s) > 0
  BY ConstantFacts, CountType DEF Refs
<1>2. /\ FileRefs(ftable, s) \in Nat
      /\ \A f \in File : ftable[f].ip = s => FileRefs(ftable, s) > 0
  <2>. DEFINE S == {f \in File : ftable[f].ip = s}
  <2>1. IsFiniteSet(S) /\ Cardinality(S) \in Nat
    BY ConstantFacts, FS_Subset, FS_CardinalityType
  <2>2. S # {} => Cardinality(S) # 0
    BY <2>1, FS_EmptySet
  <2>3. /\ FileRefs(ftable, s) = Cardinality(S)
        /\ \A f \in File : ftable[f].ip = s => S # {}
    BY DEF FileRefs
  <2>. HIDE DEF S
  <2>. QED
    BY <2>1, <2>2, <2>3
<1>3. PutRefs(puts, s) \in Nat /\ PutRefs(puts, s) > 0
  <2>. DEFINE S == {x \in Proc \X (1 .. 2) :
                      x[2] \in DOMAIN puts[x[1]] /\ puts[x[1]][x[2]] = s}
  <2>1. IsFiniteSet(S) /\ Cardinality(S) \in Nat
    <3>1. 1 \in Int /\ 2 \in Int
      OBVIOUS
    <3>2. IsFiniteSet(1 .. 2)
      BY <3>1, FS_Interval
    <3>3. IsFiniteSet(Proc \X (1 .. 2))
      BY <3>2, ConstantFacts, FS_Product
    <3>. QED
      BY <3>3, FS_Subset, FS_CardinalityType
  <2>2. <<p, 1>> \in S
    <3>1. puts[p] \in Seq(Slot)
      BY DEF IInv, Shape
    <3>2. 1 \in DOMAIN puts[p] /\ puts[p][1] = s
      BY <3>1
    <3>. QED
      BY <3>2
  <2>3. Cardinality(S) # 0
    BY <2>1, <2>2, FS_EmptySet
  <2>4. PutRefs(puts, s) = Cardinality(S)
    BY DEF PutRefs
  <2>. HIDE DEF S
  <2>. QED
    BY <2>1, <2>3, <2>4
<1>4. Cwds(s) \in Nat
  BY ConstantFacts, FS_CardinalityType DEF Cwds
<1>5. icache[s].ref = Cwds(s) + FileRefs(ftable, s) + Refs(cur, s)
                      + Refs(ip, s) + PutRefs(puts, s)
  BY RefsForm DEF IInv
<1>6. Refs(cur, s) = 0 /\ Refs(ip, s) = 0 /\ FileRefs(ftable, s) = 0
  BY <1>1, <1>2, <1>3, <1>4, <1>5
<1>. QED
  BY <1>1, <1>2, <1>6

\* iput() frees an inode nothing uses.
LEMMA FreeUnused ==
  ASSUME IInv, LInv, NEW p \in Proc, pc[p] = "putfree", NEW s \in Slot, s = Head(puts[p])
  PROVE  /\ Locked(s, p) /\ icache[s].ref = 1 /\ icache[s].inum \in Inum
         /\ disk[icache[s].inum].nlink = 0
         /\ Unused(icache[s].inum)
         /\ \A q \in Proc : cur[q] # s /\ ip[q] # s
         /\ \A t \in Slot : icache[t].ref > 0 /\ icache[t].inum = icache[s].inum => t = s
<1>. DEFINE i == icache[s].inum
<1>1. Locked(s, p) /\ icache[s].ref = 1 /\ icache[s].nlink = 0
  BY DEF LInv, LockInv, LockOk
<1>2. i \in Inum /\ puts[p] # <<>>
  BY PutFacts DEF Putting
<1>3. disk[i].nlink = 0
  BY <1>1 DEF LInv, CacheInv, Locked
<1>4. /\ \A q \in Proc : cur[q] # s /\ ip[q] # s
      /\ \A f \in File : ftable[f].ip # s
  BY <1>1, <1>2, Sole
<1>5. \A t \in Slot : icache[t].ref > 0 /\ icache[t].inum = i => t = s
  BY <1>1 DEF IInv, RefsExact
<1>6. i # ROOTINO /\ \A j \in Inum, n \in Name : disk[j].dir[n] # i
  BY <1>2, <1>3, LinkFacts DEF LInv, IInv, Shape
<1>. HIDE DEF i
<1>7. ASSUME NEW q \in Proc
      PROVE  Node(cur[q]) # i /\ Node(ip[q]) # i
  <2>1. /\ cur[q] # None => /\ cur[q] \in Slot /\ icache[cur[q]].ref > 0
                            /\ Node(cur[q]) = icache[cur[q]].inum
        /\ ip[q] # None => /\ ip[q] \in Slot /\ icache[ip[q]].ref > 0
                           /\ Node(ip[q]) = icache[ip[q]].inum
    BY HeldNode DEF HeldNodes
  <2>2. cur[q] # s /\ ip[q] # s
    BY <1>4
  <2>3. (cur[q] = None => Node(cur[q]) = None) /\ (ip[q] = None => Node(ip[q]) = None)
    BY DEF Node
  <2>. QED
    BY <1>2, <1>5, <2>1, <2>2, <2>3, ConstantFacts
<1>8. ASSUME NEW f \in File
      PROVE  Node(ftable[f].ip) # i
  <2>1. ftable[f].ip # None => /\ ftable[f].ip \in Slot /\ icache[ftable[f].ip].ref > 0
                               /\ Node(ftable[f].ip) = icache[ftable[f].ip].inum
    BY HeldNode DEF HeldNodes
  <2>2. ftable[f].ip = None => Node(ftable[f].ip) = None
    BY DEF Node
  <2>. QED
    BY <1>2, <1>4, <1>5, <2>1, <2>2, ConstantFacts
<1>9. ASSUME NEW q \in Proc
      PROVE  inum[q] # i
  <2>1. icache[s].ref > 0 /\ icache[s].valid
    BY <1>1 DEF Locked
  <2>2. CASE inum[q] # None /\ ip[q] # None
    BY <1>7, <2>2 DEF LInv, FreshInv, FreshOk
  <2>3. CASE inum[q] # None /\ ip[q] = None
    BY <2>1, <2>3 DEF LInv, FreshInv, FreshOk, i
  <2>. QED
    BY <1>2, <2>2, <2>3, ConstantFacts
<1>10. Unused(i)
  BY <1>6, <1>7, <1>8, <1>9 DEF Unused
<1>. QED
  BY <1>1, <1>2, <1>3, <1>4, <1>5, <1>10 DEF i

LEMMA PutFreeLinks ==
  ASSUME IInv, IInv', LInv, NEW p \in Proc, PutFree(p)
  PROVE  LInv'
<1>. DEFINE s == Head(puts[p])
            i == icache[s].inum
            m == icache[s]
            D == [disk[i] EXCEPT !.type = "none", !.dir = NoEntries]
<1>1. pc[p] = "putfree" /\ s \in Slot /\ i \in Inum
  BY PutFacts DEF PutFree, Putting
<1>2. /\ Locked(s, p) /\ m.ref = 1 /\ disk[i].nlink = 0 /\ Unused(i)
      /\ \A q \in Proc : cur[q] # s /\ ip[q] # s
      /\ \A t \in Slot : icache[t].ref > 0 /\ icache[t].inum = i => t = s
  BY <1>1, FreeUnused
<1>3. /\ pc' = [pc EXCEPT ![p] = "putdrop"] /\ icache' = [icache EXCEPT ![s] = Freed(m)]
      /\ UNCHANGED <<ftable, call, rest, cur, ip, inum, puts, then>>
  BY DEF PutFree, fileVars, walkVars, putVars
<1>4. \A t \in Slot : icache'[t] = IF t = s THEN Freed(m) ELSE icache[t]
  BY <1>1, <1>3 DEF IInv, Shape, CacheType
<1>5. \A k \in Inum :
        /\ disk'[k].nlink = disk[k].nlink
        /\ disk'[k].type = IF k = i THEN "none" ELSE disk[k].type
        /\ disk'[k].dir = IF k = i THEN NoEntries ELSE disk[k].dir
  <2>1. disk' = [disk EXCEPT ![i] = D]
    BY <1>1 DEF PutFree, IInv, Shape, DiskType
  <2>2. D.nlink = disk[i].nlink /\ D.type = "none" /\ D.dir = NoEntries
    BY <1>1 DEF IInv, Shape, DiskType
  <2>. HIDE DEF D
  <2>. QED
    BY <1>1, <2>1, <2>2 DEF IInv, Shape, DiskType
<1>6. /\ Freed(m).inum = m.inum /\ Freed(m).ref = m.ref /\ Freed(m).valid = FALSE
      /\ Freed(m).lock = None /\ Freed(m).nlink = m.nlink
  <2>1. m \in NodeType
    BY <1>1 DEF IInv, Shape, CacheType
  <2>. HIDE DEF m
  <2>2. Freed(m) = [m EXCEPT !.type = "none", !.valid = FALSE, !.lock = None]
    BY DEF Freed
  <2>. QED
    BY <2>1, <2>2 DEF NodeType
<1>7. /\ pc'[p] = "putdrop" /\ At(p)' = At(p) /\ Only(p)
  BY <1>1, <1>3 DEF At, Putting, Only, IInv, Shape
<1>8. \A t \in Slot : icache[t].inum = icache'[t].inum
  BY <1>4, <1>6
<1>. HIDE DEF D
<1>9. ASSUME NEW t \in Slot
      PROVE  NodeStep(p, t)
  <2>1. icache[t].ref > 0 /\ icache[t].valid =>
          /\ icache[t].inum \in Inum
          /\ icache[t].type = disk[icache[t].inum].type
          /\ icache[t].nlink = disk[icache[t].inum].nlink
          /\ icache[t].type # "none"
    BY DEF LInv, CacheInv, IInv, UseInv
  <2>2. icache[t].ref \in Int /\ p # None
    BY ConstantFacts DEF IInv, Shape, CacheType, NodeType
  <2>3. CASE t = s
    BY <1>2, <1>4, <1>6, <2>2, <2>3 DEF NodeStep, Locked
  <2>4. CASE t # s
    BY <1>2, <1>4, <1>5, <2>1, <2>2, <2>4 DEF NodeStep
  <2>. QED
    BY <2>3, <2>4
<1>10. ASSUME NEW k \in Inum
       PROVE  InodeStep(p, k)
  <2>1. CASE k = i
    <3>1. \A t \in Slot : icache[t].ref > 0 /\ icache[t].inum = k => icache[t].lock = p
      BY <1>2, <2>1 DEF Locked
    <3>2. \A n \in Name : disk'[k].dir[n] = None
      BY <1>5, <2>1 DEF NoEntries
    <3>. QED
      BY <1>2, <2>1, <3>1, <3>2 DEF InodeStep
  <2>2. CASE k # i
    BY <1>5, <2>2 DEF InodeStep
  <2>. QED
    BY <2>1, <2>2
<1>11. LinkInv'
  <2>1. Owes(p)' = Owes(p)
    <3>1. Node(ip[p])' = Node(ip[p])
      BY <1>3, <1>8, HeldNode DEF HeldNodes, Node
    <3>. QED
      BY <1>7, <3>1 DEF Owes
  <2>2. ASSUME NEW k \in Inum
        PROVE  Names(disk', k) <= Names(disk, k) /\ Subdirs(disk', k) <= Subdirs(disk, k)
    <3>1. \A j \in Inum, n \in Name : disk'[j].dir[n] \in {None, disk[j].dir[n]}
      BY <1>5 DEF NoEntries
    <3>2. Names(disk', k) <= Names(disk, k)
      <4>1. \A j \in Inum, n \in Name : disk'[j].dir[n] = k => disk[j].dir[n] = k
        BY <3>1, ConstantFacts
      <4>. QED
        BY <4>1, NamesLess
    <3>3. Subdirs(disk', k) <= Subdirs(disk, k)
      <4>1. ASSUME NEW n \in Name, IsSubdir(disk', k, n)
            PROVE  IsSubdir(disk, k, n)
        <5>1. disk'[k].dir[n] = disk[k].dir[n] /\ disk[k].dir[n] # None
          BY <3>1, <4>1 DEF IsSubdir
        <5>2. disk[k].dir[n] \in Inum
          BY <5>1 DEF IInv, Shape, DiskType
        <5>. QED
          BY <1>5, <4>1, <5>1, <5>2 DEF IsSubdir
      <4>. QED
        BY <4>1, SubdirsLess
    <3>. QED
      BY <3>2, <3>3
  <2>3. \A x, k : Ind(x, k) \in Int
    BY DEF Ind
  <2>4. \A k \in Inum : /\ Names(disk, k) \in Nat /\ Subdirs(disk, k) \in Nat
                        /\ Names(disk', k) \in Nat /\ Subdirs(disk', k) \in Nat
                        /\ disk[k].nlink \in Int
    BY BoundType DEF IInv, Shape, DiskType
  <2>5. ASSUME NEW k \in Inum
        PROVE  disk'[k].nlink - disk[k].nlink >=
                 Names(disk', k) - Names(disk, k) + Subdirs(disk', k) - Subdirs(disk, k)
                 + Ind(Owes(p)', k) - Ind(Owes(p), k)
    BY <1>5, <2>1, <2>2, <2>3, <2>4
  <2>. QED
    BY <1>7, <1>8, <2>5, LinkKeeps
<1>12. HolderStep(p)
  <2>1. Node(cur[p])' = Node(cur[p]) /\ Node(ip[p])' = Node(ip[p])
    BY <1>3, <1>8, HeldNode DEF HeldNodes, Node
  <2>2. \A f \in File : Node(ftable[f].ip)' = Node(ftable[f].ip)
    BY <1>3, <1>8, HeldNode DEF HeldNodes, Node
  <2>3. At(p) \notin {"newget", "newlock"} /\ pc[p] \in Putting
    BY <1>1 DEF LInv, LockInv, LockOk, Putting
  <2>4. inum'[p] = None
    BY <1>3, <2>3 DEF IInv, PcInv, PcOk
  <2>5. ip'[p] # None /\ At(p)' \in Linking => disk'[Node(ip[p])'].type # "dir"
    <3>1. ip[p] # None => Node(ip[p]) \in Inum
      BY HeldNode DEF HeldNodes
    <3>. QED
      BY <1>3, <1>5, <1>7, <2>1, <3>1 DEF LInv, HeldInv
  <2>6. LockOk(p)'
    <3>1. At(p) \in CurLocked => cur[p] \in Slot /\ Locked(cur[p], p)
      BY HeldNode DEF HeldNodes, CurLocked, CurPoints, IInv, PcInv, PcOk, LInv, LockInv, LockOk
    <3>2. At(p) \in IpLocked => ip[p] \in Slot /\ Locked(ip[p], p)
      BY HeldNode DEF HeldNodes, IpLocked, IpPoints, IInv, PcInv, PcOk, LInv, LockInv, LockOk
    <3>3. At(p) \in CurLocked => Locked(cur[p], p)'
      BY <1>2, <1>3, <1>4, <3>1 DEF Locked
    <3>4. At(p) \in IpLocked => Locked(ip[p], p)'
      BY <1>2, <1>3, <1>4, <3>2 DEF Locked
    <3>5. ASSUME At(p) = "unlinkip"
          PROVE  (Entry(cur[p], Last(call[p].path)) = Node(ip[p]))'
      <4>1. Entry(cur[p], Last(call[p].path)) = Node(ip[p])
        BY <3>5 DEF LInv, LockInv, LockOk
      <4>2. cur[p] \in Slot /\ icache[cur[p]].inum \in Inum /\ icache[cur[p]].inum # i
        BY <1>2, <3>1, <3>5, HeldNode, ConstantFacts DEF CurLocked, HeldNodes
      <4>. QED
        BY <1>3, <1>5, <1>8, <2>1, <4>1, <4>2 DEF Entry
    <3>. QED
      BY <1>7, <2>3, <3>3, <3>4, <3>5 DEF LockOk
  <2>7. FreshOk(p)'
    BY <2>4 DEF FreshOk
  <2>. QED
    BY <1>7, <2>1, <2>2, <2>4, <2>5, <2>6, <2>7 DEF HolderStep, Seen
<1>. QED
  BY <1>9, <1>10, <1>11, <1>12, LInvKeeps

\* ialloc() takes an inode nothing knows of.
LEMMA FreeInode ==
  ASSUME IInv, LInv, NEW i \in Inum, disk[i].type = "none"
  PROVE  /\ i # ROOTINO
         /\ \A j \in Inum, n \in Name : disk[j].dir[n] # i
         /\ \A q \in Proc : Node(cur[q]) # i /\ Node(ip[q]) # i /\ inum[q] # i /\ Owes(q) # i
         /\ \A f \in File : Node(ftable[f].ip) # i
         /\ \A s \in Slot : icache[s].ref > 0 /\ icache[s].valid => icache[s].inum # i
<1>1. i # ROOTINO /\ \A j \in Inum, n \in Name : disk[j].dir[n] # i
  BY ConstantFacts DEF LInv, HeldInv
<1>2. ASSUME NEW q \in Proc
      PROVE  Node(cur[q]) # i /\ Node(ip[q]) # i /\ inum[q] # i /\ Owes(q) # i
  <2>1. Node(cur[q]) # i /\ Node(ip[q]) # i
    BY ConstantFacts DEF LInv, HeldInv, Node
  <2>2. inum[q] # i
    BY ConstantFacts DEF LInv, FreshInv, FreshOk
  <2>. QED
    BY <2>1, <2>2, ConstantFacts DEF Owes
<1>3. \A f \in File : Node(ftable[f].ip) # i
  BY ConstantFacts DEF LInv, HeldInv, Node
<1>4. \A s \in Slot : icache[s].ref > 0 /\ icache[s].valid => icache[s].inum # i
  BY DEF LInv, CacheInv
<1>. QED
  BY <1>1, <1>2, <1>3, <1>4

LEMMA IallocLinks ==
  ASSUME IInv, IInv', LInv, NEW p \in Proc, Ialloc(p)
  PROVE  LInv'
<1>1. pc[p] = "ialloc" /\ cur[p] \in Slot /\ ip[p] = None /\ Locked(cur[p], p)
  <2>1. pc[p] = "ialloc" /\ cur[p] \in Slot /\ ip[p] = None /\ At(p) = "ialloc"
    BY AtFacts DEF Ialloc, Putting, CurPoints, IpPoints
  <2>. QED
    BY <2>1 DEF LInv, LockInv, LockOk, CurLocked
<1>2. PICK i \in Inum :
        /\ disk[i].type = "none"
        /\ disk' = [disk EXCEPT ![i] =
                     [type |-> IF call[p].op = "mkdir" THEN "dir" ELSE "file",
                      nlink |-> 0, dir |-> NoEntries]]
        /\ inum' = [inum EXCEPT ![p] = i]
  BY DEF Ialloc
<1>. DEFINE D == [type |-> IF call[p].op = "mkdir" THEN "dir" ELSE "file",
                  nlink |-> 0, dir |-> NoEntries]
<1>3. pc' = [pc EXCEPT ![p] = "newget"]
      /\ UNCHANGED <<icache, ftable, call, rest, cur, ip, puts, then>>
  BY DEF Ialloc, GoTo, fileVars, walkVars, putVars
<1>4. \A k \in Inum : disk'[k] = IF k = i THEN D ELSE disk[k]
  BY <1>2 DEF IInv, Shape, DiskType
<1>5. /\ D.nlink = 0 /\ D.type # "none" /\ (D.type = "dir" => call[p].op = "mkdir")
      /\ \A n \in Name : D.dir[n] = None
  BY DEF NoEntries
<1>. HIDE DEF D
<1>6. /\ pc'[p] = "newget" /\ At(p)' = "newget" /\ Only(p) /\ inum'[p] = i
  BY <1>2, <1>3 DEF At, Putting, Only, IInv, Shape
<1>7. /\ i # ROOTINO
      /\ \A j \in Inum, n \in Name : disk[j].dir[n] # i
      /\ \A q \in Proc : Node(cur[q]) # i /\ Node(ip[q]) # i /\ inum[q] # i /\ Owes(q) # i
      /\ \A f \in File : Node(ftable[f].ip) # i
      /\ \A s \in Slot : icache[s].ref > 0 /\ icache[s].valid => icache[s].inum # i
  BY <1>2, FreeInode
<1>8. ASSUME NEW t \in Slot
      PROVE  NodeStep(p, t)
  <2>1. icache[t].ref > 0 /\ icache[t].valid =>
          /\ icache[t].inum \in Inum
          /\ icache[t].type = disk[icache[t].inum].type
          /\ icache[t].nlink = disk[icache[t].inum].nlink
          /\ icache[t].type # "none"
    BY DEF LInv, CacheInv, IInv, UseInv
  <2>2. icache[t].ref \in Int
    BY DEF IInv, Shape, CacheType, NodeType
  <2>. QED
    BY <1>3, <1>4, <1>7, <2>1, <2>2 DEF NodeStep
<1>9. ASSUME NEW k \in Inum
      PROVE  InodeStep(p, k)
  BY <1>2, <1>4, <1>5, <1>7 DEF InodeStep
<1>10. LinkInv'
  <2>1. Owes(p)' = None /\ Owes(p) = None
    BY <1>1, <1>6 DEF Owes, Linking, At, Putting
  <2>2. \A k \in Inum, n \in Name : disk'[k].dir[n] \in {None, disk[k].dir[n]}
    BY <1>4, <1>5
  <2>3. ASSUME NEW k \in Inum
        PROVE  Names(disk', k) <= Names(disk, k) /\ Subdirs(disk', k) <= Subdirs(disk, k)
    <3>1. Names(disk', k) <= Names(disk, k)
      <4>1. \A j \in Inum, n \in Name : disk'[j].dir[n] = k => disk[j].dir[n] = k
        BY <2>2, ConstantFacts
      <4>. QED
        BY <4>1, NamesLess
    <3>2. Subdirs(disk', k) <= Subdirs(disk, k)
      <4>1. ASSUME NEW n \in Name, IsSubdir(disk', k, n)
            PROVE  IsSubdir(disk, k, n)
        <5>1. disk'[k].dir[n] = disk[k].dir[n] /\ disk[k].dir[n] # None
          BY <2>2, <4>1 DEF IsSubdir
        <5>2. disk[k].dir[n] \in Inum /\ disk[k].dir[n] # i
          BY <1>7, <5>1 DEF IInv, Shape, DiskType
        <5>. QED
          BY <1>4, <4>1, <5>1, <5>2 DEF IsSubdir
      <4>. QED
        BY <4>1, SubdirsLess
    <3>. QED
      BY <3>1, <3>2
  <2>4. Names(disk', i) = 0 /\ Subdirs(disk', i) = 0
    <3>1. {x \in Inum \X Name : disk'[x[1]].dir[x[2]] = i} = {}
      <4>1. ASSUME NEW x \in Inum \X Name
            PROVE  disk'[x[1]].dir[x[2]] # i
        <5>1. x[1] \in Inum /\ x[2] \in Name
          OBVIOUS
        <5>. QED
          BY <1>7, <2>2, <5>1, ConstantFacts
      <4>. QED
        BY <4>1
    <3>2. {n \in Name : IsSubdir(disk', i, n)} = {}
      BY <1>4, <1>5 DEF IsSubdir
    <3>. QED
      BY <3>1, <3>2, FS_EmptySet DEF Names, Subdirs
  <2>5. ASSUME NEW k \in Inum
        PROVE  disk'[k].nlink >= Bound(disk', Owed', k)
    <3>1. /\ Count(Owed, Proc, k) \in Nat
          /\ Count(Owed', Proc, k) = Count(Owed, Proc, k) - Ind(Owes(p), k) + Ind(Owes(p)', k)
      BY <1>3, <1>6, OwedStep
    <3>2. Ind(None, k) = 0
      BY ConstantFacts DEF Ind
    <3>3. /\ Ind(k, ROOTINO) \in Nat /\ Names(disk, k) \in Nat /\ Subdirs(disk, k) \in Nat
          /\ Names(disk', k) \in Nat /\ Subdirs(disk', k) \in Nat
      BY BoundType
    <3>4. CASE k # i
      <4>1. disk[k].nlink >= Bound(disk, Owed, k) /\ disk'[k].nlink = disk[k].nlink
            /\ disk[k].nlink \in Int
        BY <1>4, <3>4 DEF LInv, LinkInv, IInv, Shape, DiskType
      <4>. QED
        BY <2>1, <2>3, <3>1, <3>2, <3>3, <4>1 DEF Bound
    <3>5. CASE k = i
      <4>1. Count(Owed, Proc, i) = 0
        <5>1. \A q \in Proc : Owed[q] # i
          BY <1>7 DEF Owed
        <5>2. {q \in Proc : Owed[q] = i} = {}
          BY <5>1
        <5>. QED
          BY <5>2, FS_EmptySet DEF Count
      <4>2. Ind(i, ROOTINO) = 0 /\ disk'[i].nlink = 0
        BY <1>4, <1>5, <1>7 DEF Ind
      <4>. QED
        BY <2>1, <2>4, <3>1, <3>2, <3>5, <4>1, <4>2 DEF Bound
    <3>. QED
      BY <3>4, <3>5
  <2>. QED
    BY <2>5 DEF LinkInv
<1>11. HolderStep(p)
  <2>1. \A q \in Proc : Node(cur[q])' = Node(cur[q]) /\ Node(ip[q])' = Node(ip[q])
    BY <1>3 DEF Node
  <2>2. \A f \in File : Node(ftable[f].ip)' = Node(ftable[f].ip)
    BY <1>3 DEF Node
  <2>3. LockOk(p)'
    <3>1. Locked(cur[p], p)'
      BY <1>1, <1>3 DEF Locked
    <3>. QED
      BY <1>6, <3>1 DEF LockOk, IpLocked, Putting
  <2>4. FreshOk(p)'
    <3>1. \A q \in Proc : q # p => inum'[q] = inum[q]
      BY <1>6 DEF Only
    <3>. QED
      BY <1>1, <1>3, <1>4, <1>5, <1>6, <1>7, <2>1, <2>2, <3>1 DEF FreshOk
  <2>. QED
    BY <1>1, <1>2, <1>3, <1>6, <2>1, <2>2, <2>3, <2>4 DEF HolderStep, Seen
<1>. QED
  BY <1>8, <1>9, <1>10, <1>11, LInvKeeps

-----------------------------------------------------------------------------
(* The steps that write a locked inode.                                    *)

LEMMA LinkedFields ==
  ASSUME NEW x \in NodeType, NEW k \in Int
  PROVE  /\ Linked(x, k) \in NodeType
         /\ Linked(x, k).inum = x.inum /\ Linked(x, k).ref = x.ref
         /\ Linked(x, k).valid = x.valid /\ Linked(x, k).type = x.type
         /\ Linked(x, k).nlink = x.nlink + k /\ Linked(x, k).lock = x.lock
BY DEF Linked, NodeType

LEMMA LockFields ==
  ASSUME NEW x \in NodeType, NEW q \in Proc \cup {None}
  PROVE  /\ [x EXCEPT !.lock = q] \in NodeType
         /\ [x EXCEPT !.lock = q].inum = x.inum /\ [x EXCEPT !.lock = q].ref = x.ref
         /\ [x EXCEPT !.lock = q].valid = x.valid /\ [x EXCEPT !.lock = q].type = x.type
         /\ [x EXCEPT !.lock = q].nlink = x.nlink /\ [x EXCEPT !.lock = q].lock = q
BY DEF NodeType

\* The cache c is icache after p has locked, written and unlocked inodes it
\* holds: it has what is then on the disk.
Fills(p, c) ==
  \A s \in Slot :
    \/ /\ c[s] = icache[s]
       /\ icache[s].ref > 0 =>
            disk'[icache[s].inum].nlink = disk[icache[s].inum].nlink
    \/ /\ s \in {cur[p], ip[p]} /\ icache[s].lock \in {None, p}
       /\ c[s].inum = icache[s].inum /\ c[s].ref = icache[s].ref
       /\ c[s].type = disk'[icache[s].inum].type
       /\ c[s].nlink = disk'[icache[s].inum].nlink

LEMMA FillStep ==
  ASSUME IInv, LInv, NEW p \in Proc, NEW c, Fills(p, c),
         \A k \in Inum : disk'[k].type = disk[k].type,
         \A s \in Slot : Fetched(c[s], icache'[s], ROOTINO), NEW s \in Slot
  PROVE  NodeStep(p, s)
<1>. DEFINE x == icache[s]
            y == icache'[s]
            z == c[s]
<1>1. x.ref \in Int /\ (x.ref > 0 => x.inum \in Inum) /\ (x.ref > 0 \/ x.ref = 0)
  BY HeldRef DEF IInv, Shape, CacheType, NodeType, UseInv
<1>2. s \in {cur[p], ip[p]} =>
        /\ x.ref > 0 /\ x.inum \in {Node(cur[p]), Node(ip[p])}
        /\ disk[x.inum].type # "none"
  BY HeldNode, ConstantFacts DEF HeldNodes, LInv, HeldInv
<1>3. x.ref > 0 /\ x.valid =>
         /\ x.type = disk[x.inum].type /\ x.nlink = disk[x.inum].nlink
         /\ x.type # "none"
  BY DEF LInv, CacheInv
<1>4. disk[ROOTINO].nlink > 0 /\ ROOTINO \in Inum
  BY LinkedNodes, ConstantFacts
<1>5. Fetched(z, y, ROOTINO)
  OBVIOUS
<1>6. \/ /\ z = x
         /\ x.ref > 0 => disk'[x.inum].nlink = disk[x.inum].nlink
      \/ /\ s \in {cur[p], ip[p]} /\ x.lock \in {None, p}
         /\ z.inum = x.inum /\ z.ref = x.ref
         /\ z.type = disk'[x.inum].type /\ z.nlink = disk'[x.inum].nlink
  BY DEF Fills
<1>7. x.ref > 0 => disk'[x.inum].type = disk[x.inum].type
  BY <1>1
<1>8. NodeStep(p, s) <=>
        /\ x.ref > 0 => y.inum = x.inum
        /\ x.ref > 0 /\ x.lock \notin {None, p} =>
             y.valid = x.valid /\ y.type = x.type /\ y.nlink = x.nlink /\ y.lock = x.lock
        /\ y.ref > 0 /\ y.valid =>
             /\ y.type = disk'[y.inum].type /\ y.nlink = disk'[y.inum].nlink
             /\ y.type # "none"
             /\ (x.ref > 0 /\ x.valid) \/ y.inum \in {Node(cur[p]), Node(ip[p])}
        /\ \/ y.nlink = x.nlink
           \/ y.inum \in Inum /\ y.nlink = disk'[y.inum].nlink
        /\ \/ y.ref <= x.ref \/ disk[y.inum].nlink > 0
           \/ y.inum = inum[p] /\ ip[p] = None
  BY DEF NodeStep
<1>. HIDE DEF x, y, z
<1>9. CASE y = z
  BY <1>1, <1>2, <1>3, <1>4, <1>6, <1>7, <1>8, <1>9
<1>10. CASE y # z
  <2>1. /\ y.ref = z.ref + 1 /\ y.inum = ROOTINO
        /\ y.type = z.type /\ y.nlink = z.nlink /\ y.lock = z.lock
        /\ z.ref > 0 => y.valid = z.valid /\ z.inum = ROOTINO
        /\ z.ref = 0 => y.valid = FALSE
    BY <1>5, <1>10 DEF Fetched
  <2>. QED
    BY <1>1, <1>2, <1>3, <1>4, <1>6, <1>7, <1>8, <2>1
<1>. QED
  BY <1>9, <1>10

LEMMA FillInode ==
  ASSUME IInv, LInv, NEW p \in Proc,
         \A k \in Inum : disk'[k].type = disk[k].type,
         \A k \in Inum : k \notin {Node(cur[p]), Node(ip[p])} => disk'[k].nlink = disk[k].nlink,
         \A k \in Inum :
           \/ disk'[k].dir = disk[k].dir
           \/ /\ cur[p] \in Slot /\ k = Node(cur[p]) /\ icache[cur[p]].lock \in {None, p}
              /\ \A n \in Name :
                   disk'[k].dir[n] \in {None, disk[k].dir[n], inum[p], Node(ip[p])},
         NEW i \in Inum
  PROVE  InodeStep(p, i)
<1>1. disk'[i].type = disk[i].type
  OBVIOUS
<1>2. i \in {Node(cur[p]), Node(ip[p])} \/ disk'[i].nlink = disk[i].nlink
  OBVIOUS
<1>3. CASE disk'[i].dir = disk[i].dir
  BY <1>1, <1>2, <1>3 DEF InodeStep
<1>4. CASE /\ cur[p] \in Slot /\ i = Node(cur[p]) /\ icache[cur[p]].lock \in {None, p}
           /\ \A n \in Name :
                disk'[i].dir[n] \in {None, disk[i].dir[n], inum[p], Node(ip[p])}
  <2>1. icache[cur[p]].ref > 0 /\ i = icache[cur[p]].inum
    BY <1>4, HeldNode, ConstantFacts DEF HeldNodes
  <2>2. \A s \in Slot : icache[s].ref > 0 /\ icache[s].inum = i => s = cur[p]
    BY <1>4, <2>1 DEF IInv, RefsExact
  <2>. QED
    BY <1>1, <1>2, <1>4, <2>2 DEF InodeStep
<1>. QED
  BY <1>3, <1>4

\* sys_unlink() and a failed sys_link() take the count back.
LEMMA UnlinksLinks ==
  ASSUME IInv, IInv', LInv, NEW p \in Proc, pc[p] \in {"unlinked", "linkbad"},
         NEW node \in NodeType, ip[p] \in Slot, icache[ip[p]].lock \in {None, p},
         node.inum = icache[ip[p]].inum, node.ref = icache[ip[p]].ref,
         node.type = disk[icache[ip[p]].inum].type,
         node.nlink = disk[icache[ip[p]].inum].nlink - 1,
         icache' = SetTo(icache, ip[p], node), disk' = Updated(disk, node),
         HandsIp(p, "idle")
  PROVE  LInv'
<1>. DEFINE s == ip[p]
            i == icache[s].inum
<1>1. /\ i \in Inum /\ icache[s].ref > 0 /\ Node(ip[p]) = i /\ cur[p] = None
      /\ inum[p] = None /\ At(p) = pc[p] /\ pc[p] \notin Putting
  <2>1. pc[p] \notin Putting /\ pc[p] \notin CurPoints
    BY DEF Putting, CurPoints
  <2>2. At(p) = pc[p] /\ cur[p] = None
    BY <2>1, AtFacts
  <2>3. inum[p] = None
    BY <2>2 DEF IInv, PcInv, PcOk
  <2>. QED
    BY <2>1, <2>2, <2>3, HeldNode, ConstantFacts DEF HeldNodes
<1>2. /\ pc'[p] = "put" /\ then'[p] = "idle" /\ ip'[p] = None /\ cur' = cur /\ Only(p)
      /\ ftable' = ftable /\ inum' = inum
  BY DEF HandsIp, Put, fileVars, Only, IInv, Shape
<1>3. At(p)' = "idle" /\ Plain(p)
  BY <1>2 DEF At, Putting, Plain, CurLocked, IpLocked
<1>4. \A t \in Slot : icache'[t] = IF t = s THEN node ELSE icache[t]
  BY DEF SetTo, IInv, Shape, CacheType
<1>5. disk \in DiskType
  BY DEF IInv, Shape
<1>. HIDE DEF i
<1>6. \A k \in Inum :
        /\ disk'[k].dir = disk[k].dir /\ disk'[k].type = disk[k].type
        /\ disk'[k].nlink = disk[k].nlink - Ind(i, k)
  <2>1. \A k \in Inum : disk[k].nlink \in Int
    BY <1>5 DEF DiskType
  <2>. QED
    BY <1>1, <1>5, <2>1, UpdatedAt DEF Ind, i
<1>7. \A t \in Slot : icache[t].ref > 0 => icache'[t].inum = icache[t].inum
  BY <1>4
<1>8. ASSUME NEW t \in Slot
      PROVE  NodeStep(p, t)
  <2>1. Fills(p, icache')
    <3>1. ASSUME NEW r \in Slot, r # s, icache[r].ref > 0
          PROVE  disk'[icache[r].inum].nlink = disk[icache[r].inum].nlink
      <4>1. icache[r].inum \in Inum /\ icache[r].inum # i
        BY <1>1, <3>1 DEF IInv, RefsExact, UseInv, i
      <4>2. disk[icache[r].inum].nlink \in Int
        BY <1>5, <4>1 DEF DiskType
      <4>. QED
        BY <1>6, <4>1, <4>2 DEF Ind
    <3>2. node.type = disk'[i].type /\ node.nlink = disk'[i].nlink
      BY <1>1, <1>6 DEF Ind, i
    <3>. QED
      BY <1>4, <3>1, <3>2 DEF Fills, i
  <2>. QED
    BY <1>6, <2>1, FillStep DEF Fetched
<1>9. ASSUME NEW k \in Inum
      PROVE  InodeStep(p, k)
  <2>1. \A j \in Inum : j # i => disk'[j].nlink = disk[j].nlink
    BY <1>5, <1>6 DEF Ind, DiskType
  <2>. QED
    BY <1>1, <1>6, <2>1, FillInode
<1>10. LinkInv'
  <2>1. Owes(p) = i /\ Owes(p)' = None
    BY <1>1, <1>3 DEF Owes, Linking
  <2>2. ASSUME NEW k \in Inum
        PROVE  disk'[k].nlink - disk[k].nlink >=
                 Names(disk', k) - Names(disk, k) + Subdirs(disk', k) - Subdirs(disk, k)
                 + Ind(Owes(p)', k) - Ind(Owes(p), k)
    <3>1. Names(disk', k) = Names(disk, k) /\ Subdirs(disk', k) = Subdirs(disk, k)
      BY <1>5, <1>6, SameNames
    <3>2. Names(disk, k) \in Nat /\ Subdirs(disk, k) \in Nat
      BY BoundType
    <3>3. Ind(None, k) = 0 /\ Ind(i, k) \in Int /\ disk[k].nlink \in Int
      BY <1>5, ConstantFacts DEF Ind, DiskType
    <3>. QED
      BY <1>6, <2>1, <3>1, <3>2, <3>3
  <2>. QED
    BY <1>2, <1>7, <2>2, LinkKeeps
<1>11. HolderStep(p)
  <2>1. Node(cur[p])' = None /\ Node(ip[p])' = None
    BY <1>1, <1>2 DEF Node
  <2>2. \A f \in File : Node(ftable[f].ip)' = Node(ftable[f].ip)
    BY <1>2, <1>7, HeldNode DEF HeldNodes, Node
  <2>3. LockOk(p)' /\ FreshOk(p)'
    BY <1>1, <1>2, <1>3, PlainLock DEF FreshOk
  <2>. QED
    BY <1>1, <1>2, <2>1, <2>2, <2>3 DEF HolderStep, Seen
<1>. QED
  BY <1>8, <1>9, <1>10, <1>11, LInvKeeps

LEMMA UnlinkedLinks ==
  ASSUME IInv, IInv', LInv, NEW p \in Proc, Unlinked(p)
  PROVE  LInv'
<1>. DEFINE s == ip[p]
            m == icache[s]
            u == [m EXCEPT !.lock = None]
            node == Linked(u, -1)
<1>1. pc[p] = "unlinked" /\ s \in Slot /\ At(p) = "unlinked" /\ m.ref > 0
  <2>1. pc[p] = "unlinked" /\ s \in Slot /\ At(p) = "unlinked"
    BY AtFacts DEF Unlinked, Putting, IpPoints
  <2>. QED
    BY <2>1, HeldNode, ConstantFacts DEF HeldNodes
<1>2. Locked(s, p)
  BY <1>1 DEF LInv, LockInv, LockOk, IpLocked
<1>3. /\ m \in NodeType /\ m.type = disk[m.inum].type /\ m.nlink = disk[m.inum].nlink
      /\ m.lock = p
  BY <1>1, <1>2 DEF Locked, LInv, CacheInv, IInv, Shape, CacheType
<1>4. /\ icache' = SetTo(icache, s, node) /\ disk' = Updated(disk, node)
      /\ HandsIp(p, "idle")
  BY DEF Unlinked, SetTo, HandsIp, walkVars
<1>. HIDE DEF m
<1>5. /\ u \in NodeType /\ u.inum = m.inum /\ u.ref = m.ref /\ u.type = m.type
      /\ u.nlink = m.nlink
  BY <1>3, LockFields
<1>. HIDE DEF u
<1>6. /\ node \in NodeType /\ node.inum = m.inum /\ node.ref = m.ref /\ node.type = m.type
      /\ node.nlink = m.nlink + (-1)
  BY <1>5, LinkedFields
<1>. HIDE DEF node
<1>7. node.nlink = disk[m.inum].nlink - 1
  BY <1>3, <1>6 DEF NodeType
<1>. QED
  BY <1>1, <1>3, <1>4, <1>6, <1>7, UnlinksLinks DEF m

LEMMA LinkBadLinks ==
  ASSUME IInv, IInv', LInv, NEW p \in Proc, LinkBad(p)
  PROVE  LInv'
<1>. DEFINE s == ip[p]
            m == icache[s]
            u == LockedBy(s, None)
            node == Linked(u, -1)
<1>1. pc[p] = "linkbad" /\ s \in Slot /\ m.ref > 0 /\ m.lock = None
  <2>1. pc[p] = "linkbad" /\ s \in Slot /\ m.lock = None
    BY AtFacts DEF LinkBad, Putting, IpPoints, Unlocked
  <2>. QED
    BY <2>1, HeldNode, ConstantFacts DEF HeldNodes
<1>2. /\ icache' = SetTo(icache, s, node) /\ disk' = Updated(disk, node)
      /\ HandsIp(p, "idle")
  BY DEF LinkBad, SetTo, HandsIp, walkVars
<1>3. /\ u \in NodeType /\ u.inum = m.inum /\ u.ref = m.ref
      /\ u.type = disk[m.inum].type /\ u.nlink = disk[m.inum].nlink
  BY <1>1, LockedByHas
<1>. HIDE DEF u
<1>4. /\ node \in NodeType /\ node.inum = u.inum /\ node.ref = u.ref /\ node.type = u.type
      /\ node.nlink = u.nlink + (-1)
  BY <1>3, LinkedFields
<1>. HIDE DEF node
<1>5. node.nlink = disk[m.inum].nlink - 1
  BY <1>3, <1>4 DEF NodeType
<1>. QED
  BY <1>1, <1>2, <1>3, <1>4, <1>5, UnlinksLinks DEF m

LEMMA LinkOldLinks ==
  ASSUME IInv, IInv', LInv, NEW p \in Proc, LinkOld(p)
  PROVE  LInv'
<1>. DEFINE s == cur[p]
            m == icache[s]
            u == LockedBy(s, None)
            node == Linked(u, 1)
            c == SetTo(icache, s, node)
            t == SlotOf(c, ROOTINO)
            i == m.inum
<1>1. /\ pc[p] = "linkold" /\ At(p) = "linkold" /\ s \in Slot /\ m.lock = None /\ m.ref > 0
      /\ ip[p] = None /\ i \in Inum /\ Node(cur[p]) = i /\ inum[p] = None
  <2>1. /\ pc[p] = "linkold" /\ At(p) = "linkold" /\ s \in Slot /\ m.lock = None
        /\ ip[p] = None
    BY AtFacts DEF LinkOld, Putting, CurPoints, IpPoints, Unlocked
  <2>2. inum[p] = None
    BY <2>1 DEF IInv, PcInv, PcOk
  <2>. QED
    BY <2>1, <2>2, HeldNode, ConstantFacts DEF HeldNodes
<1>2. /\ u \in NodeType /\ u.inum = i /\ u.ref = m.ref
      /\ u.type = disk[i].type /\ u.nlink = disk[i].nlink /\ u.lock = None
  BY <1>1, LockedByHas
<1>3. /\ node.type # "dir" /\ icache' = Iget(c, ROOTINO) /\ disk' = Updated(disk, node)
      /\ pc' = [pc EXCEPT ![p] = "walk"] /\ ip' = [ip EXCEPT ![p] = s]
      /\ cur' = [cur EXCEPT ![p] = t] /\ rest' = [rest EXCEPT ![p] = call[p].new]
      /\ UNCHANGED <<ftable, call, inum, puts, then>>
  BY DEF LinkOld, SetTo, GoTo, putVars, fileVars
<1>. HIDE DEF u
<1>4. /\ node \in NodeType /\ node.inum = i /\ node.ref = m.ref /\ node.type = disk[i].type
      /\ node.nlink = disk[i].nlink + 1
  BY <1>2, LinkedFields
<1>. HIDE DEF node
<1>5. /\ c \in CacheType /\ Steady(icache, c)
      /\ \A x \in Slot : c[x] = IF x = s THEN node ELSE icache[x]
  <2>1. \A x \in Slot : c[x] = IF x = s THEN node ELSE icache[x]
    BY DEF SetTo, IInv, Shape, CacheType
  <2>. QED
    BY <1>1, <1>4, <2>1, SetSteady DEF IInv, Shape
<1>. HIDE DEF c
<1>6. \A x \in Slot : Fetched(c[x], icache'[x], ROOTINO)
  <2>1. CacheOk(c)
    BY <1>5, IInvCache, SteadyOk
  <2>. QED
    BY <1>3, <2>1, ConstantFacts, IgetNode
<1>7. icache'[t].inum = ROOTINO /\ t \in Slot
  BY <1>3, <1>5, ConstantFacts, IgetOn DEF Got
<1>. HIDE DEF t
<1>8. /\ pc'[p] = "walk" /\ At(p)' = "walk" /\ cur'[p] = t /\ ip'[p] = s /\ Only(p)
      /\ inum'[p] = None
  BY <1>1, <1>3 DEF At, Putting, Only, IInv, Shape
<1>9. disk \in DiskType
  BY DEF IInv, Shape
<1>. HIDE DEF i
<1>10. \A k \in Inum :
        /\ disk'[k].dir = disk[k].dir /\ disk'[k].type = disk[k].type
        /\ disk'[k].nlink = disk[k].nlink + Ind(i, k)
  <2>1. \A k \in Inum : disk[k].nlink \in Int
    BY <1>9 DEF DiskType
  <2>. QED
    BY <1>1, <1>3, <1>4, <1>9, <2>1, UpdatedAt DEF Ind
<1>11. ASSUME NEW x \in Slot
       PROVE  NodeStep(p, x)
  <2>1. Fills(p, c)
    <3>1. ASSUME NEW r \in Slot, r # s, icache[r].ref > 0
          PROVE  disk'[icache[r].inum].nlink = disk[icache[r].inum].nlink
      <4>1. icache[r].inum \in Inum /\ icache[r].inum # i
        BY <1>1, <3>1 DEF IInv, RefsExact, UseInv, i
      <4>2. disk[icache[r].inum].nlink \in Int
        BY <1>9, <4>1 DEF DiskType
      <4>. QED
        BY <1>10, <4>1, <4>2 DEF Ind
    <3>2. node.type = disk'[i].type /\ node.nlink = disk'[i].nlink
      BY <1>1, <1>4, <1>10 DEF Ind
    <3>. QED
      BY <1>1, <1>4, <1>5, <3>1, <3>2 DEF Fills, i
  <2>. QED
    BY <1>6, <1>10, <2>1, FillStep
<1>12. ASSUME NEW k \in Inum
       PROVE  InodeStep(p, k)
  <2>1. \A j \in Inum : j # i => disk'[j].nlink = disk[j].nlink
    BY <1>9, <1>10 DEF Ind, DiskType
  <2>. QED
    BY <1>1, <1>10, <2>1, FillInode
<1>13. \A x \in Slot : icache[x].ref > 0 => icache'[x].inum = icache[x].inum
  BY <1>11 DEF NodeStep
<1>14. Node(ip[p])' = i /\ Node(cur[p])' = ROOTINO
  BY <1>1, <1>7, <1>8, <1>13, ConstantFacts DEF Node, i
<1>15. LinkInv'
  <2>1. Owes(p) = None /\ Owes(p)' = i
    BY <1>1, <1>8, <1>14 DEF Owes, Linking
  <2>2. ASSUME NEW k \in Inum
        PROVE  disk'[k].nlink - disk[k].nlink >=
                 Names(disk', k) - Names(disk, k) + Subdirs(disk', k) - Subdirs(disk, k)
                 + Ind(Owes(p)', k) - Ind(Owes(p), k)
    <3>1. Names(disk', k) = Names(disk, k) /\ Subdirs(disk', k) = Subdirs(disk, k)
      BY <1>9, <1>10, SameNames
    <3>2. Names(disk, k) \in Nat /\ Subdirs(disk, k) \in Nat
      BY BoundType
    <3>3. Ind(None, k) = 0 /\ Ind(i, k) \in Int /\ disk[k].nlink \in Int
      BY <1>9, ConstantFacts DEF Ind, DiskType
    <3>. QED
      BY <1>10, <2>1, <3>1, <3>2, <3>3
  <2>. QED
    BY <1>8, <1>13, <2>2, LinkKeeps
<1>16. HolderStep(p)
  <2>1. Seen(p, Node(cur[p])')
    BY <1>10, <1>14, LinkedNodes, ConstantFacts DEF Seen
  <2>2. Seen(p, Node(ip[p])')
    BY <1>1, <1>14 DEF Seen
  <2>3. \A f \in File : Node(ftable[f].ip)' = Node(ftable[f].ip)
    BY <1>3, <1>13, HeldNode DEF HeldNodes, Node
  <2>4. LockOk(p)' /\ FreshOk(p)'
    BY <1>8, PlainLock DEF Plain, CurLocked, IpLocked, FreshOk
  <2>5. disk'[Node(ip[p])'].type # "dir"
    BY <1>1, <1>3, <1>4, <1>10, <1>14
  <2>. QED
    BY <1>8, <2>1, <2>2, <2>3, <2>4, <2>5 DEF HolderStep
<1>. QED
  BY <1>11, <1>12, <1>15, <1>16, LInvKeeps

LEMMA LinkNewLinks ==
  ASSUME IInv, IInv', LInv, NEW p \in Proc, LinkNew(p)
  PROVE  LInv'
<1>. DEFINE s == cur[p]
            m == icache[s]
            node == LockedBy(s, None)
            j == m.inum
            i == icache[ip[p]].inum
            n == Last(call[p].new)
<1>1. /\ pc[p] = "linknew" /\ At(p) = "linknew" /\ s \in Slot /\ m.lock = None /\ m.ref > 0
      /\ ip[p] \in Slot /\ j \in Inum /\ Node(cur[p]) = j /\ inum[p] = None
      /\ i \in Inum /\ Node(ip[p]) = i /\ n \in Name
  <2>1. /\ pc[p] = "linknew" /\ At(p) = "linknew" /\ s \in Slot /\ m.lock = None
        /\ ip[p] \in Slot /\ n \in Name
    BY AtFacts, LooksUp DEF LinkNew, Putting, CurPoints, IpPoints, Unlocked
  <2>2. inum[p] = None
    BY <2>1 DEF IInv, PcInv, PcOk
  <2>. QED
    BY <2>1, <2>2, HeldNode, ConstantFacts DEF HeldNodes
<1>2. /\ node \in NodeType /\ node.inum = j /\ node.ref = m.ref
      /\ node.type = disk[j].type /\ node.nlink = disk[j].nlink
  BY <1>1, LockedByHas
<1>3. /\ icache' = SetTo(icache, s, node) /\ disk' = EntrySet(disk, j, n, i)
      /\ disk[j].dir[n] = None
      /\ Put(p, <<cur[p], ip[p]>>, "idle")
      /\ ip' = [ip EXCEPT ![p] = None] /\ cur' = [cur EXCEPT ![p] = None]
      /\ UNCHANGED <<ftable, call, rest, inum>>
  BY <1>2 DEF LinkNew, SetTo, EntrySet, Entry, fileVars
<1>. HIDE DEF node
<1>4. \A x \in Slot : icache'[x] = IF x = s THEN node ELSE icache[x]
  BY <1>3 DEF SetTo, IInv, Shape, CacheType
<1>5. disk \in DiskType /\ disk' \in DiskType
  BY DEF IInv, Shape
<1>. HIDE DEF i, j, n
<1>6. \A k \in Inum :
        /\ disk'[k].type = disk[k].type /\ disk'[k].nlink = disk[k].nlink
        /\ k # j => disk'[k].dir = disk[k].dir
        /\ \A x \in Name : disk'[k].dir[x] = IF k = j /\ x = n THEN i ELSE disk[k].dir[x]
  BY <1>1, <1>3, <1>5, EntrySetAt
<1>7. /\ pc'[p] = "put" /\ then'[p] = "idle" /\ ip'[p] = None /\ cur'[p] = None /\ Only(p)
      /\ inum'[p] = None
  BY <1>1, <1>3 DEF Put, Only, IInv, Shape
<1>8. At(p)' = "idle" /\ Plain(p)
  BY <1>7 DEF At, Putting, Plain, CurLocked, IpLocked
<1>9. ASSUME NEW x \in Slot
      PROVE  NodeStep(p, x)
  <2>1. Fills(p, icache')
    <3>1. \A r \in Slot : icache[r].ref > 0 => icache[r].inum \in Inum
      BY DEF IInv, UseInv
    <3>2. node.type = disk'[j].type /\ node.nlink = disk'[j].nlink
      BY <1>1, <1>2, <1>6
    <3>. QED
      BY <1>1, <1>2, <1>4, <1>6, <3>1, <3>2 DEF Fills, j
  <2>. QED
    BY <1>6, <2>1, FillStep DEF Fetched
<1>10. ASSUME NEW k \in Inum
       PROVE  InodeStep(p, k)
  <2>1. ASSUME NEW l \in Inum
        PROVE  \/ disk'[l].dir = disk[l].dir
               \/ /\ cur[p] \in Slot /\ l = Node(cur[p]) /\ icache[cur[p]].lock \in {None, p}
                  /\ \A x \in Name :
                       disk'[l].dir[x] \in {None, disk[l].dir[x], inum[p], Node(ip[p])}
    BY <1>1, <1>6
  <2>. QED
    BY <1>6, <2>1, FillInode
<1>11. \A x \in Slot : icache[x].ref > 0 => icache'[x].inum = icache[x].inum
  BY <1>9 DEF NodeStep
<1>12. LinkInv'
  <2>1. Owes(p) = i /\ Owes(p)' = None
    BY <1>1, <1>8 DEF Owes, Linking
  <2>2. Enters(disk, disk', j, n, i)
    BY <1>6 DEF Enters
  <2>3. disk[i].type # "dir"
    BY <1>1, ConstantFacts DEF LInv, HeldInv, Linking
  <2>4. ASSUME NEW k \in Inum
        PROVE  disk'[k].nlink - disk[k].nlink >=
                 Names(disk', k) - Names(disk, k) + Subdirs(disk', k) - Subdirs(disk, k)
                 + Ind(Owes(p)', k) - Ind(Owes(p), k)
    <3>1. Names(disk', k) = Names(disk, k) - Ind(None, k) + Ind(i, k)
      BY <1>1, <1>3, <2>2, NamesStep
    <3>2. Subdirs(disk', k) = Subdirs(disk, k)
      <4>1. Sub(disk, i) = 0 /\ Sub(disk, None) = 0
        BY <2>3 DEF Sub
      <4>2. Subdirs(disk', k) = Subdirs(disk, k)
              + (IF k = j THEN Sub(disk, i) - Sub(disk, disk[j].dir[n]) ELSE 0)
        BY <1>1, <1>5, <2>2, SubdirsStep
      <4>3. Subdirs(disk, k) \in Nat
        BY BoundType
      <4>. QED
        BY <1>3, <4>1, <4>2, <4>3
    <3>3. Names(disk, k) \in Nat /\ Subdirs(disk, k) \in Nat
      BY BoundType
    <3>4. Ind(None, k) = 0 /\ Ind(i, k) \in Int /\ disk[k].nlink \in Int
      BY <1>5, ConstantFacts DEF Ind, DiskType
    <3>. QED
      BY <1>6, <2>1, <3>1, <3>2, <3>3, <3>4
  <2>. QED
    BY <1>7, <1>11, <2>4, LinkKeeps
<1>13. HolderStep(p)
  <2>1. Node(cur[p])' = None /\ Node(ip[p])' = None
    BY <1>7 DEF Node
  <2>2. \A f \in File : Node(ftable[f].ip)' = Node(ftable[f].ip)
    BY <1>3, <1>11, HeldNode DEF HeldNodes, Node
  <2>3. LockOk(p)' /\ FreshOk(p)'
    BY <1>7, <1>8, PlainLock DEF FreshOk
  <2>. QED
    BY <1>7, <2>1, <2>2, <2>3 DEF HolderStep, Seen
<1>. QED
  BY <1>9, <1>10, <1>12, <1>13, LInvKeeps

LEMMA UnlinkEntryLinks ==
  ASSUME IInv, IInv', LInv, NEW p \in Proc, UnlinkEntry(p)
  PROVE  LInv'
<1>. DEFINE s == cur[p]
            t == ip[p]
            m == icache[s]
            j == m.inum
            i == icache[t].inum
            n == Last(call[p].path)
            node == LockedBy(t, p)
            u == [m EXCEPT !.lock = None]
            K == IF node.type = "dir" THEN -1 ELSE 0
            dp == Linked(u, K)
<1>1. /\ pc[p] = "unlinkip" /\ At(p) = "unlinkip" /\ s \in Slot /\ m.ref > 0
      /\ t \in Slot /\ icache[t].lock = None /\ icache[t].ref > 0
      /\ j \in Inum /\ Node(cur[p]) = j /\ i \in Inum /\ Node(ip[p]) = i
      /\ n \in Name /\ inum[p] = None
  <2>1. /\ pc[p] = "unlinkip" /\ At(p) = "unlinkip" /\ s \in Slot /\ t \in Slot
        /\ icache[t].lock = None /\ n \in Name
    BY AtFacts, LooksUp DEF UnlinkEntry, Putting, CurPoints, IpPoints, Unlocked
  <2>2. inum[p] = None
    BY <2>1 DEF IInv, PcInv, PcOk
  <2>. QED
    BY <2>1, <2>2, HeldNode, ConstantFacts DEF HeldNodes
<1>2. Locked(s, p) /\ disk[j].dir[n] = i
  BY <1>1 DEF LInv, LockInv, LockOk, CurLocked, Entry
<1>3. s # t /\ i # j
  <2>1. s # t
    BY <1>1, <1>2, ConstantFacts DEF Locked
  <2>. QED
    BY <1>1, <2>1 DEF IInv, RefsExact
<1>4. /\ node \in NodeType /\ node.inum = i /\ node.ref = icache[t].ref
      /\ node.type = disk[i].type /\ node.nlink = disk[i].nlink
      /\ node.lock = p /\ node.valid = TRUE
  <2>1. t \in Slot /\ icache[t].ref > 0 /\ p \in Proc \cup {None}
    BY <1>1
  <2>. HIDE DEF t
  <2>. QED
    BY <2>1, LockedByHas
<1>5. /\ m \in NodeType /\ m.type = disk[j].type /\ m.nlink = disk[j].nlink /\ m.lock = p
  BY <1>1, <1>2 DEF Locked, LInv, CacheInv, IInv, Shape, CacheType
<1>6. K = - Sub(disk, i) /\ K \in Int /\ Sub(disk, i) \in {0, 1}
  BY <1>1, <1>4, ConstantFacts DEF Sub
<1>7. /\ icache' = [icache EXCEPT ![t] = node, ![s] = dp]
      /\ disk' = EntrySet(Updated(disk, dp), dp.inum, n, None)
      /\ Put(p, <<s>>, "unlinked") /\ cur' = [cur EXCEPT ![p] = None]
      /\ UNCHANGED <<ftable, call, rest, ip, inum>>
  BY DEF UnlinkEntry, EntrySet, fileVars
<1>. HIDE DEF node, K
<1>8. /\ u \in NodeType /\ u.inum = j /\ u.ref = m.ref /\ u.type = m.type
      /\ u.nlink = m.nlink /\ u.valid = m.valid
  <2>. DEFINE x == m
  <2>. HIDE DEF m
  <2>. QED
    BY <1>5, LockFields
<1>. HIDE DEF u
<1>9. /\ dp \in NodeType /\ dp.inum = j /\ dp.ref = m.ref /\ dp.type = disk[j].type
      /\ dp.nlink = disk[j].nlink + K
  BY <1>5, <1>6, <1>8, LinkedFields
<1>. HIDE DEF dp
<1>10. \A x \in Slot : icache'[x] = IF x = s THEN dp ELSE IF x = t THEN node ELSE icache[x]
  BY <1>1, <1>7 DEF IInv, Shape, CacheType
<1>11. disk \in DiskType /\ disk' \in DiskType
  BY DEF IInv, Shape
<1>. HIDE DEF m, i, j, n, s, t
<1>12. \A k \in Inum :
        /\ disk'[k].type = disk[k].type
        /\ disk'[k].nlink = disk[k].nlink + (IF k = j THEN K ELSE 0)
        /\ k # j => disk'[k].dir = disk[k].dir
        /\ \A x \in Name : disk'[k].dir[x] = IF k = j /\ x = n THEN None ELSE disk[k].dir[x]
  <2>. DEFINE e == Updated(disk, dp)
  <2>1. \A k \in Inum : disk[k].nlink \in Int
    BY <1>11 DEF DiskType
  <2>2. /\ e \in DiskType
        /\ \A k \in Inum :
             /\ e[k].dir = disk[k].dir /\ e[k].type = disk[k].type
             /\ e[k].nlink = IF k = j THEN disk[j].nlink + K ELSE disk[k].nlink
    BY <1>1, <1>9, <1>11, UpdatedAt
  <2>3. disk' = EntrySet(e, j, n, None)
    BY <1>7, <1>9
  <2>. HIDE DEF e
  <2>4. \A k \in Inum :
        /\ disk'[k].type = e[k].type /\ disk'[k].nlink = e[k].nlink
        /\ k # j => disk'[k].dir = e[k].dir
        /\ \A x \in Name : disk'[k].dir[x] = IF k = j /\ x = n THEN None ELSE e[k].dir[x]
    BY <1>1, <2>2, <2>3, EntrySetAt
  <2>. QED
    BY <1>6, <2>1, <2>2, <2>4
<1>13. /\ pc'[p] = "put" /\ then'[p] = "unlinked" /\ ip'[p] = t /\ cur'[p] = None /\ Only(p)
       /\ inum'[p] = None
  BY <1>1, <1>7 DEF Put, Only, IInv, Shape, t
<1>14. At(p)' = "unlinked"
  BY <1>13 DEF At, Putting
<1>15. ASSUME NEW x \in Slot
       PROVE  NodeStep(p, x)
  <2>1. Fills(p, icache')
    <3>1. ASSUME NEW r \in Slot, r # s, icache[r].ref > 0
          PROVE  disk'[icache[r].inum].nlink = disk[icache[r].inum].nlink
      <4>1. icache[r].inum \in Inum /\ icache[r].inum # j
        BY <1>1, <3>1 DEF IInv, RefsExact, UseInv, m, j
      <4>2. disk[icache[r].inum].nlink \in Int
        BY <1>11, <4>1 DEF DiskType
      <4>. QED
        BY <1>12, <4>1, <4>2
    <3>2. /\ dp.type = disk'[j].type /\ dp.nlink = disk'[j].nlink
          /\ node.type = disk'[i].type /\ node.nlink = disk'[i].nlink
      <4>1. disk[i].nlink \in Int
        BY <1>1, <1>11 DEF DiskType
      <4>. QED
        BY <1>1, <1>3, <1>4, <1>9, <1>12, <4>1
    <3>3. ASSUME NEW r \in Slot
          PROVE  \/ /\ icache'[r] = icache[r]
                    /\ icache[r].ref > 0 =>
                         disk'[icache[r].inum].nlink = disk[icache[r].inum].nlink
                 \/ /\ r \in {cur[p], ip[p]} /\ icache[r].lock \in {None, p}
                    /\ icache'[r].inum = icache[r].inum /\ icache'[r].ref = icache[r].ref
                    /\ icache'[r].type = disk'[icache[r].inum].type
                    /\ icache'[r].nlink = disk'[icache[r].inum].nlink
      <4>1. CASE r = s
        BY <1>5, <1>9, <1>10, <3>2, <4>1 DEF m, s, j
      <4>2. CASE r = t
        BY <1>1, <1>3, <1>4, <1>10, <3>2, <4>2 DEF t, i
      <4>3. CASE r # s /\ r # t
        BY <1>10, <3>1, <4>3
      <4>. QED
        BY <4>1, <4>2, <4>3
    <3>. QED
      BY <3>3 DEF Fills
  <2>. QED
    BY <1>12, <2>1, FillStep DEF Fetched
<1>16. ASSUME NEW k \in Inum
       PROVE  InodeStep(p, k)
  <2>1. ASSUME NEW l \in Inum
        PROVE  \/ disk'[l].dir = disk[l].dir
               \/ /\ cur[p] \in Slot /\ l = Node(cur[p]) /\ icache[cur[p]].lock \in {None, p}
                  /\ \A x \in Name :
                       disk'[l].dir[x] \in {None, disk[l].dir[x], inum[p], Node(ip[p])}
    BY <1>1, <1>5, <1>12 DEF s, m
  <2>2. \A l \in Inum : l # j => disk'[l].nlink = disk[l].nlink
    BY <1>11, <1>12 DEF DiskType
  <2>. QED
    BY <1>1, <1>12, <2>1, <2>2, FillInode
<1>17. \A x \in Slot : icache[x].ref > 0 => icache'[x].inum = icache[x].inum
  BY <1>15 DEF NodeStep
<1>18. Node(ip[p])' = i
  BY <1>1, <1>13, <1>17, ConstantFacts DEF Node, i, t
<1>19. LinkInv'
  <2>1. Owes(p) = None /\ Owes(p)' = i
    BY <1>1, <1>14, <1>18 DEF Owes, Linking
  <2>2. Enters(disk, disk', j, n, None)
    BY <1>12 DEF Enters
  <2>3. ASSUME NEW k \in Inum
        PROVE  disk'[k].nlink - disk[k].nlink >=
                 Names(disk', k) - Names(disk, k) + Subdirs(disk', k) - Subdirs(disk, k)
                 + Ind(Owes(p)', k) - Ind(Owes(p), k)
    <3>1. Names(disk', k) = Names(disk, k) - Ind(i, k) + Ind(None, k)
      BY <1>1, <1>2, <2>2, NamesStep
    <3>2. Subdirs(disk', k) = Subdirs(disk, k) + (IF k = j THEN K ELSE 0)
      <4>1. Sub(disk, None) = 0
        BY DEF Sub
      <4>2. Subdirs(disk', k) = Subdirs(disk, k)
              + (IF k = j THEN Sub(disk, None) - Sub(disk, disk[j].dir[n]) ELSE 0)
        BY <1>1, <1>11, <2>2, SubdirsStep
      <4>. QED
        BY <1>2, <1>6, <4>1, <4>2
    <3>3. Names(disk, k) \in Nat /\ Subdirs(disk, k) \in Nat
      BY BoundType
    <3>4. Ind(None, k) = 0 /\ Ind(i, k) \in Int /\ disk[k].nlink \in Int
      BY <1>11, ConstantFacts DEF Ind, DiskType
    <3>. QED
      BY <1>6, <1>12, <2>1, <3>1, <3>2, <3>3, <3>4
  <2>. QED
    BY <1>13, <1>17, <2>3, LinkKeeps
<1>20. HolderStep(p)
  <2>1. Seen(p, Node(cur[p])') /\ Seen(p, Node(ip[p])')
    BY <1>1, <1>13, <1>18 DEF Node, Seen
  <2>2. \A f \in File : Node(ftable[f].ip)' = Node(ftable[f].ip)
    BY <1>7, <1>17, HeldNode DEF HeldNodes, Node
  <2>3. LockOk(p)'
    <3>1. Locked(ip[p], p)'
      BY <1>1, <1>3, <1>4, <1>10, <1>13 DEF Locked
    <3>. QED
      BY <1>13, <1>14, <3>1 DEF LockOk, CurLocked
  <2>. QED
    BY <1>13, <1>14, <2>1, <2>2, <2>3 DEF HolderStep, Linking, FreshOk
<1>. QED
  BY <1>15, <1>16, <1>19, <1>20, LInvKeeps

LEMMA NewLockLinks ==
  ASSUME IInv, IInv', LInv, NEW p \in Proc, NewLock(p)
  PROVE  LInv'
<1>. DEFINE s == cur[p]
            t == ip[p]
            m == icache[s]
            j == m.inum
            i == icache[t].inum
            n == Last(call[p].path)
            l == LockedBy(t, p)
            node == [l EXCEPT !.nlink = 1]
            u == [m EXCEPT !.lock = None]
            K == IF call[p].op = "mkdir" THEN 1 ELSE 0
            dp == Linked(u, K)
<1>1. /\ pc[p] = "newlock" /\ At(p) = "newlock" /\ s \in Slot /\ m.ref > 0
      /\ t \in Slot /\ icache[t].lock = None /\ icache[t].ref > 0 /\ t # None
      /\ j \in Inum /\ Node(cur[p]) = j /\ i \in Inum /\ Node(ip[p]) = i
      /\ n \in Name /\ p \in Proc \cup {None}
  <2>1. /\ pc[p] = "newlock" /\ At(p) = "newlock" /\ s \in Slot /\ t \in Slot
        /\ icache[t].lock = None /\ n \in Name
    BY AtFacts, LooksUp DEF NewLock, Putting, CurPoints, IpPoints, Unlocked
  <2>. QED
    BY <2>1, HeldNode, ConstantFacts DEF HeldNodes
<1>2. Locked(s, p)
  BY <1>1 DEF LInv, LockInv, LockOk, CurLocked
<1>3. /\ inum[p] = i /\ i # j
      /\ disk[i].type # "none" /\ disk[i].nlink = 0
      /\ disk[i].type = "dir" => call[p].op = "mkdir"
  <2>1. inum[p] # None
    BY <1>1 DEF IInv, PcInv, PcOk
  <2>. QED
    BY <1>1, <2>1 DEF LInv, FreshInv, FreshOk
<1>4. s # t
  BY <1>3
<1>5. /\ l \in NodeType /\ l.inum = i /\ l.ref = icache[t].ref
      /\ l.type = disk[i].type /\ l.lock = p /\ l.valid = TRUE
  <2>1. t \in Slot /\ icache[t].ref > 0 /\ p \in Proc \cup {None}
    BY <1>1
  <2>. HIDE DEF t
  <2>. QED
    BY <2>1, LockedByHas
<1>6. /\ m \in NodeType /\ m.type = disk[j].type /\ m.nlink = disk[j].nlink /\ m.lock = p
  BY <1>1, <1>2 DEF Locked, LInv, CacheInv, IInv, Shape, CacheType
<1>7. /\ icache' = [icache EXCEPT ![t] = node, ![s] = dp]
      /\ disk' = EntrySet(Updated(Updated(disk, node), dp), dp.inum, n, inum[p])
      /\ Put(p, <<s>>, "created") /\ cur' = [cur EXCEPT ![p] = None]
      /\ inum' = [inum EXCEPT ![p] = None]
      /\ UNCHANGED <<ftable, call, rest, ip>>
  BY DEF NewLock, EntrySet, fileVars
<1>. HIDE DEF l
<1>8. /\ node \in NodeType /\ node.inum = i /\ node.ref = icache[t].ref
      /\ node.type = disk[i].type /\ node.nlink = 1 /\ node.lock = p /\ node.valid = TRUE
  BY <1>5 DEF NodeType
<1>. HIDE DEF node
<1>9. K \in {0, 1} /\ Sub(disk, i) \in {0, 1} /\ Sub(disk, i) <= K
  BY <1>3 DEF Sub
<1>. HIDE DEF K
<1>10. /\ u \in NodeType /\ u.inum = j /\ u.ref = m.ref /\ u.type = m.type
       /\ u.nlink = m.nlink /\ u.valid = m.valid
  <2>. DEFINE x == m
  <2>. HIDE DEF m
  <2>. QED
    BY <1>6, LockFields
<1>. HIDE DEF u
<1>11. /\ dp \in NodeType /\ dp.inum = j /\ dp.ref = m.ref /\ dp.type = disk[j].type
       /\ dp.nlink = disk[j].nlink + K
  BY <1>6, <1>9, <1>10, LinkedFields
<1>. HIDE DEF dp
<1>12. \A x \in Slot : icache'[x] = IF x = s THEN dp ELSE IF x = t THEN node ELSE icache[x]
  BY <1>1, <1>7 DEF IInv, Shape, CacheType
<1>13. disk \in DiskType /\ disk' \in DiskType
  BY DEF IInv, Shape
<1>. HIDE DEF m, i, j, n, s, t
<1>14. \A k \in Inum :
        /\ disk'[k].type = disk[k].type
        /\ disk'[k].nlink = disk[k].nlink + Ind(i, k) + (IF k = j THEN K ELSE 0)
        /\ k # j => disk'[k].dir = disk[k].dir
        /\ \A x \in Name : disk'[k].dir[x] = IF k = j /\ x = n THEN i ELSE disk[k].dir[x]
  <2>. DEFINE d == Updated(disk, node)
              e == Updated(d, dp)
  <2>1. \A k \in Inum : disk[k].nlink \in Int
    BY <1>13 DEF DiskType
  <2>2. /\ d \in DiskType
        /\ \A k \in Inum :
             /\ d[k].dir = disk[k].dir /\ d[k].type = disk[k].type
             /\ d[k].nlink = IF k = i THEN 1 ELSE disk[k].nlink
    BY <1>1, <1>8, <1>13, UpdatedAt
  <2>. HIDE DEF d
  <2>3. /\ e \in DiskType
        /\ \A k \in Inum :
             /\ e[k].dir = d[k].dir /\ e[k].type = IF k = j THEN disk[j].type ELSE d[k].type
             /\ e[k].nlink = IF k = j THEN disk[j].nlink + K ELSE d[k].nlink
    BY <1>1, <1>11, <2>2, UpdatedAt
  <2>4. disk' = EntrySet(e, j, n, i)
    BY <1>3, <1>7, <1>11 DEF d
  <2>. HIDE DEF e
  <2>5. \A k \in Inum :
        /\ disk'[k].type = e[k].type /\ disk'[k].nlink = e[k].nlink
        /\ k # j => disk'[k].dir = e[k].dir
        /\ \A x \in Name : disk'[k].dir[x] = IF k = j /\ x = n THEN i ELSE e[k].dir[x]
    BY <1>1, <2>3, <2>4, EntrySetAt
  <2>6. ASSUME NEW k \in Inum
        PROVE  disk'[k].nlink = disk[k].nlink + Ind(i, k) + (IF k = j THEN K ELSE 0)
    BY <1>3, <1>9, <2>1, <2>2, <2>3, <2>5 DEF Ind
  <2>. QED
    BY <2>2, <2>3, <2>5, <2>6
<1>15. /\ pc'[p] = "put" /\ then'[p] = "created" /\ ip'[p] = t /\ cur'[p] = None /\ Only(p)
       /\ inum'[p] = None
  BY <1>7 DEF Put, Only, IInv, Shape, t
<1>16. At(p)' = "created"
  BY <1>15 DEF At, Putting
<1>17. ASSUME NEW x \in Slot
       PROVE  NodeStep(p, x)
  <2>1. Fills(p, icache')
    <3>1. ASSUME NEW r \in Slot, r # s, r # t, icache[r].ref > 0
          PROVE  disk'[icache[r].inum].nlink = disk[icache[r].inum].nlink
      <4>1. icache[r].inum \in Inum /\ icache[r].inum # j /\ icache[r].inum # i
        BY <1>1, <3>1 DEF IInv, RefsExact, UseInv, m, j, i
      <4>2. disk[icache[r].inum].nlink \in Int
        BY <1>13, <4>1 DEF DiskType
      <4>. QED
        BY <1>14, <4>1, <4>2 DEF Ind
    <3>2. /\ dp.type = disk'[j].type /\ dp.nlink = disk'[j].nlink
          /\ node.type = disk'[i].type /\ node.nlink = disk'[i].nlink
      <4>1. disk[j].nlink \in Int
        BY <1>1, <1>13 DEF DiskType
      <4>. QED
        BY <1>1, <1>3, <1>8, <1>9, <1>11, <1>14, <4>1 DEF Ind
    <3>3. ASSUME NEW r \in Slot
          PROVE  \/ /\ icache'[r] = icache[r]
                    /\ icache[r].ref > 0 =>
                         disk'[icache[r].inum].nlink = disk[icache[r].inum].nlink
                 \/ /\ r \in {cur[p], ip[p]} /\ icache[r].lock \in {None, p}
                    /\ icache'[r].inum = icache[r].inum /\ icache'[r].ref = icache[r].ref
                    /\ icache'[r].type = disk'[icache[r].inum].type
                    /\ icache'[r].nlink = disk'[icache[r].inum].nlink
      <4>1. CASE r = s
        BY <1>6, <1>11, <1>12, <3>2, <4>1 DEF m, s, j
      <4>2. CASE r = t
        BY <1>1, <1>4, <1>8, <1>12, <3>2, <4>2 DEF t, i
      <4>3. CASE r # s /\ r # t
        BY <1>12, <3>1, <4>3
      <4>. QED
        BY <4>1, <4>2, <4>3
    <3>. QED
      BY <3>3 DEF Fills
  <2>. QED
    BY <1>14, <2>1, FillStep DEF Fetched
<1>18. ASSUME NEW k \in Inum
       PROVE  InodeStep(p, k)
  <2>1. ASSUME NEW r \in Inum
        PROVE  \/ disk'[r].dir = disk[r].dir
               \/ /\ cur[p] \in Slot /\ r = Node(cur[p]) /\ icache[cur[p]].lock \in {None, p}
                  /\ \A x \in Name :
                       disk'[r].dir[x] \in {None, disk[r].dir[x], inum[p], Node(ip[p])}
    BY <1>1, <1>6, <1>14 DEF s, m
  <2>2. \A r \in Inum : r # j /\ r # i => disk'[r].nlink = disk[r].nlink
    BY <1>13, <1>14 DEF DiskType, Ind
  <2>. QED
    BY <1>1, <1>14, <2>1, <2>2, FillInode
<1>19. \A x \in Slot : icache[x].ref > 0 => icache'[x].inum = icache[x].inum
  BY <1>17 DEF NodeStep
<1>20. Node(ip[p])' = i
  BY <1>1, <1>15, <1>19 DEF Node, i, t
<1>21. LinkInv'
  <2>1. Owes(p) = None /\ Owes(p)' = None
    BY <1>1, <1>16 DEF Owes, Linking
  <2>2. Enters(disk, disk', j, n, i)
    BY <1>14 DEF Enters
  <2>3. ASSUME NEW k \in Inum
        PROVE  disk'[k].nlink - disk[k].nlink >=
                 Names(disk', k) - Names(disk, k) + Subdirs(disk', k) - Subdirs(disk, k)
                 + Ind(Owes(p)', k) - Ind(Owes(p), k)
    <3>. DEFINE old == disk[j].dir[n]
    <3>1. Names(disk', k) = Names(disk, k) - Ind(old, k) + Ind(i, k)
      BY <1>1, <2>2, NamesStep
    <3>2. Subdirs(disk', k) = Subdirs(disk, k)
            + (IF k = j THEN Sub(disk, i) - Sub(disk, old) ELSE 0)
      BY <1>1, <1>13, <2>2, SubdirsStep
    <3>3. Names(disk, k) \in Nat /\ Subdirs(disk, k) \in Nat
      BY BoundType
    <3>4. /\ Ind(old, k) \in {0, 1} /\ Sub(disk, old) \in {0, 1}
          /\ Ind(i, k) \in {0, 1} /\ disk[k].nlink \in Int
      BY <1>13 DEF Ind, Sub, DiskType
    <3>5. Ind(Owes(p)', k) = 0 /\ Ind(Owes(p), k) = 0
      BY <2>1, ConstantFacts DEF Ind
    <3>. HIDE DEF old
    <3>6. disk'[k].nlink = disk[k].nlink + Ind(i, k) + (IF k = j THEN K ELSE 0)
      BY <1>14
    <3>7. CASE k = j
      BY <1>9, <3>1, <3>2, <3>3, <3>4, <3>5, <3>6, <3>7
    <3>8. CASE k # j
      BY <3>1, <3>2, <3>3, <3>4, <3>5, <3>6, <3>8
    <3>. QED
      BY <3>7, <3>8
  <2>. QED
    BY <1>15, <1>19, <2>3, LinkKeeps
<1>22. HolderStep(p)
  <2>1. Seen(p, Node(cur[p])') /\ Seen(p, Node(ip[p])')
    BY <1>1, <1>15, <1>20 DEF Node, Seen
  <2>2. \A f \in File : Node(ftable[f].ip)' = Node(ftable[f].ip)
    BY <1>7, <1>19, HeldNode DEF HeldNodes, Node
  <2>3. LockOk(p)'
    <3>1. Locked(ip[p], p)'
      BY <1>1, <1>4, <1>8, <1>12, <1>15 DEF Locked
    <3>. QED
      BY <1>15, <1>16, <3>1 DEF LockOk, CurLocked
  <2>. QED
    BY <1>15, <1>16, <2>1, <2>2, <2>3 DEF HolderStep, Linking, FreshOk
<1>. QED
  BY <1>17, <1>18, <1>21, <1>22, LInvKeeps

-----------------------------------------------------------------------------
(* Links are right in every state.                                         *)

LEMMA LInvInit == Init => LInv
<1>. SUFFICES ASSUME Init PROVE LInv
  OBVIOUS
<1>1. \A i \in Inum :
        /\ disk[i].type # "none" <=> i = ROOTINO
        /\ disk[i].nlink = Ind(i, ROOTINO)
        /\ \A n \in Name : disk[i].dir[n] = None
  BY DEF Init, NoEntries, Ind
<1>2. \A p \in Proc :
        /\ cur[p] = None /\ ip[p] = None /\ inum[p] = None
        /\ pc[p] = "idle" /\ At(p) = "idle" /\ Owes(p) = None
  BY DEF Init, At, Putting, Owes, Linking
<1>3. \A f \in File : ftable[f].ip = None
  BY DEF Init
<1>4. LinkInv
  <2>1. ASSUME NEW i \in Inum
        PROVE  disk[i].nlink >= Bound(disk, Owed, i)
    <3>1. Names(disk, i) = 0
      <4>1. {x \in Inum \X Name : disk[x[1]].dir[x[2]] = i} = {}
        <5>1. ASSUME NEW x \in Inum \X Name
              PROVE  disk[x[1]].dir[x[2]] # i
          <6>1. x[1] \in Inum /\ x[2] \in Name
            OBVIOUS
          <6>. QED
            BY <1>1, <6>1, ConstantFacts
        <5>. QED
          BY <5>1
      <4>. QED
        BY <4>1, FS_EmptySet DEF Names
    <3>2. Subdirs(disk, i) = 0
      <4>1. {n \in Name : IsSubdir(disk, i, n)} = {}
        BY <1>1 DEF IsSubdir
      <4>. QED
        BY <4>1, FS_EmptySet DEF Subdirs
    <3>3. Count(Owed, Proc, i) = 0
      <4>1. {p \in Proc : Owed[p] = i} = {}
        BY <1>2, ConstantFacts DEF Owed
      <4>. QED
        BY <4>1, FS_EmptySet DEF Count
    <3>4. Ind(i, ROOTINO) \in Nat
      BY DEF Ind
    <3>. QED
      BY <1>1, <3>1, <3>2, <3>3, <3>4 DEF Bound
  <2>. QED
    BY <2>1 DEF LinkInv
<1>5. HeldInv
  BY <1>1, <1>2, <1>3, ConstantFacts DEF HeldInv
<1>6. CacheInv
  BY ConstantFacts DEF CacheInv, Init
<1>7. LockInv
  BY <1>2 DEF LockInv, LockOk, CurLocked, IpLocked, Putting
<1>8. FreshInv
  BY <1>2 DEF FreshInv, FreshOk
<1>. QED
  BY <1>4, <1>5, <1>6, <1>7, <1>8 DEF LInv

LEMMA StepLinks ==
  ASSUME IInv, IInv', LInv, NEW p \in Proc, Step(p)
  PROVE  LInv'
<1>1. CASE WalkRoot(p) \/ WalkParent(p) \/ WalkFail(p) \/ WalkDown(p)
  BY <1>1, WalkRootLinks, WalkParentLinks, WalkFailLinks, WalkDownLinks
<1>2. CASE PutLock(p) \/ PutFree(p)
  BY <1>2, PutLockLinks, PutFreeLinks
<1>3. CASE PutDrop(p) \/ PutRoot(p)
  BY <1>3, DropLinks DEF PutDrop, PutRoot, Putting
<1>4. CASE Open(p) \/ CreateOld(p) \/ CreateOldLock(p)
  BY <1>4, OpenLinks, CreateOldLinks, CreateOldLockLinks
<1>5. CASE CreateNew(p) \/ Ialloc(p) \/ NewGet(p) \/ NewLock(p) \/ Created(p)
  BY <1>5, CreateNewLinks, IallocLinks, NewGetLinks, NewLockLinks, CreatedLinks
<1>6. CASE UnlinkNone(p) \/ UnlinkFound(p) \/ UnlinkEntry(p)
  BY <1>6, UnlinkNoneLinks, UnlinkFoundLinks, UnlinkEntryLinks
<1>7. CASE UnlinkRefuse(p) \/ UnlinkBad(p) \/ Unlinked(p)
  BY <1>7, UnlinkRefuseLinks, UnlinkBadLinks, UnlinkedLinks
<1>8. CASE LinkRefuse(p) \/ LinkOld(p) \/ LinkNew(p)
  BY <1>8, LinkRefuseLinks, LinkOldLinks, LinkNewLinks
<1>9. CASE LinkExists(p) \/ LinkFound(p) \/ LinkBad(p)
  BY <1>9, LinkExistsLinks, LinkFoundLinks, LinkBadLinks
<1>. QED
  BY <1>1, <1>2, <1>3, <1>4, <1>5, <1>6, <1>7, <1>8, <1>9 DEF Step

LEMMA LInvNext == IInv /\ IInv' /\ LInv /\ [Next]_vars => LInv'
<1>. SUFFICES ASSUME IInv, IInv', LInv, [Next]_vars PROVE LInv'
  OBVIOUS
<1>1. CASE Next
  <2>1. PICK p \in Proc :
          \/ Step(p)
          \/ \E c \in Call : Begin(p, c)
          \/ \E d \in Fd : Close(p, d)
          \/ \E q \in Proc : Fork(p, q)
    BY <1>1 DEF Next
  <2>. QED
    BY <2>1, StepLinks, BeginLinks, CloseLinks, ForkLinks
<1>2. CASE UNCHANGED vars
  <2>1. /\ disk' = disk /\ icache' = icache /\ ftable' = ftable /\ ofile' = ofile
        /\ pc' = pc /\ call' = call /\ rest' = rest /\ cur' = cur /\ ip' = ip
        /\ inum' = inum /\ puts' = puts /\ then' = then
    BY <1>2 DEF vars, diskVars, fileVars, walkVars, putVars
  <2>2. \A p \in Proc : /\ At(p)' = At(p) /\ Owes(p)' = Owes(p)
                        /\ Node(cur[p])' = Node(cur[p]) /\ Node(ip[p])' = Node(ip[p])
    BY <2>1 DEF At, Owes, Node
  <2>3. \A f \in File : Node(ftable[f].ip)' = Node(ftable[f].ip)
    BY <2>1 DEF Node
  <2>4. LinkInv'
    <3>1. Owed' = Owed
      BY <2>2 DEF Owed
    <3>. QED
      BY <2>1, <3>1 DEF LInv, LinkInv, Bound, Names, Subdirs, IsSubdir, Count
  <2>5. HeldInv' /\ CacheInv'
    BY <2>1, <2>2, <2>3 DEF LInv, HeldInv, CacheInv
  <2>6. LockInv'
    BY <2>1, <2>2 DEF LInv, LockInv, LockOk, Locked, Entry
  <2>7. FreshInv'
    BY <2>1, <2>2, <2>3 DEF LInv, FreshInv, FreshOk
  <2>. QED
    BY <2>4, <2>5, <2>6, <2>7 DEF LInv
<1>. QED
  BY <1>1, <1>2

\* What an entry, an open file or a call points at is allocated and has a link
\* for every entry, and the cache holds what is on the disk, while create(),
\* sys_link(), sys_unlink() and iput() of any number of processes create,
\* remove and free inodes and recycle the slots of the cache.
THEOREM InodesCorrect == Spec => []InodesLive
<1>1. IInv /\ LInv => InodesLive
  <2>. SUFFICES ASSUME IInv, LInv PROVE InodesLive
    OBVIOUS
  <2>1. ASSUME NEW i \in Inum, Entries(i) # {}
        PROVE  disk[i].type # "none" /\ disk[i].nlink >= Cardinality(Entries(i))
    <3>1. PICK x \in Inum \X Name : disk[x[1]].dir[x[2]] = i
      BY <2>1 DEF Entries
    <3>2. disk[i].type # "none"
      <4>1. x[1] \in Inum /\ x[2] \in Name
        OBVIOUS
      <4>. QED
        BY <3>1, <4>1, ConstantFacts DEF LInv, HeldInv
    <3>3. Cardinality(Entries(i)) = Names(disk, i)
      BY DEF Entries, Names
    <3>4. /\ Ind(i, ROOTINO) \in Nat /\ Names(disk, i) \in Nat
          /\ Subdirs(disk, i) \in Nat /\ Count(Owed, Proc, i) \in Nat
      BY BoundType
    <3>5. disk[i].nlink >= Bound(disk, Owed, i) /\ disk[i].nlink \in Int
      BY DEF LInv, LinkInv, IInv, Shape, DiskType
    <3>. QED
      BY <3>2, <3>3, <3>4, <3>5 DEF Bound
  <2>2. ASSUME NEW s \in Slot,
               (\E f \in File : ftable[f].ip = s) \/ (\E p \in Proc : s \in {cur[p], ip[p]})
        PROVE  disk[icache[s].inum].type # "none"
    <3>1. Node(s) = icache[s].inum /\ s # None
      BY ConstantFacts DEF Node
    <3>. QED
      BY <2>2, <3>1 DEF LInv, HeldInv
  <2>3. \A s \in Slot : icache[s].ref > 0 /\ icache[s].valid =>
          /\ icache[s].type = disk[icache[s].inum].type
          /\ icache[s].nlink = disk[icache[s].inum].nlink
    BY DEF LInv, CacheInv
  <2>. QED
    BY <2>1, <2>2, <2>3 DEF InodesLive
<1>. QED
  BY IInvInit, IInvNext, LInvInit, LInvNext, <1>1, PTL DEF Spec

\* The link count of an inode covers its names, its subdirectories, the calls
\* of sys_link() and sys_unlink() that owe it a link and, for the root, one more,
\* so that iput() never meets a root without links.
THEOREM LinksCorrect == Spec => []LinkInv
<1>1. LInv => LinkInv
  BY DEF LInv
<1>. QED
  BY IInvInit, IInvNext, LInvInit, LInvNext, <1>1, PTL DEF Spec

\* iput() decides under icache.lock that it has the last reference to an inode
\* without links, and frees it after that lock is given up: when it does, no
\* entry, no call and no open file has the inode, and no other slot caches it.
FreesUnused ==
  \A p \in Proc : pc[p] = "putfree" =>
    LET s == Head(puts[p])
        i == icache[s].inum
    IN
    /\ icache[s].ref = 1 /\ disk[i].nlink = 0 /\ Unused(i)
    /\ \A t \in Slot : icache[t].ref > 0 /\ icache[t].inum = i => t = s

\* iput() frees only what nothing uses, whatever runs between its two sections.
THEOREM FreesCorrect == Spec => []FreesUnused
<1>1. IInv /\ LInv => FreesUnused
  <2>. SUFFICES ASSUME IInv, LInv, NEW p \in Proc, pc[p] = "putfree", NEW s, s = Head(puts[p])
               PROVE  /\ icache[s].ref = 1 /\ disk[icache[s].inum].nlink = 0
                      /\ Unused(icache[s].inum)
                      /\ \A t \in Slot :
                           icache[t].ref > 0 /\ icache[t].inum = icache[s].inum => t = s
    BY DEF FreesUnused
  <2>1. s \in Slot
    BY PutFacts DEF Putting
  <2>. QED
    BY <2>1, FreeUnused
<1>. QED
  BY IInvInit, IInvNext, LInvInit, LInvNext, <1>1, PTL DEF Spec

\* Every variable has its type; no reference count and no link count goes
\* below zero, on the disk or in the cache.
THEOREM TypeCorrect == Spec => []TypeOK
<1>1. IInv /\ LInv => TypeOK
  <2>. SUFFICES ASSUME IInv, LInv PROVE TypeOK
    OBVIOUS
  <2>1. disk \in [Inum -> [type : Type, nlink : Nat, dir : [Name -> Inum \cup {None}]]]
    <3>1. disk \in DiskType
      BY DEF IInv, Shape
    <3>2. \A i \in Inum : disk[i].nlink \in Nat
      BY <3>1, LinkFacts DEF LInv
    <3>3. \A i \in Inum :
            disk[i] \in [type : Type, nlink : Nat, dir : [Name -> Inum \cup {None}]]
      BY <3>1, <3>2 DEF DiskType
    <3>. QED
      BY <3>1, <3>3 DEF DiskType
  <2>2. icache \in [Slot -> [inum : Inum \cup {None}, ref : Nat, valid : BOOLEAN,
                             type : Type, nlink : Nat, lock : Proc \cup {None}]]
    <3>1. icache \in CacheType
      BY DEF IInv, Shape
    <3>2. ASSUME NEW s \in Slot
          PROVE  icache[s] \in [inum : Inum \cup {None}, ref : Nat, valid : BOOLEAN,
                                type : Type, nlink : Nat, lock : Proc \cup {None}]
      <4>1. icache[s] \in NodeType
        BY <3>1 DEF CacheType
      <4>2. icache[s].ref \in Nat
        BY HeldRef DEF IInv
      <4>3. icache[s].nlink \in Int /\ icache[s].nlink >= 0
        BY <4>1 DEF NodeType, LInv, CacheInv
      <4>. QED
        BY <4>1, <4>2, <4>3 DEF NodeType
    <3>. QED
      BY <3>1, <3>2 DEF CacheType
  <2>3. ftable \in [File -> [ref : Nat, ip : Slot \cup {None}]]
    <3>1. ftable \in [File -> [ref : Int, ip : Slot \cup {None}]]
      BY DEF IInv, Shape
    <3>2. ASSUME NEW f \in File
          PROVE  ftable[f].ref \in Nat
      <4>1. ftable[f].ref = Cardinality({x \in Proc \X Fd : ofile[x[1]][x[2]] = f})
        BY DEF IInv, RefsExact
      <4>2. IsFiniteSet({x \in Proc \X Fd : ofile[x[1]][x[2]] = f})
        BY ConstantFacts, FS_Product, FS_Subset
      <4>. QED
        BY <4>1, <4>2, FS_CardinalityType
    <3>3. \A f \in File : ftable[f] \in [ref : Nat, ip : Slot \cup {None}]
      BY <3>1, <3>2
    <3>. QED
      BY <3>1, <3>3
  <2>. QED
    BY <2>1, <2>2, <2>3 DEF TypeOK, IInv, Shape, Type
<1>. QED
  BY IInvInit, IInvNext, LInvInit, LInvNext, <1>1, PTL DEF Spec
=============================================================================
