----------------------------- MODULE FilesProofs -----------------------------
(***************************************************************************)
(* Proofs about Files, for any number of processes, inodes, cache slots,   *)
(* files and descriptors: reference counts are exact.                      *)
(***************************************************************************)
EXTENDS Files, FiniteSetTheorems, WellFoundedInduction, TLAPS

Putting == {"put", "putfree", "putdrop"}

\* Where p is in its call, the calls of iput() on the way left out
At(p) == IF pc[p] \in Putting THEN then[p] ELSE pc[p]

CurPoints == {"walk", "open", "create", "ialloc", "newget", "newlock", "unlink",
              "unlinkip", "unlinkbad", "linkold", "linknew", "linkfound"}

IpPoints == {"createold", "newlock", "created", "unlinkip", "unlinked",
             "linknew", "linkfound", "linkbad"}

\* Where a process stands says which references it holds.
PcOk(p) ==
  /\ then[p] \notin Putting
  /\ pc[p] \notin Putting => puts[p] = <<>>
  /\ pc[p] \in Putting => Len(puts[p]) \in 1 .. 2
  /\ cur[p] # None <=> At(p) \in CurPoints
  /\ At(p) = "walk" /\ ip[p] # None => call[p].op = "link"
  /\ At(p) = "linkold" => call[p].op = "link"
  /\ At(p) # "walk" => (ip[p] # None <=> At(p) \in IpPoints)
  /\ inum[p] # None <=> At(p) \in {"newget", "newlock"}
  /\ At(p) # "idle" => call[p] \in Call
  /\ At(p) = "walk" /\ rest[p] # <<>> /\ ip[p] = None => call[p].path # <<>>
  /\ At(p) = "walk" /\ rest[p] # <<>> /\ ip[p] # None => call[p].new # <<>>
  /\ At(p) \in {"create", "ialloc", "newget", "newlock", "unlink", "unlinkip"}
       => call[p].path # <<>>
  /\ At(p) = "linknew" => call[p].new # <<>>

PcInv == \A p \in Proc : PcOk(p)

Type == {"none", "dir", "file"}

\* TypeOK, without the bound on the counts that RefsExact gives and that on the
\* link counts.
NodeType == [inum : Inum \cup {None}, ref : Int, valid : BOOLEAN,
             type : Type, nlink : Int, lock : Proc \cup {None}]
CacheType == [Slot -> NodeType]
DiskType == [Inum -> [type : Type, nlink : Int, dir : [Name -> Inum \cup {None}]]]

Shape ==
  /\ disk \in DiskType
  /\ icache \in CacheType
  /\ ftable \in [File -> [ref : Int, ip : Slot \cup {None}]]
  /\ ofile \in [Proc -> [Fd -> File \cup {None}]]
  /\ pc \in [Proc -> Point]
  /\ call \in [Proc -> Call \cup {None}]
  /\ rest \in [Proc -> Seq(Name)]
  /\ cur \in [Proc -> Slot \cup {None}]
  /\ ip \in [Proc -> Slot \cup {None}]
  /\ inum \in [Proc -> Inum \cup {None}]
  /\ puts \in [Proc -> Seq(Slot)]
  /\ then \in [Proc -> Point]

\* A file in use has an inode, and a slot in use an inode number.
UseInv ==
  /\ \A s \in Slot : icache[s].ref > 0 => icache[s].inum \in Inum
  /\ \A f \in File : ftable[f].ref > 0 <=> ftable[f].ip # None

IInv == Shape /\ PcInv /\ UseInv /\ RefsExact

-----------------------------------------------------------------------------
(* Counting.                                                               *)

Ind(x, y) == IF x = y THEN 1 ELSE 0

Count(f, S, y) == Cardinality({z \in S : f[z] = y})

\* g is f but for its value v at x.
Moves(f, g, S, x, v) == \A z \in S : g[z] = IF z = x THEN v ELSE f[z]

LEMMA ConstantFacts ==
  /\ None \notin Slot /\ None \notin File /\ None \notin Inum /\ None \notin Proc
  /\ IsFiniteSet(Proc) /\ IsFiniteSet(Slot) /\ IsFiniteSet(File)
  /\ IsFiniteSet(Fd) /\ IsFiniteSet(Inum)
  /\ Cardinality(Slot) = NINODE /\ Cardinality(Inum) = NINODES /\ NINODE >= NINODES
  /\ 1 \in Slot /\ ROOTINO \in Inum
  /\ \A s \in Slot : s \in Nat
  /\ \A f \in File : f \in Nat
  /\ \A d \in Fd : d \in Nat
<1>1. \A n \in Nat : IsFiniteSet(1 .. n) /\ Cardinality(1 .. n) = n
  <2>. TAKE n \in Nat
  <2>1. /\ IsFiniteSet(1 .. n)
        /\ Cardinality(1 .. n) = IF 1 > n THEN 0 ELSE n - 1 + 1
    BY FS_Interval
  <2>. QED
    BY <2>1
<1>2. /\ IsFiniteSet(Slot) /\ IsFiniteSet(File) /\ IsFiniteSet(Fd) /\ IsFiniteSet(Inum)
      /\ Cardinality(Slot) = NINODE /\ Cardinality(Inum) = NINODES
  BY <1>1, FilesAssumption DEF Slot, File, Fd, Inum
<1>. QED
  BY <1>2, FilesAssumption DEF Slot, Inum, File, Fd, ROOTINO

\* Changing a function at one argument moves one from the count of the old
\* value to that of the new.
LEMMA CountStep ==
  ASSUME NEW S, IsFiniteSet(S), NEW f, NEW g, NEW x \in S, NEW v, NEW y,
         Moves(f, g, S, x, v)
  PROVE  /\ Count(f, S, y) \in Nat
         /\ Count(g, S, y) = Count(f, S, y) - Ind(f[x], y) + Ind(v, y)
<1>. DEFINE A == {z \in S : f[z] = y}
            B == {z \in S : g[z] = y}
<1>1. IsFiniteSet(A) /\ Cardinality(A) \in Nat
  BY FS_Subset, FS_CardinalityType
<1>2. \A z \in S : g[z] = IF z = x THEN v ELSE f[z]
  BY DEF Moves
<1>3. f[x] = y /\ v = y => B = A
  BY <1>2
<1>4. f[x] # y /\ v # y => B = A
  BY <1>2
<1>5. f[x] = y /\ v # y => Cardinality(B) = Cardinality(A) - 1
  <2>1. f[x] = y /\ v # y => B = A \ {x} /\ x \in A
    BY <1>2
  <2>. QED
    BY <1>1, <2>1, FS_RemoveElement
<1>6. f[x] # y /\ v = y => Cardinality(B) = Cardinality(A) + 1
  <2>1. f[x] # y /\ v = y => B = A \cup {x} /\ x \notin A
    BY <1>2
  <2>. QED
    BY <1>1, <2>1, FS_AddElement
<1>7. Cardinality(B) = Cardinality(A) - Ind(f[x], y) + Ind(v, y)
  <2>. HIDE DEF A, B
  <2>. QED
    BY <1>1, <1>3, <1>4, <1>5, <1>6 DEF Ind
<1>. QED
  BY <1>1, <1>7 DEF Count

LEMMA CountType ==
  ASSUME NEW S, IsFiniteSet(S), NEW f, NEW y
  PROVE  /\ Count(f, S, y) \in Nat
         /\ \A x \in S : f[x] = y => Count(f, S, y) > 0
<1>. DEFINE A == {z \in S : f[z] = y}
<1>1. IsFiniteSet(A) /\ Cardinality(A) \in Nat
  BY FS_Subset, FS_CardinalityType
<1>2. A # {} => Cardinality(A) # 0
  BY <1>1, FS_EmptySet
<1>. QED
  BY <1>1, <1>2 DEF Count

-----------------------------------------------------------------------------
(* References.                                                             *)

Refs(f, s) == Count(f, Proc, s)

FileRefs(ft, s) == Cardinality({f \in File : ft[f].ip = s})

PutRefs(pu, s) ==
  Cardinality({x \in Proc \X (1 .. 2) : x[2] \in DOMAIN pu[x[1]] /\ pu[x[1]][x[2]] = s})

FdRefs(of, f) == Cardinality({x \in Proc \X Fd : of[x[1]][x[2]] = f})

Cwds(s) == IF s = 1 THEN Cardinality(Proc) ELSE 0

Unique(ic) ==
  \A s, t \in Slot : ic[s].ref > 0 /\ ic[t].ref > 0 /\ ic[s].inum = ic[t].inum => s = t

LEMMA RefsForm ==
  RefsExact <=>
    /\ Unique(icache)
    /\ \A s \in Slot : icache[s].ref = Cwds(s) + FileRefs(ftable, s) + Refs(cur, s)
                                       + Refs(ip, s) + PutRefs(puts, s)
    /\ \A f \in File : ftable[f].ref = FdRefs(ofile, f)
BY DEF RefsExact, Unique, Cwds, FileRefs, Refs, PutRefs, FdRefs, Count

PutAt(q, k) == IF k \in DOMAIN q THEN q[k] ELSE None

\* The references a process holds to slot s
Held(c, i, q, s) == Ind(c, s) + Ind(i, s) + Ind(PutAt(q, 1), s) + Ind(PutAt(q, 2), s)

LEMMA PutRefsStep ==
  ASSUME NEW pu, NEW pv, NEW p \in Proc, NEW q, NEW s \in Slot,
         Moves(pu, pv, Proc, p, q)
  PROVE  /\ PutRefs(pu, s) \in Nat
         /\ PutRefs(pv, s) = PutRefs(pu, s)
              - Ind(PutAt(pu[p], 1), s) - Ind(PutAt(pu[p], 2), s)
              + Ind(PutAt(q, 1), s) + Ind(PutAt(q, 2), s)
<1>. DEFINE S == Proc \X (1 .. 2)
            F == [x \in S |-> PutAt(pu[x[1]], x[2])]
            G == [F EXCEPT ![<<p, 1>>] = PutAt(q, 1)]
            H == [G EXCEPT ![<<p, 2>>] = PutAt(q, 2)]
<1>1. IsFiniteSet(S)
  <2>1. IsFiniteSet(1 .. 2)
    <3>1. 1 \in Int /\ 2 \in Int
      OBVIOUS
    <3>. QED
      BY <3>1, FS_Interval
  <2>. QED
    BY <2>1, ConstantFacts, FS_Product
<1>2. <<p, 1>> \in S /\ <<p, 2>> \in S /\ <<p, 1>> # <<p, 2>>
  OBVIOUS
<1>3. \A x \in S : F[x] = PutAt(pu[x[1]], x[2])
  OBVIOUS
<1>4. \A x \in S : H[x] = PutAt(pv[x[1]], x[2])
  <2>. TAKE x \in S
  <2>1. x[1] \in Proc /\ x[2] \in {1, 2} /\ x = <<x[1], x[2]>>
    OBVIOUS
  <2>2. pv[x[1]] = IF x[1] = p THEN q ELSE pu[x[1]]
    BY <2>1 DEF Moves
  <2>3. CASE x = <<p, 1>>
    <3>1. H[x] = PutAt(q, 1) /\ x[1] = p /\ x[2] = 1
      BY <1>2, <2>3
    <3>. QED
      BY <2>2, <3>1
  <2>4. CASE x = <<p, 2>>
    <3>1. H[x] = PutAt(q, 2) /\ x[1] = p /\ x[2] = 2
      BY <1>2, <2>4
    <3>. QED
      BY <2>2, <3>1
  <2>5. CASE x # <<p, 1>> /\ x # <<p, 2>>
    <3>1. H[x] = F[x] /\ x[1] # p
      BY <2>1, <2>5
    <3>. QED
      BY <1>3, <2>2, <3>1
  <2>. QED
    BY <2>3, <2>4, <2>5
<1>5. \A o, k : PutAt(o, k) = s <=> k \in DOMAIN o /\ o[k] = s
  BY ConstantFacts DEF PutAt
<1>6. PutRefs(pu, s) = Count(F, S, s) /\ PutRefs(pv, s) = Count(H, S, s)
  <2>1. {x \in S : x[2] \in DOMAIN pu[x[1]] /\ pu[x[1]][x[2]] = s} = {x \in S : F[x] = s}
    BY <1>3, <1>5
  <2>2. {x \in S : x[2] \in DOMAIN pv[x[1]] /\ pv[x[1]][x[2]] = s} = {x \in S : H[x] = s}
    <3>. HIDE DEF S, H
    <3>. QED
      BY <1>4, <1>5
  <2>. QED
    BY <2>1, <2>2 DEF PutRefs, Count
<1>7. F[<<p, 1>>] = PutAt(pu[p], 1) /\ G[<<p, 2>>] = PutAt(pu[p], 2)
  BY <1>2
<1>8. Moves(F, G, S, <<p, 1>>, PutAt(q, 1))
  BY DEF Moves
<1>9. Moves(G, H, S, <<p, 2>>, PutAt(q, 2))
  BY DEF Moves
<1>. HIDE DEF S, F, G, H
<1>10. /\ Count(F, S, s) \in Nat
       /\ Count(G, S, s) = Count(F, S, s) - Ind(PutAt(pu[p], 1), s) + Ind(PutAt(q, 1), s)
  BY <1>1, <1>2, <1>7, <1>8, CountStep
<1>11. /\ Count(G, S, s) \in Nat
       /\ Count(H, S, s) = Count(G, S, s) - Ind(PutAt(pu[p], 2), s) + Ind(PutAt(q, 2), s)
  BY <1>1, <1>2, <1>7, <1>9, CountStep
<1>12. \A x, y : Ind(x, y) \in Int
  BY DEF Ind
<1>. QED
  BY <1>6, <1>10, <1>11, <1>12

LEMMA RefsStep ==
  ASSUME NEW f, NEW g, NEW p \in Proc, NEW v, NEW s \in Slot,
         Moves(f, g, Proc, p, v)
  PROVE  /\ Refs(f, s) \in Nat
         /\ Refs(g, s) = Refs(f, s) - Ind(f[p], s) + Ind(v, s)
BY CountStep, ConstantFacts DEF Refs

LEMMA FileRefsStep ==
  ASSUME NEW f \in File, NEW r, NEW s \in Slot, NEW ft, Moves(ftable, ft, File, f, r)
  PROVE  /\ FileRefs(ftable, s) \in Nat
         /\ FileRefs(ft, s) = FileRefs(ftable, s) - Ind(ftable[f].ip, s) + Ind(r.ip, s)
<1>. DEFINE F == [x \in File |-> ftable[x].ip]
            G == [x \in File |-> ft[x].ip]
<1>1. F[f] = ftable[f].ip
  OBVIOUS
<1>2. Moves(F, G, File, f, r.ip)
  BY DEF Moves
<1>3. FileRefs(ftable, s) = Count(F, File, s) /\ FileRefs(ft, s) = Count(G, File, s)
  BY DEF FileRefs, Count
<1>. HIDE DEF F, G
<1>. QED
  BY <1>1, <1>2, <1>3, ConstantFacts, CountStep

LEMMA FileRefsType == ASSUME NEW ft, NEW s PROVE FileRefs(ft, s) \in Nat
<1>1. IsFiniteSet({f \in File : ft[f].ip = s})
  BY ConstantFacts, FS_Subset
<1>. QED
  BY <1>1, FS_CardinalityType DEF FileRefs

\* of is ofile but for v in the descriptor d of p.
FdMoves(of, p, d, v) ==
  \A q \in Proc, e \in Fd : of[q][e] = IF q = p /\ e = d THEN v ELSE ofile[q][e]

LEMMA FdRefsStep ==
  ASSUME NEW p \in Proc, NEW d \in Fd, NEW v, NEW f \in File, NEW of, FdMoves(of, p, d, v)
  PROVE  /\ FdRefs(ofile, f) \in Nat
         /\ FdRefs(of, f) = FdRefs(ofile, f) - Ind(ofile[p][d], f) + Ind(v, f)
<1>. DEFINE S == Proc \X Fd
            F == [x \in S |-> ofile[x[1]][x[2]]]
            G == [x \in S |-> of[x[1]][x[2]]]
<1>1. IsFiniteSet(S)
  BY ConstantFacts, FS_Product
<1>2. <<p, d>> \in S /\ F[<<p, d>>] = ofile[p][d]
  OBVIOUS
<1>3. Moves(F, G, S, <<p, d>>, v)
  <2>1. \A x \in S : of[x[1]][x[2]] = IF x = <<p, d>> THEN v ELSE ofile[x[1]][x[2]]
    BY DEF FdMoves
  <2>. QED
    BY <2>1 DEF Moves
<1>4. FdRefs(ofile, f) = Count(F, S, f) /\ FdRefs(of, f) = Count(G, S, f)
  BY DEF FdRefs, Count
<1>. HIDE DEF S, F, G
<1>. QED
  BY <1>1, <1>2, <1>3, <1>4, CountStep

\* What the others hold stays as it is.
Only(p) ==
  \A r \in Proc : r # p =>
    /\ pc'[r] = pc[r] /\ then'[r] = then[r] /\ puts'[r] = puts[r]
    /\ cur'[r] = cur[r] /\ ip'[r] = ip[r] /\ inum'[r] = inum[r]
    /\ call'[r] = call[r] /\ rest'[r] = rest[r]

LEMMA OnlyPc ==
  ASSUME PcInv, NEW p \in Proc, Only(p), PcOk(p)'
  PROVE  PcInv'
<1>1. ASSUME NEW r \in Proc, r # p
      PROVE  PcOk(r)'
  BY <1>1 DEF Only, PcInv, PcOk, At
<1>. QED
  BY <1>1 DEF PcInv

\* A step of p in which the counts of the cache follow the references p and
\* the file table hold.
Counted(p) ==
  /\ Unique(icache')
  /\ \A s \in Slot :
       icache'[s].ref = icache[s].ref
         + Held(cur'[p], ip'[p], puts'[p], s) - Held(cur[p], ip[p], puts[p], s)
         + FileRefs(ftable', s) - FileRefs(ftable, s)
  /\ \A f \in File : ftable'[f].ref = FdRefs(ofile', f)

LEMMA CountedKeeps ==
  ASSUME RefsExact, NEW p \in Proc, Only(p), Counted(p)
  PROVE  RefsExact'
<1>1. ASSUME NEW s \in Slot
      PROVE  icache'[s].ref = Cwds(s) + FileRefs(ftable', s) + Refs(cur', s)
                              + Refs(ip', s) + PutRefs(puts', s)
  <2>. /\ Moves(cur, cur', Proc, p, cur'[p])
       /\ Moves(ip, ip', Proc, p, ip'[p])
       /\ Moves(puts, puts', Proc, p, puts'[p])
    BY DEF Only, Moves
  <2>1. /\ Refs(cur, s) \in Nat
        /\ Refs(cur', s) = Refs(cur, s) - Ind(cur[p], s) + Ind(cur'[p], s)
    BY RefsStep
  <2>2. /\ Refs(ip, s) \in Nat
        /\ Refs(ip', s) = Refs(ip, s) - Ind(ip[p], s) + Ind(ip'[p], s)
    BY RefsStep
  <2>3. /\ PutRefs(puts, s) \in Nat
        /\ PutRefs(puts', s) = PutRefs(puts, s)
             - Ind(PutAt(puts[p], 1), s) - Ind(PutAt(puts[p], 2), s)
             + Ind(PutAt(puts'[p], 1), s) + Ind(PutAt(puts'[p], 2), s)
    BY PutRefsStep
  <2>4. FileRefs(ftable, s) \in Nat /\ FileRefs(ftable', s) \in Nat
    BY FileRefsType
  <2>5. \A x, y : Ind(x, y) \in Int
    BY DEF Ind
  <2>6. Cwds(s) \in Nat
    BY ConstantFacts, FS_CardinalityType DEF Cwds
  <2>7. icache[s].ref = Cwds(s) + FileRefs(ftable, s) + Refs(cur, s)
                        + Refs(ip, s) + PutRefs(puts, s)
    BY RefsForm
  <2>. QED
    BY <2>1, <2>2, <2>3, <2>4, <2>5, <2>6, <2>7 DEF Counted, Held
<1>2. Unique(icache') /\ \A f \in File : ftable'[f].ref = FdRefs(ofile', f)
  BY DEF Counted
<1>. QED
  BY <1>1, <1>2 DEF RefsExact, Unique, Cwds, FileRefs, Refs, PutRefs, FdRefs, Count

\* What something holds has a reference.
LEMMA HeldRef ==
  ASSUME RefsExact, PcInv, NEW s \in Slot
  PROVE  /\ icache[s].ref \in Nat
         /\ \A p \in Proc : s \in {cur[p], ip[p], PutAt(puts[p], 1), PutAt(puts[p], 2)}
              => icache[s].ref > 0
         /\ \A f \in File : ftable[f].ip = s => icache[s].ref > 0
<1>1. /\ Refs(cur, s) \in Nat
      /\ \A p \in Proc : cur[p] = s => Refs(cur, s) > 0
      /\ Refs(ip, s) \in Nat
      /\ \A p \in Proc : ip[p] = s => Refs(ip, s) > 0
  BY ConstantFacts, CountType DEF Refs
<1>2. /\ FileRefs(ftable, s) \in Nat
      /\ \A f \in File : ftable[f].ip = s => FileRefs(ftable, s) > 0
  <2>. DEFINE S == {f \in File : ftable[f].ip = s}
  <2>1. IsFiniteSet(S) /\ Cardinality(S) \in Nat
    BY ConstantFacts, FS_Subset, FS_CardinalityType
  <2>2. S # {} => Cardinality(S) # 0
    BY <2>1, FS_EmptySet
  <2>. QED
    BY <2>1, <2>2 DEF FileRefs
<1>3. /\ PutRefs(puts, s) \in Nat
      /\ \A p \in Proc : s \in {PutAt(puts[p], 1), PutAt(puts[p], 2)} => PutRefs(puts, s) > 0
  <2>. DEFINE S == {x \in Proc \X (1 .. 2) :
                      x[2] \in DOMAIN puts[x[1]] /\ puts[x[1]][x[2]] = s}
  <2>1. IsFiniteSet(S) /\ Cardinality(S) \in Nat
    <3>1. 1 \in Int /\ 2 \in Int
      OBVIOUS
    <3>2. IsFiniteSet(1 .. 2)
      BY <3>1, FS_Interval
    <3>3. IsFiniteSet(Proc \X (1 .. 2))
      BY <3>2, ConstantFacts, FS_Product
    <3>. QED
      BY <3>3, FS_Subset, FS_CardinalityType
  <2>2. S # {} => Cardinality(S) # 0
    BY <2>1, FS_EmptySet
  <2>3. ASSUME NEW p \in Proc, s \in {PutAt(puts[p], 1), PutAt(puts[p], 2)}
        PROVE  S # {}
    <3>1. PutAt(puts[p], 1) = s => <<p, 1>> \in S
      BY ConstantFacts DEF PutAt
    <3>2. PutAt(puts[p], 2) = s => <<p, 2>> \in S
      BY ConstantFacts DEF PutAt
    <3>. QED
      BY <2>3, <3>1, <3>2
  <2>4. PutRefs(puts, s) = Cardinality(S)
    BY DEF PutRefs
  <2>. HIDE DEF S
  <2>. QED
    BY <2>1, <2>2, <2>3, <2>4
<1>4. Cwds(s) \in Nat
  BY ConstantFacts, FS_CardinalityType DEF Cwds
<1>5. icache[s].ref = Cwds(s) + FileRefs(ftable, s) + Refs(cur, s)
                      + Refs(ip, s) + PutRefs(puts, s)
  BY RefsForm
<1>. QED
  BY <1>1, <1>2, <1>3, <1>4, <1>5

-----------------------------------------------------------------------------
(* The cache.                                                              *)

\* Only the slots' counts and inode numbers matter here: unchanged,
Steady(a, b) == \A s \in Slot : b[s].ref = a[s].ref /\ b[s].inum = a[s].inum

\* with one more reference to inode i in slot t,
Got(a, b, i, t) ==
  /\ t \in Slot
  /\ b[t].ref = a[t].ref + 1 /\ b[t].inum = i
  /\ a[t].ref > 0 => a[t].inum = i
  /\ \A s \in Slot : s # t => b[s].ref = a[s].ref /\ b[s].inum = a[s].inum
  /\ \A s \in Slot : a[s].ref > 0 /\ a[s].inum = i => s = t

\* or with one less to slot t.
Dropped(a, b, t) ==
  \A s \in Slot : b[s].ref = a[s].ref - Ind(t, s) /\ b[s].inum = a[s].inum

LEMMA FirstIn ==
  ASSUME NEW S, S \subseteq Nat, S # {}
  PROVE  First(S) \in S
<1>. DEFINE R == {ss \in Nat \X Nat : ss[1] < ss[2]}
<1>1. R = OpToRel(<, Nat)
  BY DEF OpToRel
<1>2. IsWellFoundedOn(R, Nat)
  BY <1>1, NatLessThanWellFounded
<1>3. PICK x \in S : \A y \in S : ~(<<y, x>> \in R)
  <2>. HIDE DEF R
  <2>. QED
    BY <1>2, WFMin
<1>4. \A y \in S : x <= y
  <2>. TAKE y \in S
  <2>1. <<y, x>> \notin R /\ <<y, x>> \in Nat \X Nat
    BY <1>3
  <2>2. ~(y < x) /\ x \in Nat /\ y \in Nat
    BY <2>1
  <2>. QED
    BY <2>2
<1>. QED
  BY <1>4 DEF First

\* An inode that is in no slot finds one empty: the cache has a slot for every
\* inode.
LEMMA EmptySlot ==
  ASSUME NEW ic \in CacheType, Unique(ic), NEW i \in Inum,
         \A s \in Slot : ic[s].ref \in Nat /\ (ic[s].ref > 0 => ic[s].inum \in Inum),
         \A s \in Slot : ic[s].ref > 0 => ic[s].inum # i
  PROVE  \E s \in Slot : ic[s].ref = 0
<1>. SUFFICES ASSUME \A s \in Slot : ic[s].ref > 0
              PROVE  FALSE
  OBVIOUS
<1>. DEFINE F == [s \in Slot |-> ic[s].inum]
            T == Inum \ {i}
<1>1. F \in Injection(Slot, T)
  <2>1. F \in [Slot -> T]
    OBVIOUS
  <2>2. \A s, t \in Slot : F[s] = F[t] => s = t
    BY DEF Unique
  <2>. HIDE DEF F, T
  <2>. QED
    BY <2>1, <2>2 DEF Injection, IsInjective
<1>2. IsFiniteSet(T) /\ Cardinality(T) = Cardinality(Inum) - 1
  BY ConstantFacts, FS_RemoveElement
<1>3. Cardinality(Slot) <= Cardinality(T)
  <2>. HIDE DEF F, T
  <2>. QED
    BY <1>1, <1>2, FS_Injection
<1>. QED
  BY <1>2, <1>3, ConstantFacts, FilesAssumption

\* What iget() makes of a cache that is in order
CacheOk(ic) ==
  /\ ic \in CacheType
  /\ Unique(ic)
  /\ \A s \in Slot : ic[s].ref \in Nat /\ (ic[s].ref > 0 => ic[s].inum \in Inum)

LEMMA IgetFacts ==
  ASSUME NEW ic, CacheOk(ic), NEW i \in Inum
  PROVE  /\ SlotOf(ic, i) \in Slot
         /\ Iget(ic, i) \in CacheType
         /\ Got(ic, Iget(ic, i), i, SlotOf(ic, i))
<1>. DEFINE hits == {s \in Slot : ic[s].ref > 0 /\ ic[s].inum = i}
            empty == {s \in Slot : ic[s].ref = 0}
            t == SlotOf(ic, i)
<1>1. hits \subseteq Nat /\ empty \subseteq Nat
  BY ConstantFacts
<1>2. hits = {} => empty # {}
  BY EmptySlot DEF CacheOk
<1>3. t = First(IF hits # {} THEN hits ELSE empty)
  BY DEF SlotOf
<1>4. t \in (IF hits # {} THEN hits ELSE empty)
  <2>. HIDE DEF hits, empty, t
  <2>. QED
    BY <1>1, <1>2, <1>3, FirstIn
<1>5. t \in Slot
  BY <1>4
<1>6. (ic[t].ref > 0 /\ ic[t].inum = i) \/ (ic[t].ref = 0 /\ hits = {})
  BY <1>4
<1>7. ASSUME NEW s \in Slot, ic[s].ref > 0, ic[s].inum = i
      PROVE  s = t
  BY <1>5, <1>6, <1>7 DEF CacheOk, Unique
<1>. HIDE DEF t
<1>. DEFINE m == ic[t]
            N == IF m.ref > 0 THEN [m EXCEPT !.ref = @ + 1]
                 ELSE [m EXCEPT !.inum = i, !.ref = 1, !.valid = FALSE]
<1>8. Iget(ic, i) = [ic EXCEPT ![t] = N]
  BY DEF t, Iget
<1>9. N \in NodeType /\ N.ref = m.ref + 1 /\ N.inum = i
  <2>1. m \in NodeType /\ m.ref \in Nat
    BY <1>5 DEF CacheOk, CacheType
  <2>2. m.ref > 0 => m.inum = i
    BY <1>6
  <2>. HIDE DEF m
  <2>3. CASE m.ref > 0
    <3>1. N = [m EXCEPT !.ref = @ + 1]
      BY <2>3
    <3>. HIDE DEF N
    <3>. QED
      BY <2>1, <2>2, <2>3, <3>1 DEF NodeType
  <2>4. CASE m.ref = 0
    <3>1. N = [m EXCEPT !.inum = i, !.ref = 1, !.valid = FALSE]
      BY <2>4
    <3>. HIDE DEF N
    <3>2. N = [inum |-> i, ref |-> 1, valid |-> FALSE,
               type |-> m.type, nlink |-> m.nlink, lock |-> m.lock]
      BY <2>1, <3>1 DEF NodeType
    <3>3. N \in NodeType
      BY <2>1, <3>2 DEF NodeType
    <3>. QED
      BY <2>4, <3>2, <3>3
  <2>. QED
    BY <2>1, <2>3, <2>4
<1>. HIDE DEF N
<1>10. DOMAIN ic = Slot
  BY DEF CacheOk, CacheType
<1>11. Iget(ic, i)[t] = N
  BY <1>5, <1>8, <1>10
<1>12. \A s \in Slot : s # t => Iget(ic, i)[s] = ic[s]
  BY <1>8, <1>10
<1>13. Iget(ic, i) \in CacheType
  <2>1. DOMAIN Iget(ic, i) = Slot /\ Iget(ic, i) = [s \in Slot |-> Iget(ic, i)[s]]
    BY <1>8, <1>10
  <2>2. \A s \in Slot : Iget(ic, i)[s] \in NodeType
    BY <1>9, <1>12, <1>11 DEF CacheOk, CacheType
  <2>. QED
    BY <2>1, <2>2 DEF CacheType
<1>14. ic[t].ref > 0 => ic[t].inum = i
  BY <1>6
<1>. QED
  BY <1>5, <1>7, <1>9, <1>12, <1>13, <1>14, <1>11 DEF t, Got

LEMMA IInvCache == ASSUME IInv PROVE CacheOk(icache)
BY HeldRef DEF IInv, Shape, UseInv, CacheOk, RefsExact, Unique

LEMMA SteadyOk ==
  ASSUME NEW a, NEW b \in CacheType, CacheOk(a), Steady(a, b)
  PROVE  CacheOk(b)
BY DEF CacheOk, Steady, Unique

LEMMA GotOk ==
  ASSUME NEW a, NEW b \in CacheType, CacheOk(a), NEW i \in Inum, NEW t, Got(a, b, i, t)
  PROVE  CacheOk(b)
<1>1. \A s \in Slot : b[s].ref \in Nat /\ (b[s].ref > 0 => b[s].inum \in Inum)
  BY DEF CacheOk, Got
<1>2. ASSUME NEW r \in Slot, NEW s \in Slot, b[r].ref > 0, b[s].ref > 0, b[r].inum = b[s].inum
      PROVE  r = s
  BY <1>2 DEF CacheOk, Got, Unique
<1>. QED
  BY <1>1, <1>2 DEF CacheOk, Unique

\* A step between two caches that have the same counts
LEMMA SteadyGot ==
  ASSUME NEW a, NEW b, NEW c, NEW i, NEW t, Steady(a, b), Got(b, c, i, t)
  PROVE  Got(a, c, i, t)
BY DEF Steady, Got

\* ilock() gives the slot what the disk has of its inode,
LEMMA LockedByType ==
  ASSUME Shape, NEW s \in Slot, icache[s].inum \in Inum, NEW q \in Proc \cup {None}
  PROVE  /\ LockedBy(s, q) \in NodeType
         /\ LockedBy(s, q).ref = icache[s].ref
         /\ LockedBy(s, q).inum = icache[s].inum
<1>. DEFINE m == icache[s]
            d == disk[m.inum]
<1>1. m \in NodeType /\ d.type \in Type /\ d.nlink \in Int
  BY DEF Shape, CacheType, DiskType
<1>. HIDE DEF m, d
<1>. DEFINE l == Loaded(s)
<1>2. l \in NodeType /\ l.ref = m.ref /\ l.inum = m.inum
  <2>1. CASE m.valid
    BY <1>1, <2>1 DEF Loaded, m
  <2>2. CASE ~m.valid
    <3>1. l = [m EXCEPT !.valid = TRUE, !.type = d.type, !.nlink = d.nlink]
      BY <2>2 DEF Loaded, m, d
    <3>. HIDE DEF l
    <3>2. l = [inum |-> m.inum, ref |-> m.ref, valid |-> TRUE,
               type |-> d.type, nlink |-> d.nlink, lock |-> m.lock]
      BY <1>1, <3>1 DEF NodeType
    <3>3. l \in NodeType
      BY <1>1, <3>2 DEF NodeType
    <3>. QED
      BY <3>2, <3>3
  <2>. QED
    BY <2>1, <2>2
<1>3. LockedBy(s, q) = [l EXCEPT !.lock = q]
  BY DEF LockedBy
<1>. HIDE DEF l
<1>. QED
  BY <1>2, <1>3 DEF NodeType, m

LEMMA LinkedType ==
  ASSUME NEW node \in NodeType, NEW k \in Int
  PROVE  /\ Linked(node, k) \in NodeType
         /\ Linked(node, k).ref = node.ref /\ Linked(node, k).inum = node.inum
BY DEF Linked, NodeType

\* and a change of the lock or the link count leaves what counts here alone.
LEMMA UnlockedType ==
  ASSUME NEW node \in NodeType, NEW q \in Proc \cup {None}
  PROVE  /\ [node EXCEPT !.lock = q] \in NodeType
         /\ [node EXCEPT !.lock = q].ref = node.ref
         /\ [node EXCEPT !.lock = q].inum = node.inum
BY DEF NodeType

LEMMA UpdatedType ==
  ASSUME NEW d \in DiskType, NEW node \in NodeType, node.inum \in Inum
  PROVE  Updated(d, node) \in DiskType
<1>. DEFINE e == [d EXCEPT ![node.inum].type = node.type]
<1>1. e \in DiskType
  BY DEF DiskType, NodeType
<1>2. Updated(d, node) = [e EXCEPT ![node.inum].nlink = node.nlink]
  BY DEF Updated
<1>. HIDE DEF e
<1>. QED
  BY <1>1, <1>2 DEF DiskType, NodeType

LEMMA EntryType ==
  ASSUME Shape, NEW s \in Slot, icache[s].inum \in Inum, NEW n \in Name
  PROVE  Entry(s, n) \in Inum \cup {None}
BY DEF Shape, DiskType, Entry

\* The cache c with node in slot s
SetTo(c, s, node) == [c EXCEPT ![s] = node]

LEMMA SetSteady ==
  ASSUME NEW c \in CacheType, NEW s \in Slot, NEW node \in NodeType,
         node.ref = c[s].ref, node.inum = c[s].inum
  PROVE  SetTo(c, s, node) \in CacheType /\ Steady(c, SetTo(c, s, node))
BY DEF SetTo, CacheType, Steady

-----------------------------------------------------------------------------
(* What every step has to show.                                            *)

Holds(p, s) == Held(cur[p], ip[p], puts[p], s)

LEMMA HeldForms ==
  ASSUME NEW s \in Slot
  PROVE  /\ \A c, i : Held(c, i, <<>>, s) = Ind(c, s) + Ind(i, s)
         /\ \A c, i, x : Held(c, i, <<x>>, s) = Ind(c, s) + Ind(i, s) + Ind(x, s)
         /\ \A c, i, x, y :
              Held(c, i, <<x, y>>, s) = Ind(c, s) + Ind(i, s) + Ind(x, s) + Ind(y, s)
         /\ Ind(None, s) = 0
         /\ \A c : Ind(c, s) \in Int
<1>1. Ind(None, s) = 0
  BY ConstantFacts DEF Ind
<1>2. \A z : Ind(z, s) \in Int
  BY DEF Ind
<1>3. /\ PutAt(<<>>, 1) = None /\ PutAt(<<>>, 2) = None
      /\ \A x : PutAt(<<x>>, 1) = x /\ PutAt(<<x>>, 2) = None
      /\ \A x, y : PutAt(<<x, y>>, 1) = x /\ PutAt(<<x, y>>, 2) = y
  BY DEF PutAt
<1>. QED
  BY <1>1, <1>2, <1>3 DEF Held

LEMMA HoldsType ==
  ASSUME NEW p \in Proc, NEW s \in Slot
  PROVE  Holds(p, s) \in Int
BY DEF Holds, Held, Ind

LEMMA SteadyStep ==
  ASSUME IInv, NEW p \in Proc, Shape', Only(p), PcOk(p)', Steady(icache, icache'),
         UNCHANGED fileVars, \A s \in Slot : Holds(p, s)' = Holds(p, s)
  PROVE  IInv'
<1>1. CacheOk(icache')
  BY IInvCache, SteadyOk DEF IInv, Shape
<1>2. \A s \in Slot : FileRefs(ftable, s) \in Nat /\ Holds(p, s) \in Int
  BY FileRefsType, HoldsType
<1>3. Counted(p)
  <2>1. \A s \in Slot : icache'[s].ref = icache[s].ref
          + Holds(p, s)' - Holds(p, s) + FileRefs(ftable', s) - FileRefs(ftable, s)
    BY <1>1, <1>2 DEF Steady, fileVars, CacheOk
  <2>2. \A f \in File : ftable'[f].ref = FdRefs(ofile', f)
    BY RefsForm DEF IInv, fileVars
  <2>. QED
    BY <1>1, <2>1, <2>2 DEF Counted, CacheOk, Holds
<1>. QED
  BY <1>1, <1>3, CountedKeeps, OnlyPc DEF IInv, UseInv, CacheOk, fileVars

LEMMA GotStep ==
  ASSUME IInv, NEW p \in Proc, Shape', Only(p), PcOk(p)', NEW i \in Inum, NEW t,
         Got(icache, icache', i, t),
         UNCHANGED fileVars, \A s \in Slot : Holds(p, s)' = Holds(p, s) + Ind(t, s)
  PROVE  IInv'
<1>1. CacheOk(icache')
  BY IInvCache, GotOk DEF IInv, Shape
<1>2. \A s \in Slot : FileRefs(ftable, s) \in Nat /\ Holds(p, s) \in Int
  BY FileRefsType, HoldsType
<1>3. Counted(p)
  <2>1. \A s \in Slot : icache'[s].ref = icache[s].ref
          + Holds(p, s)' - Holds(p, s) + FileRefs(ftable', s) - FileRefs(ftable, s)
    BY <1>1, <1>2, IInvCache DEF Got, fileVars, CacheOk, Ind
  <2>2. \A f \in File : ftable'[f].ref = FdRefs(ofile', f)
    BY RefsForm DEF IInv, fileVars
  <2>. QED
    BY <1>1, <2>1, <2>2 DEF Counted, CacheOk, Holds
<1>. QED
  BY <1>1, <1>3, CountedKeeps, OnlyPc DEF IInv, UseInv, CacheOk, fileVars

LEMMA DroppedStep ==
  ASSUME IInv, NEW p \in Proc, Shape', Only(p), PcOk(p)', NEW t,
         Dropped(icache, icache', t),
         UNCHANGED fileVars, \A s \in Slot : Holds(p, s)' = Holds(p, s) - Ind(t, s)
  PROVE  IInv'
<1>1. \A s \in Slot : icache[s].ref \in Nat /\ Ind(t, s) \in {0, 1}
  BY IInvCache DEF CacheOk, Ind
<1>2. \A s \in Slot : FileRefs(ftable, s) \in Nat /\ Holds(p, s) \in Int
  BY FileRefsType, HoldsType
<1>3. Counted(p)
  <2>1. \A s \in Slot : icache'[s].ref = icache[s].ref
          + Holds(p, s)' - Holds(p, s) + FileRefs(ftable', s) - FileRefs(ftable, s)
    BY <1>1, <1>2 DEF Dropped, fileVars
  <2>2. \A f \in File : ftable'[f].ref = FdRefs(ofile', f)
    BY RefsForm DEF IInv, fileVars
  <2>3. Unique(icache')
    BY <1>1 DEF IInv, RefsExact, Unique, Dropped
  <2>. QED
    BY <2>1, <2>2, <2>3 DEF Counted, Holds
<1>4. UseInv'
  BY <1>1 DEF IInv, UseInv, Dropped, fileVars
<1>. QED
  BY <1>3, <1>4, CountedKeeps, OnlyPc DEF IInv

LEMMA AtFacts ==
  ASSUME IInv, NEW p \in Proc, pc[p] \notin Putting
  PROVE  /\ At(p) = pc[p] /\ puts[p] = <<>>
         /\ IF pc[p] \in CurPoints
              THEN cur[p] \in Slot /\ icache[cur[p]].inum \in Inum
              ELSE cur[p] = None
         /\ cur[p] \in Slot \cup {None} /\ ip[p] \in Slot \cup {None}
         /\ pc[p] # "walk" =>
              IF pc[p] \in IpPoints
                THEN ip[p] \in Slot /\ icache[ip[p]].inum \in Inum
                ELSE ip[p] = None
         /\ ip[p] \in Slot => icache[ip[p]].inum \in Inum
         /\ \A s \in Slot : Holds(p, s) = Ind(cur[p], s) + Ind(ip[p], s)
         /\ pc[p] # "idle" => call[p] \in Call
<1>1. PcOk(p) /\ cur[p] \in Slot \cup {None} /\ ip[p] \in Slot \cup {None}
  BY DEF IInv, PcInv, Shape
<1>2. At(p) = pc[p] /\ puts[p] = <<>>
  BY <1>1 DEF PcOk, At
<1>3. \A s \in Slot : cur[p] = s \/ ip[p] = s => icache[s].inum \in Inum
  BY HeldRef DEF IInv, UseInv
<1>4. \A s \in Slot : Holds(p, s) = Ind(cur[p], s) + Ind(ip[p], s)
  BY <1>2, HeldForms DEF Holds
<1>. QED
  BY <1>1, <1>2, <1>3, <1>4, ConstantFacts DEF PcOk

\* A directory with the entry n set to v
EntrySet(d, i, n, v) == [d EXCEPT ![i].dir[n] = v]

LEMMA EntrySetType ==
  ASSUME NEW d \in DiskType, NEW i \in Inum, NEW n \in Name, NEW v \in Inum \cup {None}
  PROVE  EntrySet(d, i, n, v) \in DiskType
<1>. DEFINE e == [d[i] EXCEPT !.dir[n] = v]
<1>1. EntrySet(d, i, n, v) = [d EXCEPT ![i] = e]
  BY DEF EntrySet, DiskType
<1>2. e \in [type : Type, nlink : Int, dir : [Name -> Inum \cup {None}]]
  BY DEF DiskType
<1>. HIDE DEF e
<1>. QED
  BY <1>1, <1>2 DEF DiskType

LEMMA LastName ==
  ASSUME NEW c \in Call
  PROVE  /\ c.path # <<>> => Last(c.path) \in Name
         /\ c.new # <<>> => Last(c.new) \in Name
BY FilesAssumption DEF Last

\* A call that looks a name up in a directory has one.
LEMMA LooksUp ==
  ASSUME IInv, NEW p \in Proc
  PROVE  /\ pc[p] \in {"create", "newlock", "unlink", "unlinkip"}
              => Last(call[p].path) \in Name
         /\ pc[p] = "linknew" => Last(call[p].new) \in Name
<1>1. CASE pc[p] \in {"create", "newlock", "unlink", "unlinkip", "linknew"}
  <2>1. PcOk(p) /\ At(p) = pc[p] /\ call[p] \in Call
    BY <1>1, AtFacts DEF Putting, IInv, PcInv
  <2>. QED
    BY <1>1, <2>1, LastName DEF PcOk
<1>. QED
  BY <1>1

\* p goes on at N with what it holds.
GoesTo(p, N) ==
  /\ GoTo(p, N)
  /\ rest' = rest \/ rest' = [rest EXCEPT ![p] = <<>>]
  /\ inum' = inum \/ \E i \in Inum : inum' = [inum EXCEPT ![p] = i]
  /\ UNCHANGED <<fileVars, call, cur, ip>>

LEMMA GoesToKeeps ==
  ASSUME IInv, NEW p \in Proc, NEW N \in Point, GoesTo(p, N),
         pc[p] \in CurPoints, N \in CurPoints, N # "walk",
         N = "linkold" => call[p].op = "link",
         N \in {"create", "ialloc", "newget", "newlock", "unlink", "unlinkip"}
           => call[p].path # <<>>,
         N = "linknew" => call[p].new # <<>>,
         N \in IpPoints <=> ip[p] # None,
         inum'[p] # None <=> N \in {"newget", "newlock"},
         icache' \in CacheType, Steady(icache, icache'), disk' \in DiskType
  PROVE  IInv'
<1>1. /\ puts[p] = <<>> /\ cur[p] \in Slot /\ ip[p] \in Slot \cup {None}
      /\ call[p] \in Call /\ PcOk(p)
  BY AtFacts DEF Putting, CurPoints, IInv, PcInv
<1>2. /\ pc' = [pc EXCEPT ![p] = N]
      /\ rest' = rest \/ rest' = [rest EXCEPT ![p] = <<>>]
      /\ inum' = inum \/ \E i \in Inum : inum' = [inum EXCEPT ![p] = i]
      /\ UNCHANGED <<fileVars, call, cur, ip, puts, then>>
  BY DEF GoesTo, GoTo, putVars
<1>3. Shape'
  <2>1. rest' \in [Proc -> Seq(Name)]
    <3>1. rest \in [Proc -> Seq(Name)] /\ <<>> \in Seq(Name)
      BY DEF IInv, Shape
    <3>. QED
      BY <1>2, <3>1
  <2>2. pc' \in [Proc -> Point] /\ inum' \in [Proc -> Inum \cup {None}]
    BY <1>2 DEF IInv, Shape
  <2>. QED
    BY <1>2, <2>1, <2>2 DEF IInv, Shape, fileVars
<1>4. Only(p)
  BY <1>2 DEF IInv, Shape, Only
<1>5. /\ pc'[p] = N /\ then'[p] = then[p] /\ puts'[p] = <<>> /\ cur'[p] = cur[p]
      /\ ip'[p] = ip[p] /\ call'[p] = call[p]
  BY <1>1, <1>2 DEF IInv, Shape
<1>6. PcOk(p)'
  <2>1. pc'[p] \notin Putting /\ At(p)' = N
    BY <1>5 DEF At, Putting, CurPoints
  <2>2. cur[p] # None
    BY <1>1, ConstantFacts
  <2>. QED
    BY <1>1, <1>5, <2>1, <2>2 DEF PcOk
<1>7. \A x \in Slot : Holds(p, x)' = Holds(p, x)
  BY <1>1, <1>5 DEF Holds
<1>. QED
  BY <1>2, <1>3, <1>4, <1>6, <1>7, SteadyStep

\* namex() is done: which call it was for
LEMMA FoundFacts ==
  ASSUME IInv, NEW p \in Proc, pc[p] = "walk"
  PROVE  /\ Found(p) \in {"open", "create", "unlink", "linkold", "linknew"}
         /\ Found(p) = "linknew" <=> ip[p] # None
         /\ Found(p) = "linkold" => call[p].op = "link"
         /\ Found(p) \in {"open", "linkold"} <=> ~WantsParent(p)
         /\ Found(p) \in {"create", "unlink"} => ip[p] = None
<1>1. PcOk(p) /\ At(p) = "walk" /\ call[p] \in Call
  BY AtFacts DEF IInv, PcInv, Putting
<1>2. call[p].op \in Op /\ (ip[p] # None => call[p].op = "link")
  BY <1>1, FilesAssumption DEF PcOk
<1>. DEFINE o == call[p].op
<1>3. \/ o \in {"open", "openw"} /\ Found(p) = "open"
      \/ o \in {"create", "mkdir"} /\ Found(p) = "create"
      \/ o = "unlink" /\ Found(p) = "unlink"
      \/ o = "link" /\ Found(p) = IF ip[p] = None THEN "linkold" ELSE "linknew"
  BY <1>2 DEF Found, Op
<1>. QED
  BY <1>2, <1>3 DEF WantsParent

-----------------------------------------------------------------------------
(* The steps of a call.                                                    *)

\* ilock() and iunlock() keep the counts.
LEMMA LockedSteady ==
  ASSUME IInv, NEW s \in Slot, icache[s].inum \in Inum, NEW q \in Proc \cup {None}
  PROVE  /\ SetTo(icache, s, LockedBy(s, q)) \in CacheType
         /\ Steady(icache, SetTo(icache, s, LockedBy(s, q)))
BY LockedByType, SetSteady DEF IInv, Shape

\* p goes on at N and puts the inode cur[p] first,
HandsCur(p, N) ==
  /\ Put(p, <<cur[p]>>, N)
  /\ cur' = [cur EXCEPT ![p] = None]
  /\ rest' = rest \/ rest' = [rest EXCEPT ![p] = <<>>]
  /\ inum' = [inum EXCEPT ![p] = None]
  /\ UNCHANGED <<fileVars, call, ip>>

LEMMA HandsCurKeeps ==
  ASSUME IInv, NEW p \in Proc, NEW N \in Point, HandsCur(p, N),
         pc[p] \in CurPoints, N \notin CurPoints \cup Putting,
         N \in IpPoints <=> ip[p] # None,
         icache' \in CacheType, Steady(icache, icache'), disk' \in DiskType
  PROVE  IInv'
<1>1. /\ puts[p] = <<>> /\ cur[p] \in Slot /\ ip[p] \in Slot \cup {None}
      /\ \A x \in Slot : Holds(p, x) = Ind(cur[p], x) + Ind(ip[p], x)
      /\ call[p] \in Call
  BY AtFacts DEF Putting, CurPoints
<1>2. /\ pc' = [pc EXCEPT ![p] = "put"] /\ then' = [then EXCEPT ![p] = N]
      /\ puts' = [puts EXCEPT ![p] = <<cur[p]>>] /\ cur' = [cur EXCEPT ![p] = None]
      /\ rest' = rest \/ rest' = [rest EXCEPT ![p] = <<>>]
      /\ inum' = [inum EXCEPT ![p] = None]
      /\ UNCHANGED <<fileVars, call, ip>>
  BY DEF HandsCur, Put
<1>3. Shape'
  <2>1. rest' \in [Proc -> Seq(Name)]
    <3>1. rest \in [Proc -> Seq(Name)] /\ <<>> \in Seq(Name)
      BY DEF IInv, Shape
    <3>. QED
      BY <1>2, <3>1
  <2>2. pc' \in [Proc -> Point] /\ then' \in [Proc -> Point] /\ puts' \in [Proc -> Seq(Slot)]
    <3>1. "put" \in Point /\ <<cur[p]>> \in Seq(Slot)
      BY <1>1 DEF Point
    <3>. QED
      BY <1>2, <3>1 DEF IInv, Shape
  <2>3. cur' \in [Proc -> Slot \cup {None}] /\ inum' \in [Proc -> Inum \cup {None}]
    BY <1>2 DEF IInv, Shape
  <2>. QED
    BY <1>2, <2>1, <2>2, <2>3 DEF IInv, Shape, fileVars
<1>4. Only(p)
  BY <1>2 DEF IInv, Shape, Only
<1>5. /\ pc'[p] = "put" /\ then'[p] = N /\ puts'[p] = <<cur[p]>> /\ cur'[p] = None
      /\ ip'[p] = ip[p] /\ inum'[p] = None /\ call'[p] = call[p]
  BY <1>2 DEF IInv, Shape
<1>6. PcOk(p)'
  <2>1. pc'[p] \in Putting /\ At(p)' = N
    BY <1>5 DEF At, Putting
  <2>2. N \notin {"walk", "create", "ialloc", "newget", "newlock", "unlink", "unlinkip",
                   "linkold", "linknew"}
    BY DEF CurPoints
  <2>. QED
    BY <1>1, <1>5, <2>1, <2>2 DEF PcOk
<1>7. ASSUME NEW x \in Slot
      PROVE  Holds(p, x)' = Holds(p, x)
  <2>1. Holds(p, x)' = Held(None, ip[p], <<cur[p]>>, x)
    BY <1>5 DEF Holds
  <2>2. /\ Held(None, ip[p], <<cur[p]>>, x) = Ind(None, x) + Ind(ip[p], x) + Ind(cur[p], x)
        /\ Ind(None, x) = 0 /\ Ind(ip[p], x) \in Int /\ Ind(cur[p], x) \in Int
    BY HeldForms
  <2>3. Holds(p, x) = Ind(cur[p], x) + Ind(ip[p], x)
    BY <1>1
  <2>. QED
    BY <2>1, <2>2, <2>3
<1>. QED
  BY <1>2, <1>3, <1>4, <1>6, <1>7, SteadyStep

\* or ip[p].
HandsIp(p, N) ==
  /\ Put(p, <<ip[p]>>, N)
  /\ ip' = [ip EXCEPT ![p] = None]
  /\ UNCHANGED <<fileVars, call, rest, cur, inum>>

LEMMA HandsIpKeeps ==
  ASSUME IInv, NEW p \in Proc, NEW N \in {"idle", "unlinkbad"}, HandsIp(p, N),
         pc[p] \in IpPoints, N \in CurPoints <=> cur[p] # None, pc[p] # "newlock",
         icache' \in CacheType, Steady(icache, icache'), disk' \in DiskType
  PROVE  IInv'
<1>1. /\ puts[p] = <<>> /\ ip[p] \in Slot /\ cur[p] \in Slot \cup {None}
      /\ \A x \in Slot : Holds(p, x) = Ind(cur[p], x) + Ind(ip[p], x)
      /\ call[p] \in Call /\ PcOk(p) /\ At(p) = pc[p]
  BY AtFacts DEF Putting, IpPoints, IInv, PcInv
<1>2. /\ pc' = [pc EXCEPT ![p] = "put"] /\ then' = [then EXCEPT ![p] = N]
      /\ puts' = [puts EXCEPT ![p] = <<ip[p]>>] /\ ip' = [ip EXCEPT ![p] = None]
      /\ UNCHANGED <<fileVars, call, rest, cur, inum>>
  BY DEF HandsIp, Put
<1>3. Shape'
  BY <1>1, <1>2 DEF IInv, Shape, Point, fileVars
<1>4. Only(p)
  BY <1>2 DEF IInv, Shape, Only
<1>5. /\ pc'[p] = "put" /\ then'[p] = N /\ puts'[p] = <<ip[p]>> /\ cur'[p] = cur[p]
      /\ ip'[p] = None /\ inum'[p] = inum[p] /\ call'[p] = call[p]
  BY <1>2 DEF IInv, Shape
<1>6. PcOk(p)'
  <2>1. pc'[p] \in Putting /\ At(p)' = N
    BY <1>5 DEF At, Putting
  <2>2. N \notin {"walk", "newget", "newlock", "linkold"} /\ N \notin IpPoints
    BY DEF IpPoints
  <2>3. N \notin Putting /\ inum[p] = None
    BY <1>1 DEF Putting, IpPoints, PcOk
  <2>. QED
    BY <1>1, <1>5, <2>1, <2>2, <2>3 DEF PcOk
<1>7. ASSUME NEW x \in Slot
      PROVE  Holds(p, x)' = Holds(p, x)
  <2>1. Holds(p, x)' = Held(cur[p], None, <<ip[p]>>, x)
    BY <1>5 DEF Holds
  <2>2. /\ Held(cur[p], None, <<ip[p]>>, x) = Ind(cur[p], x) + Ind(None, x) + Ind(ip[p], x)
        /\ Ind(None, x) = 0 /\ Ind(ip[p], x) \in Int /\ Ind(cur[p], x) \in Int
    BY HeldForms
  <2>3. Holds(p, x) = Ind(cur[p], x) + Ind(ip[p], x)
    BY <1>1
  <2>. QED
    BY <2>1, <2>2, <2>3
<1>. QED
  BY <1>2, <1>3, <1>4, <1>6, <1>7, SteadyStep

-----------------------------------------------------------------------------
(* The steps of a call.                                                    *)

LEMMA WalkFailKeeps ==
  ASSUME IInv, NEW p \in Proc, WalkFail(p)
  PROVE  IInv'
<1>1. /\ pc[p] = "walk" /\ cur[p] \in Slot /\ icache[cur[p]].inum \in Inum
      /\ PcOk(p) /\ At(p) = "walk"
  BY AtFacts DEF WalkFail, Putting, CurPoints, IInv, PcInv
<1>2. icache' = SetTo(icache, cur[p], LockedBy(cur[p], None))
  BY DEF WalkFail, SetTo
<1>3. icache' \in CacheType /\ Steady(icache, icache') /\ disk' \in DiskType
  <2>1. disk' = disk
    BY DEF WalkFail
  <2>. QED
    BY <1>1, <1>2, <2>1, LockedSteady DEF IInv, Shape
<1>4. HandsCur(p, NotFound(p))
  BY <1>1 DEF WalkFail, HandsCur, PcOk, IInv, Shape
<1>5. /\ NotFound(p) \in Point \ (CurPoints \cup Putting)
      /\ NotFound(p) \in IpPoints <=> ip[p] # None
  BY DEF NotFound, Point, CurPoints, IpPoints, Putting
<1>. QED
  BY <1>1, <1>3, <1>4, <1>5, HandsCurKeeps DEF CurPoints

LEMMA WalkRootKeeps ==
  ASSUME IInv, NEW p \in Proc, WalkRoot(p)
  PROVE  IInv'
<1>1. /\ pc[p] = "walk" /\ cur[p] \in Slot
      /\ PcOk(p) /\ At(p) = "walk"
  BY AtFacts DEF WalkRoot, Putting, CurPoints, IInv, PcInv
<1>2. icache' \in CacheType /\ Steady(icache, icache') /\ disk' \in DiskType
  BY DEF WalkRoot, diskVars, Steady, IInv, Shape
<1>3. inum[p] = None /\ pc[p] \in CurPoints
  BY <1>1 DEF PcOk, CurPoints
<1>4. CASE WantsParent(p)
  <2>1. HandsCur(p, NotFound(p))
    BY <1>3, <1>4 DEF WalkRoot, HandsCur, IInv, Shape
  <2>2. /\ NotFound(p) \in Point \ (CurPoints \cup Putting)
        /\ NotFound(p) \in IpPoints <=> ip[p] # None
    BY DEF NotFound, Point, CurPoints, IpPoints, Putting
  <2>. QED
    BY <1>2, <1>3, <2>1, <2>2, HandsCurKeeps
<1>5. CASE ~WantsParent(p)
  <2>1. GoesTo(p, Found(p)) /\ inum' = inum
    BY <1>5 DEF WalkRoot, GoesTo
  <2>2. /\ Found(p) \in {"open", "linkold"}
        /\ Found(p) = "linkold" => call[p].op = "link"
        /\ ip[p] = None
    BY <1>1, <1>5, FoundFacts DEF WantsParent
  <2>. QED
    BY <1>2, <1>3, <2>1, <2>2, GoesToKeeps DEF CurPoints, IpPoints, Point
<1>. QED
  BY <1>4, <1>5

LEMMA UnlinkNoneKeeps ==
  ASSUME IInv, NEW p \in Proc, UnlinkNone(p)
  PROVE  IInv'
<1>1. /\ pc[p] = "unlink" /\ cur[p] \in Slot /\ icache[cur[p]].inum \in Inum
      /\ PcOk(p) /\ At(p) = "unlink" /\ ip[p] = None
  BY AtFacts DEF UnlinkNone, Putting, CurPoints, IpPoints, IInv, PcInv
<1>2. icache' = SetTo(icache, cur[p], LockedBy(cur[p], None))
  BY DEF UnlinkNone, SetTo
<1>3. icache' \in CacheType /\ Steady(icache, icache') /\ disk' \in DiskType
  <2>1. disk' = disk
    BY DEF UnlinkNone
  <2>. QED
    BY <1>1, <1>2, <2>1, LockedSteady DEF IInv, Shape
<1>4. HandsCur(p, "idle")
  BY <1>1 DEF UnlinkNone, HandsCur, PcOk, IInv, Shape
<1>. QED
  BY <1>1, <1>3, <1>4, HandsCurKeeps DEF CurPoints, IpPoints, Putting, Point

LEMMA LinkRefuseKeeps ==
  ASSUME IInv, NEW p \in Proc, LinkRefuse(p)
  PROVE  IInv'
<1>1. /\ pc[p] = "linkold" /\ cur[p] \in Slot /\ icache[cur[p]].inum \in Inum
      /\ PcOk(p) /\ At(p) = "linkold" /\ ip[p] = None
  BY AtFacts, ConstantFacts DEF LinkRefuse, Putting, CurPoints, IpPoints, IInv, PcInv
<1>2. icache' \in CacheType /\ Steady(icache, icache') /\ disk' \in DiskType
  <2>1. icache' = SetTo(icache, cur[p], LockedBy(cur[p], None)) /\ disk' = disk
    BY DEF LinkRefuse, SetTo
  <2>. QED
    BY <1>1, <2>1, LockedSteady DEF IInv, Shape
<1>3. HandsCur(p, "idle")
  BY <1>1 DEF LinkRefuse, HandsCur, PcOk, IInv, Shape
<1>. QED
  BY <1>1, <1>2, <1>3, HandsCurKeeps DEF CurPoints, IpPoints, Putting, Point

LEMMA UnlinkBadKeeps ==
  ASSUME IInv, NEW p \in Proc, UnlinkBad(p)
  PROVE  IInv'
<1>1. /\ pc[p] = "unlinkbad" /\ cur[p] \in Slot /\ icache[cur[p]].inum \in Inum
      /\ PcOk(p) /\ At(p) = "unlinkbad" /\ ip[p] = None
  BY AtFacts, ConstantFacts DEF UnlinkBad, Putting, CurPoints, IpPoints, IInv, PcInv
<1>2. icache' \in CacheType /\ Steady(icache, icache') /\ disk' \in DiskType
  <2>. DEFINE node == [icache[cur[p]] EXCEPT !.lock = None]
  <2>1. icache' = SetTo(icache, cur[p], node) /\ disk' = disk
    BY DEF UnlinkBad, SetTo
  <2>2. /\ node \in NodeType /\ node.ref = icache[cur[p]].ref
        /\ node.inum = icache[cur[p]].inum
    BY <1>1, UnlockedType DEF IInv, Shape, CacheType
  <2>. HIDE DEF node
  <2>. QED
    BY <1>1, <2>1, <2>2, SetSteady DEF IInv, Shape
<1>3. HandsCur(p, "idle")
  BY <1>1 DEF UnlinkBad, HandsCur, PcOk, IInv, Shape
<1>. QED
  BY <1>1, <1>2, <1>3, HandsCurKeeps DEF CurPoints, IpPoints, Putting, Point

LEMMA LinkFoundKeeps ==
  ASSUME IInv, NEW p \in Proc, LinkFound(p)
  PROVE  IInv'
<1>1. /\ pc[p] = "linkfound" /\ cur[p] \in Slot /\ icache[cur[p]].inum \in Inum
      /\ PcOk(p) /\ At(p) = "linkfound" /\ ip[p] # None
  BY AtFacts, ConstantFacts DEF LinkFound, Putting, CurPoints, IpPoints, IInv, PcInv
<1>2. icache' \in CacheType /\ Steady(icache, icache') /\ disk' \in DiskType
  <2>. DEFINE node == [icache[cur[p]] EXCEPT !.lock = None]
  <2>1. icache' = SetTo(icache, cur[p], node) /\ disk' = disk
    BY DEF LinkFound, SetTo
  <2>2. /\ node \in NodeType /\ node.ref = icache[cur[p]].ref
        /\ node.inum = icache[cur[p]].inum
    BY <1>1, UnlockedType DEF IInv, Shape, CacheType
  <2>. HIDE DEF node
  <2>. QED
    BY <1>1, <2>1, <2>2, SetSteady DEF IInv, Shape
<1>3. HandsCur(p, "linkbad")
  BY <1>1 DEF LinkFound, HandsCur, PcOk, IInv, Shape
<1>. QED
  BY <1>1, <1>2, <1>3, HandsCurKeeps DEF CurPoints, IpPoints, Putting, Point

LEMMA NewLockKeeps ==
  ASSUME IInv, NEW p \in Proc, NewLock(p)
  PROVE  IInv'
<1>. DEFINE node == [LockedBy(ip[p], p) EXCEPT !.nlink = 1]
            dp == Linked([icache[cur[p]] EXCEPT !.lock = None], IF call[p].op = "mkdir" THEN 1 ELSE 0)
            c1 == SetTo(icache, ip[p], node)
            n == Last(call[p].path)
<1>1. /\ pc[p] = "newlock" /\ cur[p] \in Slot /\ icache[cur[p]].inum \in Inum
      /\ ip[p] \in Slot /\ icache[ip[p]].inum \in Inum
      /\ PcOk(p) /\ At(p) = "newlock" /\ call[p] \in Call /\ n \in Name
  BY AtFacts, LooksUp DEF NewLock, Putting, CurPoints, IpPoints, IInv, PcInv
<1>2. node \in NodeType /\ node.ref = icache[ip[p]].ref /\ node.inum = icache[ip[p]].inum
  <2>. DEFINE l == LockedBy(ip[p], p)
  <2>1. l \in NodeType /\ l.ref = icache[ip[p]].ref /\ l.inum = icache[ip[p]].inum
    BY <1>1, LockedByType DEF IInv
  <2>. HIDE DEF l
  <2>2. node = [l EXCEPT !.nlink = 1]
    BY DEF l
  <2>. QED
    BY <2>1, <2>2 DEF NodeType
<1>3. dp \in NodeType /\ dp.ref = icache[cur[p]].ref /\ dp.inum = icache[cur[p]].inum
  <2>. DEFINE u == [icache[cur[p]] EXCEPT !.lock = None]
              k == IF call[p].op = "mkdir" THEN 1 ELSE 0
  <2>1. u \in NodeType /\ u.ref = icache[cur[p]].ref /\ u.inum = icache[cur[p]].inum
    BY <1>1, UnlockedType DEF IInv, Shape, CacheType
  <2>2. k \in Int /\ dp = Linked(u, k)
    OBVIOUS
  <2>. HIDE DEF u, k, dp
  <2>. QED
    BY <2>1, <2>2, LinkedType
<1>4. /\ icache' = SetTo(c1, cur[p], dp)
      /\ disk' = EntrySet(Updated(Updated(disk, node), dp), dp.inum, n, inum[p])
  BY DEF NewLock, SetTo, EntrySet
<1>. HIDE DEF node, dp, c1, n
<1>5. c1 \in CacheType /\ Steady(icache, c1)
  BY <1>1, <1>2, SetSteady DEF c1, IInv, Shape
<1>6. icache' \in CacheType /\ Steady(icache, icache')
  <2>1. dp.ref = c1[cur[p]].ref /\ dp.inum = c1[cur[p]].inum
    BY <1>1, <1>3, <1>5 DEF Steady
  <2>2. icache' \in CacheType /\ Steady(c1, icache')
    BY <1>1, <1>3, <1>4, <1>5, <2>1, SetSteady
  <2>. QED
    BY <1>5, <2>2 DEF Steady
<1>7. disk' \in DiskType
  <2>1. inum[p] \in Inum \cup {None}
    BY DEF IInv, Shape
  <2>2. Updated(disk, node) \in DiskType
    BY <1>1, <1>2, UpdatedType DEF IInv, Shape
  <2>3. Updated(Updated(disk, node), dp) \in DiskType
    BY <1>1, <1>3, <2>2, UpdatedType
  <2>. QED
    BY <1>1, <1>3, <1>4, <2>1, <2>3, EntrySetType
<1>8. HandsCur(p, "created")
  BY <1>1 DEF NewLock, HandsCur, PcOk, IInv, Shape
<1>. QED
  BY <1>1, <1>6, <1>7, <1>8, ConstantFacts, HandsCurKeeps DEF CurPoints, IpPoints, Putting, Point

LEMMA UnlinkEntryKeeps ==
  ASSUME IInv, NEW p \in Proc, UnlinkEntry(p)
  PROVE  IInv'
<1>. DEFINE node == LockedBy(ip[p], p)
            dp == Linked([icache[cur[p]] EXCEPT !.lock = None], IF node.type = "dir" THEN -1 ELSE 0)
            c1 == SetTo(icache, ip[p], node)
            n == Last(call[p].path)
<1>1. /\ pc[p] = "unlinkip" /\ cur[p] \in Slot /\ icache[cur[p]].inum \in Inum
      /\ ip[p] \in Slot /\ icache[ip[p]].inum \in Inum
      /\ PcOk(p) /\ At(p) = "unlinkip" /\ call[p] \in Call /\ n \in Name
  BY AtFacts, LooksUp DEF UnlinkEntry, Putting, CurPoints, IpPoints, IInv, PcInv
<1>2. node \in NodeType /\ node.ref = icache[ip[p]].ref /\ node.inum = icache[ip[p]].inum
  BY <1>1, LockedByType DEF IInv
<1>3. dp \in NodeType /\ dp.ref = icache[cur[p]].ref /\ dp.inum = icache[cur[p]].inum
  <2>. DEFINE u == [icache[cur[p]] EXCEPT !.lock = None]
              k == IF node.type = "dir" THEN -1 ELSE 0
  <2>1. u \in NodeType /\ u.ref = icache[cur[p]].ref /\ u.inum = icache[cur[p]].inum
    BY <1>1, UnlockedType DEF IInv, Shape, CacheType
  <2>2. k \in Int /\ dp = Linked(u, k)
    OBVIOUS
  <2>. HIDE DEF u, k, dp
  <2>. QED
    BY <2>1, <2>2, LinkedType
<1>4. /\ icache' = SetTo(c1, cur[p], dp)
      /\ disk' = EntrySet(Updated(disk, dp), dp.inum, n, None)
  BY DEF UnlinkEntry, SetTo, EntrySet
<1>. HIDE DEF node, dp, c1, n
<1>5. c1 \in CacheType /\ Steady(icache, c1)
  BY <1>1, <1>2, SetSteady DEF c1, IInv, Shape
<1>6. icache' \in CacheType /\ Steady(icache, icache')
  <2>1. dp.ref = c1[cur[p]].ref /\ dp.inum = c1[cur[p]].inum
    BY <1>1, <1>3, <1>5 DEF Steady
  <2>2. icache' \in CacheType /\ Steady(c1, icache')
    BY <1>1, <1>3, <1>4, <1>5, <2>1, SetSteady
  <2>. QED
    BY <1>5, <2>2 DEF Steady
<1>7. disk' \in DiskType
  <2>1. Updated(disk, dp) \in DiskType
    BY <1>1, <1>3, UpdatedType DEF IInv, Shape
  <2>. QED
    BY <1>1, <1>3, <1>4, <2>1, EntrySetType
<1>8. HandsCur(p, "unlinked")
  BY <1>1 DEF UnlinkEntry, HandsCur, PcOk, IInv, Shape
<1>. QED
  BY <1>1, <1>6, <1>7, <1>8, ConstantFacts, HandsCurKeeps DEF CurPoints, IpPoints, Putting, Point

LEMMA UnlinkRefuseKeeps ==
  ASSUME IInv, NEW p \in Proc, UnlinkRefuse(p)
  PROVE  IInv'
<1>1. /\ pc[p] = "unlinkip" /\ ip[p] \in Slot /\ icache[ip[p]].inum \in Inum
      /\ cur[p] # None
  BY AtFacts, ConstantFacts DEF UnlinkRefuse, Putting, CurPoints, IpPoints
<1>2. icache' \in CacheType /\ Steady(icache, icache') /\ disk' \in DiskType
  <2>1. icache' = SetTo(icache, ip[p], LockedBy(ip[p], None)) /\ disk' = disk
    BY DEF UnlinkRefuse, SetTo
  <2>. QED
    BY <1>1, <2>1, LockedSteady DEF IInv, Shape
<1>3. HandsIp(p, "unlinkbad")
  BY DEF UnlinkRefuse, HandsIp, walkVars
<1>. QED
  BY <1>1, <1>2, <1>3, HandsIpKeeps DEF CurPoints, IpPoints

LEMMA UnlinkedKeeps ==
  ASSUME IInv, NEW p \in Proc, Unlinked(p)
  PROVE  IInv'
<1>1. /\ pc[p] = "unlinked" /\ ip[p] \in Slot /\ icache[ip[p]].inum \in Inum
      /\ cur[p] = None
  BY AtFacts, ConstantFacts DEF Unlinked, Putting, CurPoints, IpPoints
<1>2. icache' \in CacheType /\ Steady(icache, icache') /\ disk' \in DiskType
  <2>. DEFINE u == [icache[ip[p]] EXCEPT !.lock = None]
              node == Linked(u, -1)
  <2>1. icache' = SetTo(icache, ip[p], node) /\ disk' = Updated(disk, node)
    BY DEF Unlinked, SetTo
  <2>2. u \in NodeType /\ u.ref = icache[ip[p]].ref /\ u.inum = icache[ip[p]].inum
    BY <1>1, UnlockedType DEF IInv, Shape, CacheType
  <2>. HIDE DEF u
  <2>3. node \in NodeType /\ node.ref = icache[ip[p]].ref /\ node.inum = icache[ip[p]].inum
    BY <2>2, LinkedType
  <2>. HIDE DEF node
  <2>. QED
    BY <1>1, <2>1, <2>3, SetSteady, UpdatedType DEF IInv, Shape
<1>3. HandsIp(p, "idle")
  BY DEF Unlinked, HandsIp, walkVars
<1>. QED
  BY <1>1, <1>2, <1>3, HandsIpKeeps DEF CurPoints, IpPoints

LEMMA LinkBadKeeps ==
  ASSUME IInv, NEW p \in Proc, LinkBad(p)
  PROVE  IInv'
<1>1. /\ pc[p] = "linkbad" /\ ip[p] \in Slot /\ icache[ip[p]].inum \in Inum
      /\ cur[p] = None
  BY AtFacts, ConstantFacts DEF LinkBad, Putting, CurPoints, IpPoints
<1>2. icache' \in CacheType /\ Steady(icache, icache') /\ disk' \in DiskType
  <2>. DEFINE u == LockedBy(ip[p], None)
              node == Linked(u, -1)
  <2>1. icache' = SetTo(icache, ip[p], node) /\ disk' = Updated(disk, node)
    BY DEF LinkBad, SetTo
  <2>2. u \in NodeType /\ u.ref = icache[ip[p]].ref /\ u.inum = icache[ip[p]].inum
    BY <1>1, LockedByType DEF IInv, Shape, CacheType
  <2>. HIDE DEF u
  <2>3. node \in NodeType /\ node.ref = icache[ip[p]].ref /\ node.inum = icache[ip[p]].inum
    BY <2>2, LinkedType
  <2>. HIDE DEF node
  <2>. QED
    BY <1>1, <2>1, <2>3, SetSteady, UpdatedType DEF IInv, Shape
<1>3. HandsIp(p, "idle")
  BY DEF LinkBad, HandsIp, walkVars
<1>. QED
  BY <1>1, <1>2, <1>3, HandsIpKeeps DEF CurPoints, IpPoints

LEMMA WalkParentKeeps ==
  ASSUME IInv, NEW p \in Proc, WalkParent(p)
  PROVE  IInv'
<1>1. /\ pc[p] = "walk" /\ cur[p] \in Slot /\ icache[cur[p]].inum \in Inum
      /\ PcOk(p) /\ At(p) = "walk" /\ WantsParent(p)
  BY AtFacts DEF WalkParent, Putting, CurPoints, IInv, PcInv
<1>2. icache' \in CacheType /\ Steady(icache, icache') /\ disk' \in DiskType
  <2>1. icache' = SetTo(icache, cur[p], LockedBy(cur[p], None)) /\ disk' = disk
    BY DEF WalkParent, SetTo
  <2>. QED
    BY <1>1, <2>1, LockedSteady DEF IInv, Shape
<1>3. GoesTo(p, Found(p)) /\ inum' = inum
  BY DEF WalkParent, GoesTo
<1>4. inum[p] = None
  BY <1>1 DEF PcOk
<1>5. /\ Found(p) \in Point /\ Found(p) \in CurPoints \ {"walk", "linkold", "newget", "newlock"}
      /\ Found(p) \in IpPoints <=> ip[p] # None
  BY <1>1, FoundFacts DEF CurPoints, IpPoints, Point
<1>6. pc[p] \in CurPoints
  BY <1>1 DEF CurPoints
<1>7. rest[p] # <<>>
  <2>. DEFINE r == rest[p]
  <2>1. Len(r) = 1
    BY DEF WalkParent
  <2>. HIDE DEF r
  <2>2. r # <<>>
    BY <2>1
  <2>. QED
    BY <2>2 DEF r
<1>8. /\ Found(p) \in {"create", "unlink"} => call[p].path # <<>>
      /\ Found(p) = "linknew" => call[p].new # <<>>
  BY <1>1, <1>7, FoundFacts DEF PcOk
<1>9. Found(p) \in {"create", "unlink", "linknew"}
  BY <1>1, <1>5, FoundFacts
<1>. QED
  BY <1>2, <1>3, <1>4, <1>5, <1>6, <1>8, <1>9, GoesToKeeps

LEMMA CreateNewKeeps ==
  ASSUME IInv, NEW p \in Proc, CreateNew(p)
  PROVE  IInv'
<1>1. /\ pc[p] = "create" /\ cur[p] \in Slot /\ icache[cur[p]].inum \in Inum
      /\ PcOk(p) /\ At(p) = "create" /\ ip[p] = None
  BY AtFacts DEF CreateNew, Putting, CurPoints, IpPoints, IInv, PcInv
<1>2. icache' \in CacheType /\ Steady(icache, icache') /\ disk' \in DiskType
  <2>1. icache' = SetTo(icache, cur[p], LockedBy(cur[p], p)) /\ disk' = disk
    BY DEF CreateNew, SetTo
  <2>. QED
    BY <1>1, <2>1, LockedSteady DEF IInv, Shape
<1>3. GoesTo(p, "ialloc") /\ inum' = inum
  BY DEF CreateNew, GoesTo, walkVars
<1>4. inum[p] = None /\ call[p].path # <<>>
  BY <1>1 DEF PcOk
<1>. QED
  BY <1>1, <1>2, <1>3, <1>4, GoesToKeeps DEF CurPoints, IpPoints, Point

LEMMA IallocKeeps ==
  ASSUME IInv, NEW p \in Proc, Ialloc(p)
  PROVE  IInv'
<1>1. pc[p] = "ialloc" /\ ip[p] = None /\ call[p].path # <<>>
  <2>1. pc[p] = "ialloc" /\ ip[p] = None /\ PcOk(p) /\ At(p) = "ialloc"
    BY AtFacts DEF Ialloc, Putting, IpPoints, IInv, PcInv
  <2>. QED
    BY <2>1 DEF PcOk
<1>2. PICK i \in Inum :
        /\ disk' = [disk EXCEPT ![i] =
                     [type |-> IF call[p].op = "mkdir" THEN "dir" ELSE "file",
                      nlink |-> 0, dir |-> NoEntries]]
        /\ inum' = [inum EXCEPT ![p] = i]
  BY DEF Ialloc
<1>3. disk' \in DiskType
  <2>. DEFINE t == IF call[p].op = "mkdir" THEN "dir" ELSE "file"
              d == [type |-> t, nlink |-> 0, dir |-> NoEntries]
  <2>1. t \in Type /\ NoEntries \in [Name -> Inum \cup {None}]
    BY DEF Type, NoEntries
  <2>. HIDE DEF t
  <2>2. d \in [type : Type, nlink : Int, dir : [Name -> Inum \cup {None}]]
    BY <2>1
  <2>3. disk' = [disk EXCEPT ![i] = d]
    BY <1>2 DEF t
  <2>. HIDE DEF d
  <2>. QED
    BY <2>2, <2>3 DEF IInv, Shape, DiskType
<1>4. icache' = icache
  BY DEF Ialloc
<1>5. GoesTo(p, "newget")
  BY <1>2 DEF Ialloc, GoesTo, walkVars
<1>6. inum'[p] = i /\ i # None
  BY <1>2, ConstantFacts DEF IInv, Shape
<1>7. icache' \in CacheType /\ Steady(icache, icache')
  BY <1>4 DEF IInv, Shape, Steady
<1>. QED
  BY <1>1, <1>3, <1>5, <1>6, <1>7, GoesToKeeps DEF CurPoints, IpPoints, Point

-----------------------------------------------------------------------------
(* iput().                                                                 *)

LEMMA PutFacts ==
  ASSUME IInv, NEW p \in Proc, pc[p] \in Putting
  PROVE  /\ puts[p] \in Seq(Slot) /\ Len(puts[p]) \in 1 .. 2
         /\ Head(puts[p]) \in Slot /\ icache[Head(puts[p])].inum \in Inum
         /\ PutAt(puts[p], 1) = Head(puts[p])
         /\ PutAt(Tail(puts[p]), 1) = PutAt(puts[p], 2)
         /\ PutAt(Tail(puts[p]), 2) = None
         /\ Tail(puts[p]) \in Seq(Slot)
         /\ Tail(puts[p]) # <<>> => Len(Tail(puts[p])) \in 1 .. 2
<1>. DEFINE q == puts[p]
<1>1. q \in Seq(Slot) /\ Len(q) \in 1 .. 2
  BY DEF IInv, Shape, PcInv, PcOk
<1>. HIDE DEF q
<1>2. /\ Head(q) \in Slot /\ PutAt(q, 1) = Head(q) /\ Tail(q) \in Seq(Slot)
      /\ Len(Tail(q)) = Len(q) - 1
  BY <1>1 DEF PutAt
<1>3. PutAt(Tail(q), 1) = PutAt(q, 2) /\ PutAt(Tail(q), 2) = None
  <2>. DEFINE r == Tail(q)
  <2>0. /\ DOMAIN q = 1 .. Len(q) /\ DOMAIN r = 1 .. Len(r) /\ Len(r) = Len(q) - 1
        /\ \A k \in 1 .. Len(r) : r[k] = q[k + 1]
    BY <1>1, <1>2
  <2>. HIDE DEF r
  <2>1. CASE Len(q) = 1
    <3>1. 1 \notin DOMAIN r /\ 2 \notin DOMAIN r /\ 2 \notin DOMAIN q
      BY <2>0, <2>1
    <3>. QED
      BY <3>1 DEF PutAt, r
  <2>2. CASE Len(q) = 2
    <3>1. 1 \in DOMAIN r /\ 2 \notin DOMAIN r /\ 2 \in DOMAIN q /\ r[1] = q[2]
      BY <2>0, <2>2
    <3>. QED
      BY <3>1 DEF PutAt, r
  <2>. QED
    BY <1>1, <2>1, <2>2
<1>4. Tail(q) # <<>> => Len(Tail(q)) \in 1 .. 2
  BY <1>1, <1>2
<1>5. icache[Head(q)].inum \in Inum
  BY <1>2, HeldRef DEF q, IInv, UseInv
<1>. QED
  BY <1>1, <1>2, <1>3, <1>4, <1>5 DEF q

LEMMA PutLockKeeps ==
  ASSUME IInv, NEW p \in Proc, PutLock(p)
  PROVE  IInv'
<1>. DEFINE s == Head(puts[p])
            P == IF icache[s].valid /\ icache[s].nlink = 0 /\ icache[s].ref = 1
                 THEN "putfree" ELSE "putdrop"
<1>1. pc[p] = "put" /\ s \in Slot /\ PcOk(p)
  BY PutFacts DEF PutLock, Putting, IInv, PcInv
<1>2. icache' \in CacheType /\ Steady(icache, icache')
  <2>1. CASE icache' = icache
    BY <2>1 DEF IInv, Shape, Steady
  <2>2. CASE icache' = [icache EXCEPT ![s].lock = p]
    <3>. DEFINE m == icache[s]
                node == [m EXCEPT !.lock = p]
    <3>1. icache' = SetTo(icache, s, node) /\ m \in NodeType
      BY <1>1, <2>2 DEF SetTo, IInv, Shape, CacheType
    <3>. HIDE DEF m
    <3>2. node \in NodeType /\ node.ref = m.ref /\ node.inum = m.inum
      BY <3>1, UnlockedType
    <3>. HIDE DEF node
    <3>. QED
      BY <1>1, <3>1, <3>2, SetSteady DEF m, IInv, Shape
  <2>. QED
    BY <2>1, <2>2 DEF PutLock
<1>3. /\ pc' = [pc EXCEPT ![p] = P]
      /\ UNCHANGED <<disk, fileVars, walkVars, ip, inum, putVars>>
  BY DEF PutLock
<1>4. P \in Point /\ P \in Putting
  BY DEF Point, Putting
<1>. HIDE DEF P
<1>5. Shape'
  BY <1>2, <1>3, <1>4 DEF IInv, Shape, fileVars, walkVars, putVars
<1>6. Only(p)
  BY <1>3 DEF IInv, Shape, Only, walkVars, putVars
<1>7. /\ pc'[p] = P /\ At(p)' = At(p) /\ pc[p] \in Putting
      /\ UNCHANGED <<disk, fileVars, walkVars, ip, inum, putVars>>
  BY <1>1, <1>3, <1>4 DEF IInv, Shape, At, Putting, putVars
<1>8. PcOk(p)'
  BY <1>1, <1>4, <1>7 DEF PcOk, walkVars, putVars
<1>9. \A x \in Slot : Holds(p, x)' = Holds(p, x)
  BY <1>7 DEF Holds, walkVars, putVars
<1>. QED
  BY <1>2, <1>3, <1>5, <1>6, <1>8, <1>9, SteadyStep

LEMMA PutFreeKeeps ==
  ASSUME IInv, NEW p \in Proc, PutFree(p)
  PROVE  IInv'
<1>. DEFINE s == Head(puts[p])
            node == Freed(icache[s])
<1>1. pc[p] = "putfree" /\ s \in Slot /\ icache[s].inum \in Inum /\ PcOk(p)
  BY PutFacts DEF PutFree, Putting, IInv, PcInv
<1>2. icache' \in CacheType /\ Steady(icache, icache')
  <2>. DEFINE m == icache[s]
  <2>1. icache' = SetTo(icache, s, node) /\ m \in NodeType
    BY <1>1 DEF PutFree, SetTo, IInv, Shape, CacheType
  <2>2. /\ Freed(m) \in NodeType /\ Freed(m).ref = m.ref /\ Freed(m).inum = m.inum
    <3>. HIDE DEF m
    <3>0. m \in NodeType
      BY <2>1
    <3>. DEFINE u == [m EXCEPT !.type = "none"]
                v == [u EXCEPT !.valid = FALSE]
    <3>1. u \in NodeType /\ u.ref = m.ref /\ u.inum = m.inum
      BY <3>0 DEF NodeType, Type
    <3>2. Freed(m) = [v EXCEPT !.lock = None]
      BY DEF Freed
    <3>. HIDE DEF u
    <3>3. v \in NodeType /\ v.ref = m.ref /\ v.inum = m.inum
      BY <3>1 DEF NodeType
    <3>. HIDE DEF v
    <3>. QED
      BY <3>2, <3>3, UnlockedType
  <2>. HIDE DEF node
  <2>. QED
    BY <1>1, <2>1, <2>2, SetSteady DEF node, IInv, Shape
<1>3. disk' \in DiskType
  <2>1. /\ disk' = [disk EXCEPT ![icache[s].inum].type = "none",
                                ![icache[s].inum].dir = NoEntries]
        /\ NoEntries \in [Name -> Inum \cup {None}] /\ "none" \in Type
    BY DEF PutFree, NoEntries, Type
  <2>. QED
    BY <1>1, <2>1 DEF IInv, Shape, DiskType
<1>4. /\ pc' = [pc EXCEPT ![p] = "putdrop"]
      /\ UNCHANGED <<fileVars, walkVars, ip, inum, putVars>>
  BY DEF PutFree
<1>5. Shape'
  BY <1>2, <1>3, <1>4 DEF IInv, Shape, Point, fileVars, walkVars, putVars
<1>6. Only(p)
  BY <1>4 DEF IInv, Shape, Only, walkVars, putVars
<1>7. pc'[p] \in Putting /\ At(p)' = At(p) /\ pc[p] \in Putting
  BY <1>1, <1>4 DEF IInv, Shape, At, Putting, putVars
<1>8. PcOk(p)'
  BY <1>1, <1>4, <1>7 DEF PcOk, walkVars, putVars
<1>9. \A x \in Slot : Holds(p, x)' = Holds(p, x)
  BY <1>4 DEF Holds, walkVars, putVars
<1>. QED
  BY <1>2, <1>4, <1>5, <1>6, <1>8, <1>9, SteadyStep

LEMMA DropKeeps ==
  ASSUME IInv, NEW p \in Proc, pc[p] \in Putting, Drop(p)
  PROVE  IInv'
<1>. DEFINE s == Head(puts[p])
            q == Tail(puts[p])
            P == IF q # <<>> THEN "put" ELSE then[p]
            T == IF q # <<>> THEN then[p] ELSE "idle"
            L == IF q = <<>> /\ then[p] = "idle" THEN None ELSE call[p]
<1>1. /\ s \in Slot /\ icache[s].inum \in Inum /\ PcOk(p)
      /\ q \in Seq(Slot) /\ (q # <<>> => Len(q) \in 1 .. 2)
      /\ PutAt(puts[p], 1) = s /\ PutAt(q, 1) = PutAt(puts[p], 2) /\ PutAt(q, 2) = None
  BY PutFacts DEF IInv, PcInv
<1>2. /\ icache' = [icache EXCEPT ![s].ref = @ - 1]
      /\ puts' = [puts EXCEPT ![p] = q]
      /\ UNCHANGED <<disk, fileVars, rest, cur, ip, inum>>
  BY DEF Drop
<1>3. /\ pc' = [pc EXCEPT ![p] = P]
      /\ then' = [then EXCEPT ![p] = T]
      /\ call' = [call EXCEPT ![p] = L]
  <2>1. then = [then EXCEPT ![p] = then[p]] /\ call = [call EXCEPT ![p] = call[p]]
    BY DEF IInv, Shape
  <2>2. CASE q # <<>>
    BY <2>1, <2>2 DEF Drop
  <2>3. CASE q = <<>>
    BY <2>1, <2>3 DEF Drop
  <2>. QED
    BY <2>2, <2>3
<1>4. P \in Point /\ T \in Point /\ L \in Call \cup {None} /\ T \notin Putting
  BY <1>1 DEF IInv, Shape, Point, Putting, PcOk
<1>5. /\ pc'[p] = P /\ then'[p] = T /\ puts'[p] = q /\ call'[p] = L
      /\ rest'[p] = rest[p] /\ cur'[p] = cur[p] /\ ip'[p] = ip[p] /\ inum'[p] = inum[p]
  BY <1>2, <1>3 DEF IInv, Shape
<1>6. At(p)' = At(p) /\ (At(p) # "idle" => L = call[p]) /\ (P \notin Putting => q = <<>>)
  <2>1. At(p) = then[p] /\ then[p] \notin Putting
    BY <1>1 DEF At, PcOk
  <2>. QED
    BY <1>5, <2>1 DEF At, Putting
<1>7. P \in Putting => q # <<>>
  BY <1>1 DEF PcOk, Putting
<1>. HIDE DEF P, T, L, q
<1>8. icache' \in CacheType /\ Dropped(icache, icache', s)
  <2>. DEFINE m == icache[s]
              node == [m EXCEPT !.ref = @ - 1]
  <2>1. icache' = [icache EXCEPT ![s] = node] /\ m \in NodeType
    BY <1>1, <1>2 DEF IInv, Shape, CacheType
  <2>. HIDE DEF m
  <2>2. node \in NodeType /\ node.ref = m.ref - 1 /\ node.inum = m.inum
    BY <2>1 DEF NodeType
  <2>. HIDE DEF node
  <2>3. icache \in CacheType /\ \A x \in Slot : icache[x].ref \in Int
    BY DEF IInv, Shape, CacheType, NodeType
  <2>. QED
    BY <1>1, <2>1, <2>2, <2>3 DEF CacheType, Dropped, Ind, m
<1>9. Shape'
  <2>1. /\ pc' \in [Proc -> Point] /\ then' \in [Proc -> Point]
        /\ call' \in [Proc -> Call \cup {None}] /\ puts' \in [Proc -> Seq(Slot)]
    BY <1>1, <1>2, <1>3, <1>4 DEF IInv, Shape
  <2>. QED
    BY <1>2, <1>8, <2>1 DEF IInv, Shape, fileVars
<1>10. Only(p)
  BY <1>2, <1>3 DEF IInv, Shape, Only
<1>11. PcOk(p)'
  BY <1>1, <1>4, <1>5, <1>6, <1>7 DEF PcOk
<1>12. ASSUME NEW x \in Slot
       PROVE  Holds(p, x)' = Holds(p, x) - Ind(s, x)
  <2>1. Holds(p, x)' = Held(cur[p], ip[p], q, x)
    BY <1>5 DEF Holds
  <2>2. Held(cur[p], ip[p], q, x)
          = Ind(cur[p], x) + Ind(ip[p], x) + Ind(PutAt(puts[p], 2), x) + Ind(None, x)
    BY <1>1 DEF Held
  <2>3. Holds(p, x)
          = Ind(cur[p], x) + Ind(ip[p], x) + Ind(s, x) + Ind(PutAt(puts[p], 2), x)
    BY <1>1 DEF Holds, Held
  <2>4. Ind(None, x) = 0 /\ \A y : Ind(y, x) \in Int
    BY HeldForms
  <2>. QED
    BY <2>1, <2>2, <2>3, <2>4
<1>. QED
  BY <1>2, <1>8, <1>9, <1>10, <1>11, <1>12, DroppedStep

-----------------------------------------------------------------------------
(* The steps that get a reference.                                         *)

LEMMA IgetOn ==
  ASSUME IInv, NEW c \in CacheType, Steady(icache, c), NEW i \in Inum,
         icache' = Iget(c, i)
  PROVE  /\ SlotOf(c, i) \in Slot
         /\ icache' \in CacheType
         /\ Got(icache, icache', i, SlotOf(c, i))
<1>1. CacheOk(c)
  BY IInvCache, SteadyOk
<1>2. /\ SlotOf(c, i) \in Slot
      /\ Iget(c, i) \in CacheType
      /\ Got(c, Iget(c, i), i, SlotOf(c, i))
  BY <1>1, IgetFacts
<1>. QED
  BY <1>2, SteadyGot

LEMMA SteadySelf == ASSUME IInv PROVE icache \in CacheType /\ Steady(icache, icache)
BY DEF IInv, Shape, Steady

\* p gets the inode in slot t as its second one.
GetsIp(p, N, t) ==
  /\ GoTo(p, N)
  /\ ip' = [ip EXCEPT ![p] = t]
  /\ UNCHANGED <<disk, fileVars, walkVars, inum>>

LEMMA GetsIpKeeps ==
  ASSUME IInv, NEW p \in Proc, NEW N \in {"newlock", "unlinkip"}, NEW t \in Slot,
         NEW i \in Inum, GetsIp(p, N, t),
         pc[p] \in {"newget", "unlink"}, N = "newlock" <=> pc[p] = "newget",
         icache' \in CacheType, Got(icache, icache', i, t)
  PROVE  IInv'
<1>1. /\ puts[p] = <<>> /\ ip[p] = None /\ cur[p] \in Slot /\ PcOk(p) /\ At(p) = pc[p]
      /\ \A x \in Slot : Holds(p, x) = Ind(cur[p], x) + Ind(ip[p], x)
      /\ call[p] \in Call
  BY AtFacts DEF Putting, CurPoints, IpPoints, IInv, PcInv
<1>2. /\ pc' = [pc EXCEPT ![p] = N] /\ ip' = [ip EXCEPT ![p] = t]
      /\ UNCHANGED <<disk, fileVars, call, rest, cur, inum, puts, then>>
  BY DEF GetsIp, GoTo, putVars, walkVars
<1>3. Shape'
  BY <1>2 DEF IInv, Shape, Point, fileVars
<1>4. Only(p)
  BY <1>2 DEF IInv, Shape, Only
<1>5. /\ pc'[p] = N /\ ip'[p] = t /\ cur'[p] = cur[p] /\ puts'[p] = <<>>
      /\ then'[p] = then[p] /\ inum'[p] = inum[p] /\ call'[p] = call[p]
  BY <1>1, <1>2 DEF IInv, Shape
<1>6. PcOk(p)'
  BY <1>1, <1>5, ConstantFacts DEF PcOk, At, Putting, CurPoints, IpPoints
<1>7. ASSUME NEW x \in Slot
      PROVE  Holds(p, x)' = Holds(p, x) + Ind(t, x)
  <2>1. Holds(p, x)' = Held(cur[p], t, <<>>, x)
    BY <1>5 DEF Holds
  <2>2. Held(cur[p], t, <<>>, x) = Ind(cur[p], x) + Ind(t, x)
    BY HeldForms
  <2>3. Holds(p, x) = Ind(cur[p], x) + Ind(None, x)
    BY <1>1
  <2>4. Ind(None, x) = 0 /\ Ind(cur[p], x) \in Int /\ Ind(t, x) \in Int
    BY HeldForms
  <2>. QED
    BY <2>1, <2>2, <2>3, <2>4
<1>. QED
  BY <1>2, <1>3, <1>4, <1>6, <1>7, GotStep

LEMMA NewGetKeeps ==
  ASSUME IInv, NEW p \in Proc, NewGet(p)
  PROVE  IInv'
<1>. DEFINE t == SlotOf(icache, inum[p])
<1>1. pc[p] = "newget" /\ PcOk(p) /\ At(p) = "newget" /\ inum[p] \in Inum \cup {None}
  BY AtFacts DEF NewGet, Putting, IInv, PcInv, Shape
<1>2. inum[p] \in Inum
  BY <1>1 DEF PcOk
<1>3. icache' = Iget(icache, inum[p])
  BY DEF NewGet
<1>4. t \in Slot /\ icache' \in CacheType /\ Got(icache, icache', inum[p], t)
  BY <1>2, <1>3, SteadySelf, IgetOn
<1>5. GetsIp(p, "newlock", t)
  BY DEF NewGet, GetsIp
<1>. HIDE DEF t
<1>. QED
  BY <1>1, <1>2, <1>4, <1>5, GetsIpKeeps

LEMMA UnlinkFoundKeeps ==
  ASSUME IInv, NEW p \in Proc, UnlinkFound(p)
  PROVE  IInv'
<1>. DEFINE i == Entry(cur[p], Last(call[p].path))
            c == SetTo(icache, cur[p], LockedBy(cur[p], p))
            t == SlotOf(c, i)
<1>1. /\ pc[p] = "unlink" /\ cur[p] \in Slot /\ icache[cur[p]].inum \in Inum
      /\ call[p] \in Call
  BY AtFacts DEF UnlinkFound, Putting, CurPoints
<1>2. i \in Inum
  BY <1>1, LooksUp, EntryType DEF UnlinkFound, IInv
<1>3. c \in CacheType /\ Steady(icache, c)
  BY <1>1, LockedSteady
<1>4. icache' = Iget(c, i) /\ GetsIp(p, "unlinkip", t)
  BY DEF UnlinkFound, GetsIp, SetTo
<1>. HIDE DEF i, c
<1>5. t \in Slot /\ icache' \in CacheType /\ Got(icache, icache', i, t)
  BY <1>2, <1>3, <1>4, IgetOn
<1>. HIDE DEF t
<1>. QED
  BY <1>1, <1>2, <1>4, <1>5, GetsIpKeeps

LEMMA BeginKeeps ==
  ASSUME IInv, NEW p \in Proc, NEW c \in Call, Begin(p, c)
  PROVE  IInv'
<1>. DEFINE t == SlotOf(icache, ROOTINO)
<1>1. /\ pc[p] = "idle" /\ puts[p] = <<>> /\ cur[p] = None /\ ip[p] = None
      /\ PcOk(p) /\ At(p) = "idle"
      /\ \A x \in Slot : Holds(p, x) = Ind(cur[p], x) + Ind(ip[p], x)
  BY AtFacts DEF Begin, Putting, CurPoints, IpPoints, IInv, PcInv
<1>2. t \in Slot /\ icache' \in CacheType /\ Got(icache, icache', ROOTINO, t)
  <2>1. icache' = Iget(icache, ROOTINO)
    BY DEF Begin
  <2>. QED
    BY <2>1, SteadySelf, IgetOn, ConstantFacts
<1>3. /\ pc' = [pc EXCEPT ![p] = "walk"] /\ cur' = [cur EXCEPT ![p] = t]
      /\ call' = [call EXCEPT ![p] = c] /\ rest' = [rest EXCEPT ![p] = c.path]
      /\ UNCHANGED <<disk, fileVars, ip, inum, puts, then>>
  BY DEF Begin, GoTo, putVars
<1>4. c.path \in Seq(Name)
  BY FilesAssumption
<1>. HIDE DEF t
<1>5. Shape'
  <2>1. /\ rest' \in [Proc -> Seq(Name)] /\ cur' \in [Proc -> Slot \cup {None}]
        /\ call' \in [Proc -> Call \cup {None}] /\ pc' \in [Proc -> Point]
    BY <1>2, <1>3, <1>4 DEF IInv, Shape, Point
  <2>. QED
    BY <1>2, <1>3, <2>1 DEF IInv, Shape, fileVars
<1>6. Only(p)
  BY <1>3 DEF IInv, Shape, Only
<1>7. /\ pc'[p] = "walk" /\ ip'[p] = None /\ cur'[p] = t /\ puts'[p] = <<>>
      /\ then'[p] = then[p] /\ inum'[p] = inum[p] /\ call'[p] = c /\ rest'[p] = c.path
  BY <1>1, <1>3 DEF IInv, Shape
<1>8. PcOk(p)'
  BY <1>1, <1>2, <1>4, <1>7, ConstantFacts DEF PcOk, At, Putting, CurPoints, IpPoints
<1>9. ASSUME NEW x \in Slot
      PROVE  Holds(p, x)' = Holds(p, x) + Ind(t, x)
  <2>1. Holds(p, x)' = Held(t, None, <<>>, x)
    BY <1>7 DEF Holds
  <2>2. Held(t, None, <<>>, x) = Ind(t, x) + Ind(None, x)
    BY HeldForms
  <2>3. Holds(p, x) = Ind(None, x) + Ind(None, x)
    BY <1>1
  <2>4. Ind(None, x) = 0 /\ Ind(t, x) \in Int
    BY HeldForms
  <2>. QED
    BY <2>1, <2>2, <2>3, <2>4
<1>. QED
  BY <1>2, <1>3, <1>5, <1>6, <1>8, <1>9, ConstantFacts, GotStep

LEMMA WalkDownKeeps ==
  ASSUME IInv, NEW p \in Proc, WalkDown(p)
  PROVE  IInv'
<1>. DEFINE s == cur[p]
            i == Entry(s, rest[p][1])
            c == SetTo(icache, s, LockedBy(s, None))
            t == SlotOf(c, i)
            N == IF Len(rest[p]) = 1 THEN Found(p) ELSE "walk"
<1>1. /\ pc[p] = "walk" /\ puts[p] = <<>> /\ s \in Slot /\ icache[s].inum \in Inum
      /\ PcOk(p) /\ At(p) = "walk" /\ call[p] \in Call /\ ip[p] \in Slot \cup {None}
      /\ \A x \in Slot : Holds(p, x) = Ind(s, x) + Ind(ip[p], x)
  BY AtFacts DEF WalkDown, Putting, CurPoints, IInv, PcInv
<1>2. /\ rest[p] \in Seq(Name) /\ rest[p] # <<>> /\ rest[p][1] \in Name
      /\ Tail(rest[p]) \in Seq(Name) /\ (Len(rest[p]) # 1 => Tail(rest[p]) # <<>>)
  <2>1. rest[p] \in Seq(Name) /\ rest[p] # <<>>
    BY DEF WalkDown, IInv, Shape
  <2>. DEFINE r == rest[p]
  <2>. HIDE DEF r
  <2>2. r \in Seq(Name) /\ r # <<>>
    BY <2>1 DEF r
  <2>3. /\ Len(r) \in Nat /\ Len(r) > 0 /\ r[1] \in Name
        /\ Tail(r) \in Seq(Name) /\ Len(Tail(r)) = Len(r) - 1
    <3>1. Len(r) \in Nat /\ Len(r) > 0
      BY <2>2
    <3>2. r[1] \in Name
      BY <2>2, <3>1
    <3>3. Tail(r) \in Seq(Name) /\ Len(Tail(r)) = Len(r) - 1
      BY <2>2, <3>1
    <3>. QED
      BY <3>1, <3>2, <3>3
  <2>4. Len(r) # 1 => Tail(r) # <<>>
    <3>1. Len(r) # 1 => Len(Tail(r)) # 0
      BY <2>3
    <3>. DEFINE u == Tail(r)
    <3>2. Len(<<>>) = 0
      OBVIOUS
    <3>3. Len(u) = 0 \/ u # <<>>
      <4>. HIDE DEF u
      <4>. QED
        BY <3>2
    <3>. QED
      BY <3>1, <3>3
  <2>. QED
    BY <2>2, <2>3, <2>4 DEF r
<1>3. i \in Inum
  BY <1>1, <1>2, EntryType DEF WalkDown, IInv
<1>4. c \in CacheType /\ Steady(icache, c)
  BY <1>1, LockedSteady
<1>5. /\ icache' = Iget(c, i)
      /\ pc' = [pc EXCEPT ![p] = "put"] /\ then' = [then EXCEPT ![p] = N]
      /\ puts' = [puts EXCEPT ![p] = <<s>>] /\ cur' = [cur EXCEPT ![p] = t]
      /\ rest' = [rest EXCEPT ![p] = Tail(rest[p])]
      /\ UNCHANGED <<disk, fileVars, call, ip, inum>>
  BY DEF WalkDown, Put, SetTo
<1>6. /\ N \in CurPoints /\ N \in Point /\ N \notin Putting \cup {"newget", "newlock"}
      /\ N # "walk" => (N \in IpPoints <=> ip[p] # None)
      /\ N = "linkold" => call[p].op = "link"
      /\ N \in {"walk", "open", "linkold"}
  <2>1. CASE Len(rest[p]) = 1
    <3>1. N = Found(p) /\ ~WantsParent(p)
      BY <2>1 DEF WalkDown
    <3>. QED
      BY <1>1, <3>1, FoundFacts DEF CurPoints, IpPoints, Point, Putting
  <2>2. CASE Len(rest[p]) # 1
    BY <2>2 DEF CurPoints, Point, Putting
  <2>. QED
    BY <2>1, <2>2
<1>. HIDE DEF i, c, N
<1>7. t \in Slot /\ icache' \in CacheType /\ Got(icache, icache', i, t)
  BY <1>3, <1>4, <1>5, IgetOn
<1>. HIDE DEF t
<1>8. Shape'
  <2>1. /\ pc' \in [Proc -> Point] /\ then' \in [Proc -> Point]
        /\ puts' \in [Proc -> Seq(Slot)] /\ cur' \in [Proc -> Slot \cup {None}]
        /\ rest' \in [Proc -> Seq(Name)]
    <3>1. "put" \in Point /\ <<s>> \in Seq(Slot)
      BY <1>1 DEF Point
    <3>. QED
      BY <1>2, <1>5, <1>6, <1>7, <3>1 DEF IInv, Shape
  <2>. QED
    BY <1>5, <1>7, <2>1 DEF IInv, Shape, fileVars
<1>9. Only(p)
  BY <1>5 DEF IInv, Shape, Only
<1>10. /\ pc'[p] = "put" /\ then'[p] = N /\ puts'[p] = <<s>> /\ cur'[p] = t
       /\ ip'[p] = ip[p] /\ inum'[p] = inum[p] /\ call'[p] = call[p]
       /\ rest'[p] = Tail(rest[p])
  BY <1>5 DEF IInv, Shape
<1>11. PcOk(p)'
  <2>1. pc'[p] \in Putting /\ At(p)' = N /\ t # None
    BY <1>7, <1>10, ConstantFacts DEF At, Putting
  <2>2. inum[p] = None
    BY <1>1 DEF PcOk
  <2>. QED
    BY <1>1, <1>2, <1>6, <1>10, <2>1, <2>2 DEF PcOk
<1>12. ASSUME NEW x \in Slot
       PROVE  Holds(p, x)' = Holds(p, x) + Ind(t, x)
  <2>1. Holds(p, x)' = Held(t, ip[p], <<s>>, x)
    BY <1>10 DEF Holds
  <2>2. Held(t, ip[p], <<s>>, x) = Ind(t, x) + Ind(ip[p], x) + Ind(s, x)
    BY HeldForms
  <2>3. Holds(p, x) = Ind(s, x) + Ind(ip[p], x)
    BY <1>1
  <2>4. Ind(s, x) \in Int /\ Ind(ip[p], x) \in Int /\ Ind(t, x) \in Int
    BY HeldForms
  <2>. QED
    BY <2>1, <2>2, <2>3, <2>4
<1>. QED
  BY <1>3, <1>5, <1>7, <1>8, <1>9, <1>11, <1>12, GotStep

LEMMA CreateOldKeeps ==
  ASSUME IInv, NEW p \in Proc, CreateOld(p)
  PROVE  IInv'
<1>. DEFINE s == cur[p]
            i == Entry(s, Last(call[p].path))
            c == SetTo(icache, s, LockedBy(s, None))
            t == SlotOf(c, i)
<1>1. /\ pc[p] = "create" /\ puts[p] = <<>> /\ s \in Slot /\ icache[s].inum \in Inum
      /\ PcOk(p) /\ At(p) = "create" /\ call[p] \in Call /\ ip[p] = None
      /\ \A x \in Slot : Holds(p, x) = Ind(s, x) + Ind(ip[p], x)
  BY AtFacts DEF CreateOld, Putting, CurPoints, IpPoints, IInv, PcInv
<1>2. i \in Inum
  BY <1>1, LooksUp, EntryType DEF CreateOld, IInv
<1>3. c \in CacheType /\ Steady(icache, c)
  BY <1>1, LockedSteady
<1>4. /\ icache' = Iget(c, i)
      /\ pc' = [pc EXCEPT ![p] = "put"] /\ then' = [then EXCEPT ![p] = "createold"]
      /\ puts' = [puts EXCEPT ![p] = <<s>>] /\ cur' = [cur EXCEPT ![p] = None]
      /\ ip' = [ip EXCEPT ![p] = t]
      /\ UNCHANGED <<disk, fileVars, call, rest, inum>>
  BY DEF CreateOld, Put, SetTo
<1>. HIDE DEF i, c
<1>5. t \in Slot /\ icache' \in CacheType /\ Got(icache, icache', i, t)
  BY <1>2, <1>3, <1>4, IgetOn
<1>. HIDE DEF t
<1>6. Shape'
  <2>1. /\ pc' \in [Proc -> Point] /\ then' \in [Proc -> Point]
        /\ puts' \in [Proc -> Seq(Slot)] /\ cur' \in [Proc -> Slot \cup {None}]
        /\ ip' \in [Proc -> Slot \cup {None}]
    <3>1. "put" \in Point /\ "createold" \in Point /\ <<s>> \in Seq(Slot)
      BY <1>1 DEF Point
    <3>. QED
      BY <1>4, <1>5, <3>1 DEF IInv, Shape
  <2>. QED
    BY <1>4, <1>5, <2>1 DEF IInv, Shape, fileVars
<1>7. Only(p)
  BY <1>4 DEF IInv, Shape, Only
<1>8. /\ pc'[p] = "put" /\ then'[p] = "createold" /\ puts'[p] = <<s>> /\ cur'[p] = None
      /\ ip'[p] = t /\ inum'[p] = inum[p] /\ call'[p] = call[p]
  BY <1>4 DEF IInv, Shape
<1>9. PcOk(p)'
  <2>1. pc'[p] \in Putting /\ At(p)' = "createold" /\ t # None
    BY <1>5, <1>8, ConstantFacts DEF At, Putting
  <2>2. "createold" \in IpPoints /\ "createold" \notin CurPoints \cup Putting
    BY DEF IpPoints, CurPoints, Putting
  <2>. QED
    BY <1>1, <1>8, <2>1, <2>2 DEF PcOk
<1>10. ASSUME NEW x \in Slot
       PROVE  Holds(p, x)' = Holds(p, x) + Ind(t, x)
  <2>1. Holds(p, x)' = Held(None, t, <<s>>, x)
    BY <1>8 DEF Holds
  <2>2. Held(None, t, <<s>>, x) = Ind(None, x) + Ind(t, x) + Ind(s, x)
    BY HeldForms
  <2>3. Holds(p, x) = Ind(s, x) + Ind(None, x)
    BY <1>1
  <2>4. Ind(None, x) = 0 /\ Ind(s, x) \in Int /\ Ind(t, x) \in Int
    BY HeldForms
  <2>. QED
    BY <2>1, <2>2, <2>3, <2>4
<1>. QED
  BY <1>2, <1>4, <1>5, <1>6, <1>7, <1>9, <1>10, GotStep

LEMMA LinkOldKeeps ==
  ASSUME IInv, NEW p \in Proc, LinkOld(p)
  PROVE  IInv'
<1>. DEFINE s == cur[p]
            l == LockedBy(s, None)
            node == Linked(l, 1)
            c == SetTo(icache, s, node)
            t == SlotOf(c, ROOTINO)
<1>1. /\ pc[p] = "linkold" /\ puts[p] = <<>> /\ s \in Slot /\ icache[s].inum \in Inum
      /\ PcOk(p) /\ At(p) = "linkold" /\ call[p] \in Call /\ ip[p] = None
      /\ \A x \in Slot : Holds(p, x) = Ind(s, x) + Ind(ip[p], x)
  BY AtFacts DEF LinkOld, Putting, CurPoints, IpPoints, IInv, PcInv
<1>2. node \in NodeType /\ node.ref = icache[s].ref /\ node.inum = icache[s].inum
  <2>1. l \in NodeType /\ l.ref = icache[s].ref /\ l.inum = icache[s].inum
    BY <1>1, LockedByType DEF IInv
  <2>. HIDE DEF l
  <2>. QED
    BY <2>1, LinkedType
<1>3. /\ icache' = Iget(c, ROOTINO) /\ disk' = Updated(disk, node)
      /\ pc' = [pc EXCEPT ![p] = "walk"] /\ cur' = [cur EXCEPT ![p] = t]
      /\ ip' = [ip EXCEPT ![p] = s] /\ rest' = [rest EXCEPT ![p] = call[p].new]
      /\ UNCHANGED <<fileVars, call, inum, puts, then>>
  BY DEF LinkOld, GoTo, SetTo, putVars
<1>. HIDE DEF node
<1>4. c \in CacheType /\ Steady(icache, c)
  BY <1>1, <1>2, SetSteady DEF IInv, Shape
<1>. HIDE DEF c
<1>5. t \in Slot /\ icache' \in CacheType /\ Got(icache, icache', ROOTINO, t)
  BY <1>3, <1>4, IgetOn, ConstantFacts
<1>. HIDE DEF t
<1>6. disk' \in DiskType
  BY <1>1, <1>2, <1>3, UpdatedType DEF IInv, Shape
<1>7. call[p].new \in Seq(Name)
  BY <1>1, FilesAssumption
<1>8. Shape'
  <2>1. /\ pc' \in [Proc -> Point] /\ cur' \in [Proc -> Slot \cup {None}]
        /\ ip' \in [Proc -> Slot \cup {None}] /\ rest' \in [Proc -> Seq(Name)]
    <3>1. "walk" \in Point
      BY DEF Point
    <3>. QED
      BY <1>1, <1>3, <1>5, <1>7, <3>1 DEF IInv, Shape
  <2>. QED
    BY <1>3, <1>5, <1>6, <2>1 DEF IInv, Shape, fileVars
<1>9. Only(p)
  BY <1>3 DEF IInv, Shape, Only
<1>10. /\ pc'[p] = "walk" /\ then'[p] = then[p] /\ puts'[p] = <<>> /\ cur'[p] = t
       /\ ip'[p] = s /\ inum'[p] = inum[p] /\ call'[p] = call[p]
       /\ rest'[p] = call[p].new
  BY <1>1, <1>3 DEF IInv, Shape
<1>11. PcOk(p)'
  <2>1. pc'[p] \notin Putting /\ At(p)' = "walk" /\ t # None /\ "walk" \in CurPoints
    BY <1>5, <1>10, ConstantFacts DEF At, Putting, CurPoints
  <2>. QED
    BY <1>1, <1>7, <1>10, <2>1, ConstantFacts DEF PcOk
<1>12. ASSUME NEW x \in Slot
       PROVE  Holds(p, x)' = Holds(p, x) + Ind(t, x)
  <2>1. Holds(p, x)' = Held(t, s, <<>>, x)
    BY <1>10 DEF Holds
  <2>2. Held(t, s, <<>>, x) = Ind(t, x) + Ind(s, x)
    BY HeldForms
  <2>3. Holds(p, x) = Ind(s, x) + Ind(None, x)
    BY <1>1
  <2>4. Ind(None, x) = 0 /\ Ind(s, x) \in Int /\ Ind(t, x) \in Int
    BY HeldForms
  <2>. QED
    BY <2>1, <2>2, <2>3, <2>4
<1>. QED
  BY <1>3, <1>5, <1>8, <1>9, <1>11, <1>12, ConstantFacts, GotStep

LEMMA LinkExistsKeeps ==
  ASSUME IInv, NEW p \in Proc, LinkExists(p)
  PROVE  IInv'
<1>. DEFINE s == cur[p]
            i == Entry(s, Last(call[p].new))
            c == SetTo(icache, s, LockedBy(s, p))
            t == SlotOf(c, i)
<1>1. /\ pc[p] = "linknew" /\ puts[p] = <<>> /\ s \in Slot /\ icache[s].inum \in Inum
      /\ PcOk(p) /\ At(p) = "linknew" /\ call[p] \in Call /\ ip[p] \in Slot
      /\ \A x \in Slot : Holds(p, x) = Ind(s, x) + Ind(ip[p], x)
  BY AtFacts DEF LinkExists, Putting, CurPoints, IpPoints, IInv, PcInv
<1>2. i \in Inum
  BY <1>1, LooksUp, EntryType DEF LinkExists, IInv
<1>3. c \in CacheType /\ Steady(icache, c)
  BY <1>1, LockedSteady
<1>4. /\ icache' = Iget(c, i)
      /\ pc' = [pc EXCEPT ![p] = "put"] /\ then' = [then EXCEPT ![p] = "linkfound"]
      /\ puts' = [puts EXCEPT ![p] = <<t>>]
      /\ UNCHANGED <<disk, fileVars, call, rest, cur, ip, inum>>
  BY DEF LinkExists, Put, SetTo, walkVars
<1>. HIDE DEF i, c
<1>5. t \in Slot /\ icache' \in CacheType /\ Got(icache, icache', i, t)
  BY <1>2, <1>3, <1>4, IgetOn
<1>. HIDE DEF t
<1>6. Shape'
  <2>1. /\ pc' \in [Proc -> Point] /\ then' \in [Proc -> Point]
        /\ puts' \in [Proc -> Seq(Slot)]
    <3>1. "put" \in Point /\ "linkfound" \in Point /\ <<t>> \in Seq(Slot)
      BY <1>5 DEF Point
    <3>. QED
      BY <1>4, <3>1 DEF IInv, Shape
  <2>. QED
    BY <1>4, <1>5, <2>1 DEF IInv, Shape, fileVars
<1>7. Only(p)
  BY <1>4 DEF IInv, Shape, Only
<1>8. /\ pc'[p] = "put" /\ then'[p] = "linkfound" /\ puts'[p] = <<t>> /\ cur'[p] = s
      /\ ip'[p] = ip[p] /\ inum'[p] = inum[p] /\ call'[p] = call[p]
  BY <1>4 DEF IInv, Shape
<1>9. PcOk(p)'
  <2>1. pc'[p] \in Putting /\ At(p)' = "linkfound" /\ s # None /\ ip[p] # None
    BY <1>1, <1>8, ConstantFacts DEF At, Putting
  <2>2. "linkfound" \in IpPoints \cap CurPoints /\ "linkfound" \notin Putting
    BY DEF IpPoints, CurPoints, Putting
  <2>. QED
    BY <1>1, <1>8, <2>1, <2>2 DEF PcOk
<1>10. ASSUME NEW x \in Slot
       PROVE  Holds(p, x)' = Holds(p, x) + Ind(t, x)
  <2>1. Holds(p, x)' = Held(s, ip[p], <<t>>, x)
    BY <1>8 DEF Holds
  <2>2. Held(s, ip[p], <<t>>, x) = Ind(s, x) + Ind(ip[p], x) + Ind(t, x)
    BY HeldForms
  <2>3. Holds(p, x) = Ind(s, x) + Ind(ip[p], x)
    BY <1>1
  <2>4. Ind(ip[p], x) \in Int /\ Ind(s, x) \in Int /\ Ind(t, x) \in Int
    BY HeldForms
  <2>. QED
    BY <2>1, <2>2, <2>3, <2>4
<1>. QED
  BY <1>2, <1>4, <1>5, <1>6, <1>7, <1>9, <1>10, GotStep

LEMMA LinkNewKeeps ==
  ASSUME IInv, NEW p \in Proc, LinkNew(p)
  PROVE  IInv'
<1>. DEFINE s == cur[p]
            node == LockedBy(s, None)
            n == Last(call[p].new)
<1>1. /\ pc[p] = "linknew" /\ puts[p] = <<>> /\ s \in Slot /\ icache[s].inum \in Inum
      /\ PcOk(p) /\ At(p) = "linknew" /\ call[p] \in Call
      /\ ip[p] \in Slot /\ icache[ip[p]].inum \in Inum
      /\ \A x \in Slot : Holds(p, x) = Ind(s, x) + Ind(ip[p], x)
  BY AtFacts DEF LinkNew, Putting, CurPoints, IpPoints, IInv, PcInv
<1>2. /\ icache' = SetTo(icache, s, node)
      /\ disk' = EntrySet(disk, node.inum, n, icache[ip[p]].inum)
      /\ pc' = [pc EXCEPT ![p] = "put"] /\ then' = [then EXCEPT ![p] = "idle"]
      /\ puts' = [puts EXCEPT ![p] = <<s, ip[p]>>]
      /\ cur' = [cur EXCEPT ![p] = None] /\ ip' = [ip EXCEPT ![p] = None]
      /\ UNCHANGED <<fileVars, call, rest, inum>>
  BY DEF LinkNew, Put, SetTo, EntrySet
<1>3. icache' \in CacheType /\ Steady(icache, icache')
  BY <1>1, <1>2, LockedSteady
<1>4. disk' \in DiskType
  <2>1. node.inum \in Inum /\ n \in Name
    BY <1>1, LockedByType, LooksUp DEF IInv
  <2>. HIDE DEF node, n
  <2>. QED
    BY <1>1, <1>2, <2>1, EntrySetType DEF IInv, Shape
<1>5. Shape'
  <2>1. /\ pc' \in [Proc -> Point] /\ then' \in [Proc -> Point]
        /\ puts' \in [Proc -> Seq(Slot)] /\ cur' \in [Proc -> Slot \cup {None}]
        /\ ip' \in [Proc -> Slot \cup {None}]
    <3>1. "put" \in Point /\ "idle" \in Point /\ <<s, ip[p]>> \in Seq(Slot)
      BY <1>1 DEF Point
    <3>. QED
      BY <1>2, <3>1 DEF IInv, Shape
  <2>. QED
    BY <1>2, <1>3, <1>4, <2>1 DEF IInv, Shape, fileVars
<1>6. Only(p)
  BY <1>2 DEF IInv, Shape, Only
<1>7. /\ pc'[p] = "put" /\ then'[p] = "idle" /\ puts'[p] = <<s, ip[p]>> /\ cur'[p] = None
      /\ ip'[p] = None /\ inum'[p] = inum[p] /\ call'[p] = call[p]
  BY <1>2 DEF IInv, Shape
<1>8. PcOk(p)'
  <2>1. pc'[p] \in Putting /\ At(p)' = "idle"
    BY <1>7 DEF At, Putting
  <2>2. "idle" \notin IpPoints \cup CurPoints \cup Putting
    BY DEF IpPoints, CurPoints, Putting
  <2>. QED
    BY <1>1, <1>7, <2>1, <2>2 DEF PcOk
<1>9. ASSUME NEW x \in Slot
      PROVE  Holds(p, x)' = Holds(p, x)
  <2>1. Holds(p, x)' = Held(None, None, <<s, ip[p]>>, x)
    BY <1>7 DEF Holds
  <2>2. Held(None, None, <<s, ip[p]>>, x)
          = Ind(None, x) + Ind(None, x) + Ind(s, x) + Ind(ip[p], x)
    BY DEF Held, PutAt
  <2>3. Holds(p, x) = Ind(s, x) + Ind(ip[p], x)
    BY <1>1
  <2>4. Ind(None, x) = 0 /\ Ind(ip[p], x) \in Int /\ Ind(s, x) \in Int
    BY HeldForms
  <2>. QED
    BY <2>1, <2>2, <2>3, <2>4
<1>. QED
  BY <1>2, <1>3, <1>5, <1>6, <1>8, <1>9, SteadyStep

-----------------------------------------------------------------------------
(* Files.                                                                  *)

LEMMA FdHeld ==
  ASSUME NEW f \in File
  PROVE  /\ FdRefs(ofile, f) \in Nat
         /\ \A p \in Proc, d \in Fd : ofile[p][d] = f => FdRefs(ofile, f) > 0
<1>. DEFINE S == {x \in Proc \X Fd : ofile[x[1]][x[2]] = f}
<1>1. IsFiniteSet(S) /\ Cardinality(S) \in Nat
  BY ConstantFacts, FS_Product, FS_Subset, FS_CardinalityType
<1>2. S # {} => Cardinality(S) # 0
  BY <1>1, FS_EmptySet
<1>3. ASSUME NEW p \in Proc, NEW d \in Fd, ofile[p][d] = f
      PROVE  S # {}
  <2>1. <<p, d>> \in S
    BY <1>3
  <2>. QED
    BY <2>1
<1>4. FdRefs(ofile, f) = Cardinality(S)
  BY DEF FdRefs
<1>. HIDE DEF S
<1>. QED
  BY <1>1, <1>2, <1>3, <1>4

\* p opens the inode in slot s, the one it holds.
Opens(p, s) ==
  /\ MayOpen(p)
  /\ OpenFile(p, s)
  /\ cur' = [cur EXCEPT ![p] = None]
  /\ ip' = [ip EXCEPT ![p] = None]
  /\ UNCHANGED <<disk, rest, inum>>

LEMMA OpensKeeps ==
  ASSUME IInv, NEW p \in Proc, NEW s \in Slot, Opens(p, s),
         pc[p] \in {"open", "createold", "created"},
         \A x \in Slot : Holds(p, x) = Ind(s, x),
         icache' \in CacheType, Steady(icache, icache')
  PROVE  IInv'
<1>. DEFINE f == First(FreeFiles)
            d == First(FreeFds(p))
            r == [ref |-> 1, ip |-> s]
<1>1. puts[p] = <<>> /\ PcOk(p) /\ inum[p] = None /\ then[p] \notin Putting
  BY AtFacts DEF Putting, IInv, PcInv, PcOk
<1>2. f \in FreeFiles /\ d \in FreeFds(p)
  <2>1. FreeFiles \subseteq Nat /\ FreeFds(p) \subseteq Nat
    BY ConstantFacts DEF FreeFiles, FreeFds
  <2>. QED
    BY <2>1, FirstIn DEF Opens, MayOpen
<1>3. f \in File /\ d \in Fd /\ ftable[f].ref = 0 /\ ofile[p][d] = None
  BY <1>2 DEF FreeFiles, FreeFds
<1>4. ftable[f].ip = None
  BY <1>3 DEF IInv, UseInv
<1>5. /\ ftable' = [ftable EXCEPT ![f] = r]
      /\ ofile' = [ofile EXCEPT ![p][d] = f]
      /\ call' = [call EXCEPT ![p] = None]
      /\ pc' = [pc EXCEPT ![p] = "idle"]
      /\ cur' = [cur EXCEPT ![p] = None]
      /\ ip' = [ip EXCEPT ![p] = None]
      /\ UNCHANGED <<disk, rest, inum, puts, then>>
  BY DEF Opens, OpenFile, GoTo, putVars
<1>. HIDE DEF f, d
<1>6. Shape'
  <2>1. ftable' \in [File -> [ref : Int, ip : Slot \cup {None}]]
    <3>1. r \in [ref : Int, ip : Slot \cup {None}]
      OBVIOUS
    <3>. HIDE DEF r
    <3>. QED
      BY <1>5, <3>1 DEF IInv, Shape
  <2>2. ofile' \in [Proc -> [Fd -> File \cup {None}]]
    BY <1>3, <1>5 DEF IInv, Shape
  <2>3. /\ pc' \in [Proc -> Point] /\ call' \in [Proc -> Call \cup {None}]
        /\ cur' \in [Proc -> Slot \cup {None}] /\ ip' \in [Proc -> Slot \cup {None}]
    BY <1>5 DEF IInv, Shape, Point
  <2>. QED
    BY <1>5, <2>1, <2>2, <2>3 DEF IInv, Shape
<1>7. Only(p)
  BY <1>5 DEF IInv, Shape, Only
<1>8. /\ pc'[p] = "idle" /\ then'[p] = then[p] /\ puts'[p] = <<>> /\ cur'[p] = None
      /\ ip'[p] = None /\ inum'[p] = None
  BY <1>1, <1>5 DEF IInv, Shape
<1>9. PcOk(p)'
  BY <1>1, <1>8 DEF PcOk, At, Putting, CurPoints, IpPoints
<1>10. Moves(ftable, ftable', File, f, r) /\ FdMoves(ofile', p, d, f)
  <2>1. Moves(ftable, ftable', File, f, r)
    <3>. HIDE DEF r
    <3>. QED
      BY <1>5 DEF IInv, Shape, Moves
  <2>2. DOMAIN ofile = Proc /\ DOMAIN ofile[p] = Fd
    BY DEF IInv, Shape
  <2>3. FdMoves(ofile', p, d, f)
    BY <1>3, <1>5, <2>2 DEF FdMoves
  <2>. QED
    BY <2>1, <2>3
<1>11. ASSUME NEW x \in Slot
       PROVE  icache'[x].ref = icache[x].ref
                + Holds(p, x)' - Holds(p, x) + FileRefs(ftable', x) - FileRefs(ftable, x)
  <2>1. Holds(p, x)' = Held(None, None, <<>>, x)
    BY <1>8 DEF Holds
  <2>2. Held(None, None, <<>>, x) = Ind(None, x) + Ind(None, x)
    BY HeldForms
  <2>3. Ind(None, x) = 0 /\ Ind(s, x) \in Int
    BY HeldForms
  <2>4. FileRefs(ftable', x) = FileRefs(ftable, x) - Ind(None, x) + Ind(s, x)
    BY <1>3, <1>4, <1>10, FileRefsStep
  <2>5. icache'[x].ref = icache[x].ref /\ icache[x].ref \in Nat /\ FileRefs(ftable, x) \in Nat
    BY FileRefsType, IInvCache DEF Steady, CacheOk
  <2>. QED
    BY <2>1, <2>2, <2>3, <2>4, <2>5
<1>12. ASSUME NEW g \in File
       PROVE  ftable'[g].ref = FdRefs(ofile', g)
  <2>1. /\ FdRefs(ofile, g) \in Nat
        /\ FdRefs(ofile', g) = FdRefs(ofile, g) - Ind(None, g) + Ind(f, g)
    BY <1>3, <1>10, FdRefsStep
  <2>2. ftable[g].ref = FdRefs(ofile, g)
    BY RefsForm DEF IInv
  <2>3. ftable'[g].ref = IF g = f THEN 1 ELSE ftable[g].ref
    BY <1>10 DEF Moves
  <2>4. Ind(None, g) = 0 /\ Ind(f, g) = IF g = f THEN 1 ELSE 0
    BY ConstantFacts DEF Ind
  <2>. QED
    BY <1>3, <2>1, <2>2, <2>3, <2>4
<1>13. CacheOk(icache')
  BY IInvCache, SteadyOk
<1>14. RefsExact'
  <2>1. Counted(p)
    BY <1>11, <1>12, <1>13 DEF Counted, CacheOk, Holds
  <2>. QED
    BY <1>7, <2>1, CountedKeeps DEF IInv
<1>15. UseInv'
  <2>1. ASSUME NEW g \in File
        PROVE  ftable'[g].ref > 0 <=> ftable'[g].ip # None
    <3>1. ftable'[g] = IF g = f THEN r ELSE ftable[g]
      BY <1>10 DEF Moves
    <3>. QED
      BY <3>1, ConstantFacts DEF IInv, UseInv
  <2>. QED
    BY <1>13, <2>1 DEF UseInv, CacheOk
<1>. QED
  BY <1>6, <1>7, <1>9, <1>14, <1>15, OnlyPc DEF IInv

LEMMA OpenKeeps ==
  ASSUME IInv, NEW p \in Proc, Open(p)
  PROVE  IInv'
<1>. DEFINE s == cur[p]
<1>1. /\ pc[p] = "open" /\ s \in Slot /\ icache[s].inum \in Inum /\ ip[p] = None
      /\ PcOk(p) /\ At(p) = "open"
      /\ \A x \in Slot : Holds(p, x) = Ind(s, x) + Ind(ip[p], x)
  BY AtFacts DEF Open, Putting, CurPoints, IpPoints, IInv, PcInv
<1>2. icache' \in CacheType /\ Steady(icache, icache') /\ disk' \in DiskType
  <2>1. icache' = SetTo(icache, s, LockedBy(s, None)) /\ disk' = disk
    BY DEF Open, SetTo
  <2>. QED
    BY <1>1, <2>1, LockedSteady DEF IInv, Shape
<1>3. /\ ip = [ip EXCEPT ![p] = None] /\ inum = [inum EXCEPT ![p] = None]
  BY <1>1 DEF PcOk, IInv, Shape
<1>4. CASE Put(p, <<s>>, "idle") /\ UNCHANGED <<fileVars, call>>
  <2>1. HandsCur(p, "idle")
    BY <1>3, <1>4 DEF Open, HandsCur
  <2>. QED
    BY <1>1, <1>2, <2>1, HandsCurKeeps DEF CurPoints, IpPoints, Putting, Point
<1>5. CASE MayOpen(p) /\ OpenFile(p, s)
  <2>1. Opens(p, s)
    BY <1>3, <1>5 DEF Open, Opens
  <2>2. \A x \in Slot : Holds(p, x) = Ind(s, x)
    BY <1>1, HeldForms
  <2>. QED
    BY <1>1, <1>2, <2>1, <2>2, OpensKeeps
<1>. QED
  BY <1>4, <1>5 DEF Open, OpenFile

LEMMA CreateOldLockKeeps ==
  ASSUME IInv, NEW p \in Proc, CreateOldLock(p)
  PROVE  IInv'
<1>. DEFINE s == ip[p]
<1>1. /\ pc[p] = "createold" /\ s \in Slot /\ icache[s].inum \in Inum /\ cur[p] = None
      /\ \A x \in Slot : Holds(p, x) = Ind(cur[p], x) + Ind(s, x)
  BY AtFacts DEF CreateOldLock, Putting, CurPoints, IpPoints
<1>2. icache' \in CacheType /\ Steady(icache, icache') /\ disk' \in DiskType
  <2>1. icache' = SetTo(icache, s, LockedBy(s, None)) /\ disk' = disk
    BY DEF CreateOldLock, SetTo
  <2>. QED
    BY <1>1, <2>1, LockedSteady DEF IInv, Shape
<1>3. CASE Put(p, <<s>>, "idle") /\ UNCHANGED <<fileVars, call>>
  <2>1. HandsIp(p, "idle")
    BY <1>3 DEF CreateOldLock, HandsIp
  <2>. QED
    BY <1>1, <1>2, <2>1, HandsIpKeeps DEF CurPoints, IpPoints
<1>4. CASE MayOpen(p) /\ OpenFile(p, s)
  <2>1. cur = [cur EXCEPT ![p] = None]
    BY <1>1 DEF IInv, Shape
  <2>2. Opens(p, s)
    BY <1>4, <2>1 DEF CreateOldLock, Opens
  <2>3. \A x \in Slot : Holds(p, x) = Ind(s, x)
    BY <1>1, HeldForms
  <2>. QED
    BY <1>1, <1>2, <2>2, <2>3, OpensKeeps
<1>. QED
  BY <1>3, <1>4 DEF CreateOldLock, OpenFile

LEMMA CreatedKeeps ==
  ASSUME IInv, NEW p \in Proc, Created(p)
  PROVE  IInv'
<1>. DEFINE s == ip[p]
<1>1. /\ pc[p] = "created" /\ s \in Slot /\ icache[s].inum \in Inum /\ cur[p] = None
      /\ \A x \in Slot : Holds(p, x) = Ind(cur[p], x) + Ind(s, x)
  BY AtFacts DEF Created, Putting, CurPoints, IpPoints
<1>2. icache' \in CacheType /\ Steady(icache, icache') /\ disk' \in DiskType
  <2>. DEFINE node == [icache[s] EXCEPT !.lock = None]
  <2>1. icache' = SetTo(icache, s, node) /\ disk' = disk
    BY DEF Created, SetTo
  <2>2. node \in NodeType /\ node.ref = icache[s].ref /\ node.inum = icache[s].inum
    BY <1>1, UnlockedType DEF IInv, Shape, CacheType
  <2>. HIDE DEF node
  <2>. QED
    BY <1>1, <2>1, <2>2, SetSteady DEF IInv, Shape
<1>3. CASE Put(p, <<s>>, "idle") /\ UNCHANGED <<fileVars, call>>
  <2>1. HandsIp(p, "idle")
    BY <1>3 DEF Created, HandsIp
  <2>. QED
    BY <1>1, <1>2, <2>1, HandsIpKeeps DEF CurPoints, IpPoints
<1>4. CASE MayOpen(p) /\ OpenFile(p, s)
  <2>1. cur = [cur EXCEPT ![p] = None]
    BY <1>1 DEF IInv, Shape
  <2>2. Opens(p, s)
    BY <1>4, <2>1 DEF Created, Opens
  <2>3. \A x \in Slot : Holds(p, x) = Ind(s, x)
    BY <1>1, HeldForms
  <2>. QED
    BY <1>1, <1>2, <2>2, <2>3, OpensKeeps
<1>. QED
  BY <1>3, <1>4 DEF Created, OpenFile

LEMMA CloseKeeps ==
  ASSUME IInv, NEW p \in Proc, NEW d \in Fd, Close(p, d)
  PROVE  IInv'
<1>. DEFINE f == ofile[p][d]
            s == ftable[f].ip
            last == ~(ftable[f].ref > 1)
            r == IF last THEN [ref |-> 0, ip |-> None]
                 ELSE [ftable[f] EXCEPT !.ref = @ - 1]
            P == IF last THEN "put" ELSE "idle"
            q == IF last THEN <<s>> ELSE <<>>
            T == IF last THEN "idle" ELSE then[p]
<1>1. /\ pc[p] = "idle" /\ puts[p] = <<>> /\ cur[p] = None /\ ip[p] = None
      /\ PcOk(p) /\ At(p) = "idle" /\ inum[p] = None /\ then[p] \notin Putting
      /\ \A x \in Slot : Holds(p, x) = Ind(cur[p], x) + Ind(ip[p], x)
  BY AtFacts DEF Close, Putting, CurPoints, IpPoints, IInv, PcInv, PcOk
<1>2. f \in File
  BY DEF Close, IInv, Shape
<1>3. FdRefs(ofile, f) > 0 /\ FdRefs(ofile, f) \in Nat /\ ftable[f].ref = FdRefs(ofile, f)
  BY <1>2, FdHeld, RefsForm DEF IInv
<1>4. s \in Slot /\ ftable[f] \in [ref : Int, ip : Slot \cup {None}]
  BY <1>2, <1>3 DEF IInv, UseInv, Shape
<1>5. last => ftable[f].ref = 1
  BY <1>3
<1>6. /\ ofile' = [ofile EXCEPT ![p][d] = None]
      /\ ftable' = [ftable EXCEPT ![f] = r]
      /\ pc' = [pc EXCEPT ![p] = P]
      /\ puts' = [puts EXCEPT ![p] = q]
      /\ then' = [then EXCEPT ![p] = T]
      /\ UNCHANGED <<disk, icache, call, rest, cur, ip, inum>>
  <2>1. puts = [puts EXCEPT ![p] = <<>>] /\ then = [then EXCEPT ![p] = then[p]]
    BY <1>1 DEF IInv, Shape
  <2>2. CASE last
    BY <2>2 DEF Close, Put, diskVars, walkVars
  <2>3. CASE ~last
    <3>1. r = [ftable[f] EXCEPT !.ref = @ - 1] /\ P = "idle" /\ q = <<>> /\ T = then[p]
      BY <2>3
    <3>2. ftable' = [ftable EXCEPT ![f] = [ftable[f] EXCEPT !.ref = @ - 1]]
      BY <1>2, <2>3 DEF Close, IInv, Shape
    <3>. QED
      BY <2>1, <2>3, <3>1, <3>2 DEF Close, GoTo, putVars, diskVars, walkVars
  <2>. QED
    BY <2>2, <2>3
<1>7. /\ r \in [ref : Int, ip : Slot \cup {None}]
      /\ r.ref = ftable[f].ref - 1
      /\ r.ip = IF last THEN None ELSE s
  <2>1. CASE last
    BY <1>5, <2>1
  <2>2. CASE ~last
    <3>. DEFINE o == ftable[f]
    <3>1. r = [o EXCEPT !.ref = @ - 1]
      BY <2>2
    <3>. HIDE DEF r
    <3>. QED
      BY <1>4, <2>2, <3>1
  <2>. QED
    BY <2>1, <2>2
<1>8. P \in Point /\ T \in Point /\ T \notin Putting /\ q \in Seq(Slot)
  BY <1>1, <1>4 DEF IInv, Shape, Point, Putting
<1>9. /\ (last => P = "put" /\ q = <<s>> /\ T = "idle")
      /\ (~last => P = "idle" /\ q = <<>> /\ T = then[p])
  OBVIOUS
<1>10. last => ftable[f].ref = 1
  BY <1>5
<1>11. ~last => ftable[f].ref > 1
  OBVIOUS
<1>. HIDE DEF f, s, r, P, q, T, last
<1>12. Shape'
  <2>1. ofile' \in [Proc -> [Fd -> File \cup {None}]]
    BY <1>6 DEF IInv, Shape
  <2>2. /\ ftable' \in [File -> [ref : Int, ip : Slot \cup {None}]]
        /\ pc' \in [Proc -> Point] /\ puts' \in [Proc -> Seq(Slot)]
        /\ then' \in [Proc -> Point]
    BY <1>6, <1>7, <1>8 DEF IInv, Shape
  <2>. QED
    BY <1>6, <2>1, <2>2 DEF IInv, Shape
<1>13. Only(p)
  BY <1>6 DEF IInv, Shape, Only
<1>14. /\ pc'[p] = P /\ puts'[p] = q /\ then'[p] = T /\ cur'[p] = None /\ ip'[p] = None
       /\ inum'[p] = None
  BY <1>1, <1>6 DEF IInv, Shape
<1>15. PcOk(p)'
  <2>1. At(p)' = "idle"
    BY <1>9, <1>14 DEF At, Putting
  <2>2. last => Len(q) = 1 /\ P \in Putting
    BY <1>9 DEF Putting
  <2>3. ~last => q = <<>> /\ P \notin Putting
    BY <1>9 DEF Putting
  <2>4. "idle" \notin CurPoints \cup IpPoints
    BY DEF CurPoints, IpPoints
  <2>. QED
    BY <1>8, <1>14, <2>1, <2>2, <2>3, <2>4 DEF PcOk
<1>16. Moves(ftable, ftable', File, f, r) /\ FdMoves(ofile', p, d, None)
  <2>1. Moves(ftable, ftable', File, f, r)
    BY <1>6 DEF IInv, Shape, Moves
  <2>2. DOMAIN ofile = Proc /\ DOMAIN ofile[p] = Fd
    BY DEF IInv, Shape
  <2>3. FdMoves(ofile', p, d, None)
    BY <1>6, <2>2 DEF FdMoves
  <2>. QED
    BY <2>1, <2>3
<1>17. ASSUME NEW x \in Slot
       PROVE  icache'[x].ref = icache[x].ref
                + Holds(p, x)' - Holds(p, x) + FileRefs(ftable', x) - FileRefs(ftable, x)
  <2>1. Holds(p, x)' = Held(None, None, q, x)
    BY <1>14 DEF Holds
  <2>2. Held(None, None, <<>>, x) = Ind(None, x) + Ind(None, x)
    BY HeldForms
  <2>3. Held(None, None, <<s>>, x) = Ind(None, x) + Ind(None, x) + Ind(s, x)
    BY HeldForms
  <2>4. Ind(None, x) = 0 /\ Ind(s, x) \in Int
    BY HeldForms
  <2>5. FileRefs(ftable', x) = FileRefs(ftable, x) - Ind(s, x) + Ind(r.ip, x)
    BY <1>2, <1>16, FileRefsStep DEF s
  <2>6. icache'[x].ref = icache[x].ref /\ icache[x].ref \in Nat /\ FileRefs(ftable, x) \in Nat
    BY <1>6, FileRefsType, IInvCache DEF CacheOk
  <2>7. Holds(p, x) = 0
    BY <1>1, <2>4
  <2>8. CASE last
    <3>1. Holds(p, x)' = Held(None, None, <<s>>, x) /\ Ind(r.ip, x) = Ind(None, x)
      BY <1>7, <1>9, <2>1, <2>8
    <3>. QED
      BY <2>3, <2>4, <2>5, <2>6, <2>7, <3>1
  <2>9. CASE ~last
    <3>1. Holds(p, x)' = Held(None, None, <<>>, x) /\ Ind(r.ip, x) = Ind(s, x)
      BY <1>7, <1>9, <2>1, <2>9
    <3>. QED
      BY <2>2, <2>4, <2>5, <2>6, <2>7, <3>1
  <2>. QED
    BY <2>8, <2>9
<1>18. ASSUME NEW g \in File
       PROVE  ftable'[g].ref = FdRefs(ofile', g)
  <2>1. /\ FdRefs(ofile, g) \in Nat
        /\ FdRefs(ofile', g) = FdRefs(ofile, g) - Ind(f, g) + Ind(None, g)
    BY <1>16, FdRefsStep DEF f
  <2>2. ftable[g].ref = FdRefs(ofile, g)
    BY RefsForm DEF IInv
  <2>3. ftable'[g] = IF g = f THEN r ELSE ftable[g]
    BY <1>16 DEF Moves
  <2>4. Ind(None, g) = 0 /\ Ind(f, g) = IF g = f THEN 1 ELSE 0
    BY ConstantFacts DEF Ind
  <2>. QED
    BY <1>7, <2>1, <2>2, <2>3, <2>4
<1>19. RefsExact'
  <2>1. Unique(icache')
    BY <1>6 DEF IInv, RefsExact, Unique
  <2>2. Counted(p)
    BY <1>17, <1>18, <2>1 DEF Counted, Holds
  <2>. QED
    BY <1>13, <2>2, CountedKeeps DEF IInv
<1>20. UseInv'
  <2>1. ASSUME NEW g \in File
        PROVE  ftable'[g].ref > 0 <=> ftable'[g].ip # None
    <3>1. ftable'[g] = IF g = f THEN r ELSE ftable[g]
      BY <1>16 DEF Moves
    <3>2. s # None
      BY <1>4, ConstantFacts
    <3>3. r.ref > 0 <=> r.ip # None
      BY <1>7, <1>10, <1>11, <1>3, <3>2
    <3>. QED
      BY <3>1, <3>3 DEF IInv, UseInv
  <2>. QED
    BY <1>6, <2>1 DEF IInv, UseInv
<1>. QED
  BY <1>12, <1>13, <1>15, <1>19, <1>20, OnlyPc DEF IInv

LEMMA ForkKeeps ==
  ASSUME IInv, NEW p \in Proc, NEW q \in Proc, Fork(p, q)
  PROVE  IInv'
<1>. DEFINE D(f) == {d \in Fd : ofile[p][d] = f}
<1>1. /\ p # q /\ \A d \in Fd : ofile[q][d] = None
      /\ ofile' = [ofile EXCEPT ![q] = ofile[p]]
      /\ UNCHANGED <<disk, icache, pc, call, rest, cur, ip, inum, puts, then>>
  BY DEF Fork, FreeFds, diskVars, walkVars, putVars
<1>2. \A f \in File : IsFiniteSet(D(f)) /\ Cardinality(D(f)) \in Nat
  BY ConstantFacts, FS_Subset, FS_CardinalityType
<1>3. \A f \in File : /\ ftable'[f] = [ftable[f] EXCEPT !.ref = @ + Cardinality(D(f))]
                      /\ ftable[f] \in [ref : Int, ip : Slot \cup {None}]
  BY DEF Fork, IInv, Shape
<1>4. ASSUME NEW f \in File
      PROVE  /\ ftable'[f] \in [ref : Int, ip : Slot \cup {None}]
             /\ ftable'[f].ref = ftable[f].ref + Cardinality(D(f))
             /\ ftable'[f].ip = ftable[f].ip
  <2>. DEFINE o == ftable[f]
              n == Cardinality(D(f))
  <2>1. /\ ftable'[f] = [o EXCEPT !.ref = @ + n] /\ n \in Int
        /\ o \in [ref : Int, ip : Slot \cup {None}]
    BY <1>2, <1>3
  <2>. HIDE DEF o, n
  <2>2. /\ ftable'[f] \in [ref : Int, ip : Slot \cup {None}]
        /\ ftable'[f].ref = o.ref + n /\ ftable'[f].ip = o.ip
    BY <2>1
  <2>. QED
    BY <2>2 DEF o, n
<1>5. ftable' \in [File -> [ref : Int, ip : Slot \cup {None}]]
  <2>1. ftable' = [f \in File |-> ftable'[f]]
    BY DEF Fork
  <2>. HIDE DEF D
  <2>. QED
    BY <1>4, <2>1
<1>6. Shape'
  <2>1. ofile' \in [Proc -> [Fd -> File \cup {None}]]
    BY <1>1 DEF IInv, Shape
  <2>. QED
    BY <1>1, <1>5, <2>1 DEF IInv, Shape
<1>7. PcInv'
  BY <1>1 DEF IInv, PcInv, PcOk, At
<1>8. ASSUME NEW f \in File
      PROVE  FdRefs(ofile', f) = FdRefs(ofile, f) + Cardinality(D(f))
  <2>. DEFINE A == {x \in Proc \X Fd : ofile[x[1]][x[2]] = f}
              B == {q} \X D(f)
              C == {x \in Proc \X Fd : ofile'[x[1]][x[2]] = f}
  <2>1. IsFiniteSet(A) /\ IsFiniteSet(B) /\ Cardinality(B) = Cardinality(D(f))
    <3>1. IsFiniteSet(A)
      BY ConstantFacts, FS_Product, FS_Subset
    <3>2. IsFiniteSet({q}) /\ Cardinality({q}) = 1
      BY FS_Singleton
    <3>3. IsFiniteSet(B) /\ Cardinality(B) = Cardinality({q}) * Cardinality(D(f))
      <4>1. IsFiniteSet(D(f))
        BY <1>2
      <4>. HIDE DEF D
      <4>. QED
        BY <3>2, <4>1, FS_Product
    <3>. QED
      BY <1>2, <3>1, <3>2, <3>3
  <2>2. ASSUME NEW x \in Proc \X Fd
        PROVE  x \in C <=> x \in A \/ x \in B
    <3>1. x[1] \in Proc /\ x[2] \in Fd /\ x = <<x[1], x[2]>>
      OBVIOUS
    <3>2. ofile'[x[1]] = IF x[1] = q THEN ofile[p] ELSE ofile[x[1]]
      BY <1>1, <3>1 DEF IInv, Shape
    <3>3. CASE x[1] = q
      <4>1. x \notin A
        BY <1>1, <3>1, <3>3, ConstantFacts
      <4>2. x \in B <=> ofile[p][x[2]] = f
        BY <3>1, <3>3
      <4>. QED
        BY <3>2, <3>3, <4>1, <4>2
    <3>4. CASE x[1] # q
      <4>1. x \notin B
        BY <3>1, <3>4
      <4>. QED
        BY <3>2, <3>4, <4>1
    <3>. QED
      BY <3>3, <3>4
  <2>3. B \subseteq Proc \X Fd
    OBVIOUS
  <2>4. C = A \cup B
    BY <2>2, <2>3
  <2>5. A \cap B = {}
    <3>1. ASSUME NEW x \in A, x \in B
          PROVE  FALSE
      <4>1. x[1] = q /\ x[2] \in Fd /\ ofile[x[1]][x[2]] = f
        BY <3>1
      <4>. QED
        BY <1>1, <4>1, ConstantFacts
    <3>. QED
      BY <3>1
  <2>6. FdRefs(ofile, f) = Cardinality(A) /\ FdRefs(ofile', f) = Cardinality(C)
    BY DEF FdRefs
  <2>. HIDE DEF A, B, C, D
  <2>7. Cardinality(A \cap B) = 0
    BY <2>5, FS_EmptySet
  <2>8. Cardinality(C) = Cardinality(A) + Cardinality(B) - Cardinality(A \cap B)
    BY <2>1, <2>4, FS_Union
  <2>9. Cardinality(A) \in Nat /\ Cardinality(B) \in Nat
    BY <2>1, FS_CardinalityType
  <2>. QED
    BY <2>1, <2>6, <2>7, <2>8, <2>9
<1>9. ASSUME NEW f \in File, D(f) # {}
      PROVE  ftable[f].ref > 0
  <2>1. PICK d \in Fd : ofile[p][d] = f
    BY <1>9
  <2>. QED
    BY <2>1, FdHeld, RefsForm DEF IInv
<1>10. RefsExact'
  <2>1. \A s \in Slot : FileRefs(ftable', s) = FileRefs(ftable, s)
    <3>. TAKE s \in Slot
    <3>1. \A f \in File : ftable'[f].ip = ftable[f].ip
      BY <1>4
    <3>2. {f \in File : ftable'[f].ip = s} = {f \in File : ftable[f].ip = s}
      BY <3>1
    <3>. QED
      BY <3>2 DEF FileRefs
  <2>2. \A f \in File : ftable'[f].ref = FdRefs(ofile', f)
    <3>. HIDE DEF D
    <3>. QED
      BY <1>4, <1>8, RefsForm DEF IInv
  <2>3. /\ Unique(icache')
        /\ \A s \in Slot : icache'[s].ref = Cwds(s) + FileRefs(ftable', s) + Refs(cur', s)
                                            + Refs(ip', s) + PutRefs(puts', s)
    BY <1>1, <2>1, RefsForm DEF IInv
  <2>. QED
    BY <2>2, <2>3 DEF RefsExact, Unique, Cwds, FileRefs, Refs, PutRefs, FdRefs, Count
<1>11. UseInv'
  <2>1. ASSUME NEW f \in File
        PROVE  ftable'[f].ref > 0 <=> ftable'[f].ip # None
    <3>1. D(f) = {} => Cardinality(D(f)) = 0
      BY FS_EmptySet
    <3>2. Cardinality(D(f)) \in Nat /\ ftable[f].ref \in Int
      BY <1>2, <1>3
    <3>3. ftable[f].ref > 0 <=> ftable[f].ip # None
      BY DEF IInv, UseInv
    <3>4. /\ ftable'[f].ref = ftable[f].ref + Cardinality(D(f))
          /\ ftable'[f].ip = ftable[f].ip
      BY <1>4
    <3>5. D(f) # {} => ftable[f].ref > 0
      BY <1>9
    <3>. HIDE DEF D
    <3>. QED
      BY <3>1, <3>2, <3>3, <3>4, <3>5
  <2>. QED
    BY <1>1, <2>1 DEF IInv, UseInv
<1>. QED
  BY <1>6, <1>7, <1>10, <1>11 DEF IInv

-----------------------------------------------------------------------------
(* Reference counts are exact.                                             *)

LEMMA IInvInit == Init => IInv
<1>. SUFFICES ASSUME Init PROVE IInv
  OBVIOUS
<1>1. Shape
  <2>1. Cardinality(Proc) \in Nat
    BY ConstantFacts, FS_CardinalityType
  <2>2. NoEntries \in [Name -> Inum \cup {None}]
    BY DEF NoEntries
  <2>3. disk \in DiskType
    BY <2>2 DEF Init, DiskType, Type
  <2>4. icache \in CacheType
    BY <2>1, ConstantFacts DEF Init, CacheType, NodeType, Type
  <2>5. ftable \in [File -> [ref : Int, ip : Slot \cup {None}]]
    BY DEF Init
  <2>6. /\ pc \in [Proc -> Point] /\ then \in [Proc -> Point]
        /\ ofile \in [Proc -> [Fd -> File \cup {None}]]
        /\ call \in [Proc -> Call \cup {None}]
        /\ cur \in [Proc -> Slot \cup {None}] /\ ip \in [Proc -> Slot \cup {None}]
        /\ inum \in [Proc -> Inum \cup {None}]
    BY DEF Init, Point
  <2>7. rest \in [Proc -> Seq(Name)] /\ puts \in [Proc -> Seq(Slot)]
    <3>1. <<>> \in Seq(Name) /\ <<>> \in Seq(Slot)
      OBVIOUS
    <3>. QED
      BY <3>1 DEF Init
  <2>. QED
    BY <2>3, <2>4, <2>5, <2>6, <2>7 DEF Shape
<1>2. PcInv
  BY DEF Init, PcInv, PcOk, At, Putting, CurPoints, IpPoints
<1>3. UseInv
  BY ConstantFacts DEF Init, UseInv
<1>4. RefsExact
  <2>1. Unique(icache)
    BY DEF Init, Unique
  <2>2. ASSUME NEW s \in Slot
        PROVE  icache[s].ref = Cwds(s) + FileRefs(ftable, s) + Refs(cur, s)
                               + Refs(ip, s) + PutRefs(puts, s)
    <3>1. Refs(cur, s) = 0 /\ Refs(ip, s) = 0
      <4>1. {p \in Proc : cur[p] = s} = {} /\ {p \in Proc : ip[p] = s} = {}
        BY ConstantFacts DEF Init
      <4>. QED
        BY <4>1, FS_EmptySet DEF Refs, Count
    <3>2. FileRefs(ftable, s) = 0
      <4>1. {f \in File : ftable[f].ip = s} = {}
        BY ConstantFacts DEF Init
      <4>. QED
        BY <4>1, FS_EmptySet DEF FileRefs
    <3>3. PutRefs(puts, s) = 0
      <4>1. ASSUME NEW x \in Proc \X (1 .. 2), x[2] \in DOMAIN puts[x[1]]
            PROVE  FALSE
        <5>1. x[1] \in Proc /\ puts[x[1]] = <<>>
          BY DEF Init
        <5>2. DOMAIN <<>> = {}
          OBVIOUS
        <5>. QED
          BY <4>1, <5>1, <5>2
      <4>2. {x \in Proc \X (1 .. 2) : x[2] \in DOMAIN puts[x[1]] /\ puts[x[1]][x[2]] = s} = {}
        BY <4>1
      <4>. QED
        BY <4>2, FS_EmptySet DEF PutRefs
    <3>4. icache[s].ref = Cwds(s)
      BY DEF Init, Cwds
    <3>5. Cwds(s) \in Nat
      BY ConstantFacts, FS_CardinalityType DEF Cwds
    <3>. QED
      BY <3>1, <3>2, <3>3, <3>4, <3>5
  <2>3. ASSUME NEW f \in File
        PROVE  ftable[f].ref = FdRefs(ofile, f)
    <3>1. {x \in Proc \X Fd : ofile[x[1]][x[2]] = f} = {}
      BY ConstantFacts DEF Init
    <3>. QED
      BY <3>1, FS_EmptySet DEF Init, FdRefs
  <2>. QED
    BY <2>1, <2>2, <2>3, RefsForm
<1>. QED
  BY <1>1, <1>2, <1>3, <1>4 DEF IInv

LEMMA StepKeeps ==
  ASSUME IInv, NEW p \in Proc, Step(p)
  PROVE  IInv'
<1>1. CASE WalkRoot(p) \/ WalkParent(p) \/ WalkFail(p) \/ WalkDown(p)
  BY <1>1, WalkRootKeeps, WalkParentKeeps, WalkFailKeeps, WalkDownKeeps
<1>2. CASE PutLock(p) \/ PutFree(p)
  BY <1>2, PutLockKeeps, PutFreeKeeps
<1>3. CASE PutDrop(p) \/ PutRoot(p)
  BY <1>3, DropKeeps DEF PutDrop, PutRoot, Putting
<1>4. CASE Open(p) \/ CreateOld(p) \/ CreateOldLock(p)
  BY <1>4, OpenKeeps, CreateOldKeeps, CreateOldLockKeeps
<1>5. CASE CreateNew(p) \/ Ialloc(p) \/ NewGet(p) \/ NewLock(p) \/ Created(p)
  BY <1>5, CreateNewKeeps, IallocKeeps, NewGetKeeps, NewLockKeeps, CreatedKeeps
<1>6. CASE UnlinkNone(p) \/ UnlinkFound(p) \/ UnlinkEntry(p)
  BY <1>6, UnlinkNoneKeeps, UnlinkFoundKeeps, UnlinkEntryKeeps
<1>7. CASE UnlinkRefuse(p) \/ UnlinkBad(p) \/ Unlinked(p)
  BY <1>7, UnlinkRefuseKeeps, UnlinkBadKeeps, UnlinkedKeeps
<1>8. CASE LinkRefuse(p) \/ LinkOld(p) \/ LinkNew(p)
  BY <1>8, LinkRefuseKeeps, LinkOldKeeps, LinkNewKeeps
<1>9. CASE LinkExists(p) \/ LinkFound(p) \/ LinkBad(p)
  BY <1>9, LinkExistsKeeps, LinkFoundKeeps, LinkBadKeeps
<1>. QED
  BY <1>1, <1>2, <1>3, <1>4, <1>5, <1>6, <1>7, <1>8, <1>9 DEF Step

LEMMA IInvNext == IInv /\ [Next]_vars => IInv'
<1>. SUFFICES ASSUME IInv, [Next]_vars PROVE IInv'
  OBVIOUS
<1>1. CASE Next
  <2>1. PICK p \in Proc :
          \/ Step(p)
          \/ \E c \in Call : Begin(p, c)
          \/ \E d \in Fd : Close(p, d)
          \/ \E q \in Proc : Fork(p, q)
    BY <1>1 DEF Next
  <2>. QED
    BY <2>1, StepKeeps, BeginKeeps, CloseKeeps, ForkKeeps
<1>2. CASE UNCHANGED vars
  <2>1. /\ disk' = disk /\ icache' = icache /\ ftable' = ftable /\ ofile' = ofile
        /\ pc' = pc /\ call' = call /\ rest' = rest /\ cur' = cur /\ ip' = ip
        /\ inum' = inum /\ puts' = puts /\ then' = then
    BY <1>2 DEF vars, diskVars, fileVars, walkVars, putVars
  <2>2. Shape' /\ UseInv'
    BY <2>1 DEF IInv, Shape, UseInv
  <2>3. PcInv'
    BY <2>1 DEF IInv, PcInv, PcOk, At
  <2>4. RefsExact'
    <3>1. /\ Unique(icache')
          /\ \A f \in File : ftable'[f].ref = FdRefs(ofile', f)
      BY <2>1, RefsForm DEF IInv
    <3>2. \A s \in Slot :
            icache'[s].ref = Cwds(s) + FileRefs(ftable', s) + Refs(cur', s)
                             + Refs(ip', s) + PutRefs(puts', s)
      BY <2>1, RefsForm DEF IInv
    <3>. QED
      BY <3>1, <3>2
         DEF RefsExact, Unique, Cwds, FileRefs, Refs, PutRefs, FdRefs, Count
  <2>. QED
    BY <2>2, <2>3, <2>4 DEF IInv
<1>. QED
  BY <1>1, <1>2

\* iget(), iput(), filealloc(), filedup() and fileclose() keep every count
\* equal to the references there are, and an inode in one slot, however the
\* calls of any number of processes interleave.
THEOREM RefsCorrect == Spec => []RefsExact
<1>1. IInv => RefsExact
  BY DEF IInv
<1>. QED
  BY IInvInit, IInvNext, <1>1, PTL DEF Spec
=============================================================================
