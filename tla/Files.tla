-------------------------------- MODULE Files -------------------------------
(***************************************************************************)
(* Inodes, directories and open files in the Lab 3 kernel: the inode cache *)
(* and path walks of fs.c, the file table of file.c and the calls of       *)
(* sysfile.c, which race on reference counts, link counts and inode locks. *)
(*                                                                         *)
(* A step is a section under icache.lock or ftable.lock, or a section      *)
(* under the sleep lock of one inode that takes no other one; code that    *)
(* holds the lock of an inode while it waits for that of another is broken *)
(* there.  Every call runs in a transaction of the log, so a step sees the *)
(* writes of the others and no crash.  Paths are absolute and without      *)
(* "." and ".."; reads and writes of an open file leave this state alone.  *)
(* sys_copy_file(), which never puts its inodes, is left out.              *)
(***************************************************************************)
EXTENDS Integers, Sequences, FiniteSets, SequencesExt

CONSTANTS
  Proc,     \* the processes
  Name,     \* the names in directories
  Call,     \* the calls they make: [op |-> "open", path |-> <<n, ...>>, ...],
            \* with the path <<>> for the root
  NINODES,  \* the number of inodes of the disk
  NINODE,   \* the number of slots of the inode cache
  NFILE,    \* the number of slots of the file table
  NOFILE,   \* the number of open files of a process
  None      \* no entry, slot, file or process

Inum == 1 .. NINODES
Slot == 1 .. NINODE
File == 1 .. NFILE
Fd == 1 .. NOFILE
ROOTINO == 1

Op == {"open", "openw", "create", "mkdir", "unlink", "link"}

\* iget() panics without a free slot, so the cache must hold every inode.
ASSUME FilesAssumption ==
  /\ IsFiniteSet(Proc) /\ IsFiniteSet(Name)
  /\ None \notin Inum \cup Slot \cup File \cup Proc
  /\ NINODES \in Nat \ {0} /\ NFILE \in Nat /\ NOFILE \in Nat
  /\ NINODE \in Nat /\ NINODE >= NINODES
  /\ \A c \in Call : c.op \in Op /\ c.path \in Seq(Name) /\ c.new \in Seq(Name)

VARIABLES
  disk,    \* the inodes: type, nlink and, of a directory, its entries
  icache,  \* icache.inode: inum, ref, valid, type, nlink and who has the lock
  ftable,  \* ftable.file: ref and ip
  ofile,   \* proc->ofile
  pc,      \* where each process stands
  call,    \* the call it is in
  rest,    \* the elements of the path namex() has still to look up
  cur,     \* the inode namex() stands at, then what it returned (dp)
  ip,      \* the other inode of a call
  inum,    \* the inode number ialloc() found, or None
  puts,    \* the inodes to iput() next,
  then     \* and where the process goes after that

diskVars == <<disk, icache>>
fileVars == <<ftable, ofile>>
walkVars == <<call, rest, cur>>
putVars == <<puts, then>>
vars == <<diskVars, fileVars, pc, walkVars, ip, inum, putVars>>

Point ==
  { "idle", "walk",
    "open", "create", "createold", "ialloc", "newget", "newlock", "created",
    "unlink", "unlinkip", "unlinkbad", "unlinked",
    "linkold", "linknew", "linkfound", "linkbad",
    "put", "putfree", "putdrop" }

NoEntries == [n \in Name |-> None]

TypeOK ==
  /\ disk \in [Inum -> [type : {"none", "dir", "file"}, nlink : Nat,
                        dir : [Name -> Inum \cup {None}]]]
  /\ icache \in [Slot -> [inum : Inum \cup {None}, ref : Nat, valid : BOOLEAN,
                          type : {"none", "dir", "file"}, nlink : Nat,
                          lock : Proc \cup {None}]]
  /\ ftable \in [File -> [ref : Nat, ip : Slot \cup {None}]]
  /\ ofile \in [Proc -> [Fd -> File \cup {None}]]
  /\ pc \in [Proc -> Point]
  /\ \A p \in Proc : call[p] \in Call \cup {None}
  /\ rest \in [Proc -> Seq(Name)]
  /\ cur \in [Proc -> Slot \cup {None}]
  /\ ip \in [Proc -> Slot \cup {None}]
  /\ inum \in [Proc -> Inum \cup {None}]
  /\ puts \in [Proc -> Seq(Slot)]
  /\ then \in [Proc -> Point]

\* mkfs leaves a root directory, here without files; it is the working
\* directory of every process.
Init ==
  /\ disk = [i \in Inum |->
              IF i = ROOTINO THEN [type |-> "dir", nlink |-> 1, dir |-> NoEntries]
              ELSE [type |-> "none", nlink |-> 0, dir |-> NoEntries]]
  /\ icache = [s \in Slot |->
       IF s = 1 THEN [inum |-> ROOTINO, ref |-> Cardinality(Proc), valid |-> TRUE,
                      type |-> "dir", nlink |-> 1, lock |-> None]
       ELSE [inum |-> None, ref |-> 0, valid |-> FALSE,
             type |-> "none", nlink |-> 0, lock |-> None]]
  /\ ftable = [f \in File |-> [ref |-> 0, ip |-> None]]
  /\ ofile = [p \in Proc |-> [d \in Fd |-> None]]
  /\ pc = [p \in Proc |-> "idle"]
  /\ call = [p \in Proc |-> None]
  /\ rest = [p \in Proc |-> <<>>]
  /\ cur = [p \in Proc |-> None]
  /\ ip = [p \in Proc |-> None]
  /\ inum = [p \in Proc |-> None]
  /\ puts = [p \in Proc |-> <<>>]
  /\ then = [p \in Proc |-> "idle"]

-----------------------------------------------------------------------------
(* The inode cache.                                                        *)

First(S) == CHOOSE s \in S : \A t \in S : s <= t

MutSlotOf(ic, i) ==
  First({s \in Slot : ic[s].ref = 0 \/ ic[s].inum = i})

\* iget(): the slot inode i is in, or the first empty one,
SlotOf(ic, i) ==
  LET hits == {s \in Slot : ic[s].ref > 0 /\ ic[s].inum = i}
      empty == {s \in Slot : ic[s].ref = 0}
  IN First(IF hits # {} THEN hits ELSE empty)

MutIget(ic, i) ==
  [ic EXCEPT ![SlotOf(ic, i)].inum = i, ![SlotOf(ic, i)].ref = @ + 1]

\* and the cache with one more reference to it
Iget(ic, i) ==
  LET s == SlotOf(ic, i)
      node == ic[s]
  IN [ic EXCEPT ![s] =
        IF node.ref > 0 THEN [node EXCEPT !.ref = @ + 1]
        ELSE [node EXCEPT !.inum = i, !.ref = 1, !.valid = FALSE]]

Unlocked(s) == icache[s].lock = None

\* ilock() reads the inode if the slot does not hold it.
Loaded(s) ==
  IF icache[s].valid THEN icache[s]
  ELSE [icache[s] EXCEPT !.valid = TRUE,
                         !.type = disk[icache[s].inum].type,
                         !.nlink = disk[icache[s].inum].nlink]

\* the inode s past ilock() with its lock taken, or free again
LockedBy(s, p) == [Loaded(s) EXCEPT !.lock = p]

Entry(s, n) == disk[icache[s].inum].dir[n]

\* ip->nlink += k and iupdate()
Linked(node, k) == [node EXCEPT !.nlink = @ + k]

Updated(d, node) ==
  [d EXCEPT ![node.inum].type = node.type, ![node.inum].nlink = node.nlink]

\* p goes on with iput() of the inodes of seq and then to next.
Put(p, seq, next) ==
  /\ puts' = [puts EXCEPT ![p] = seq]
  /\ then' = [then EXCEPT ![p] = next]
  /\ pc' = [pc EXCEPT ![p] = "put"]

GoTo(p, next) ==
  /\ pc' = [pc EXCEPT ![p] = next]
  /\ UNCHANGED putVars

\* iput() locks the inode and, for one without links, reads the count,
PutLock(p) ==
  LET s == Head(puts[p]) IN
  /\ pc[p] = "put"
  /\ icache[s].inum # ROOTINO
  /\ Unlocked(s)
  /\ IF icache[s].valid /\ icache[s].nlink = 0 /\ icache[s].ref = 1
       THEN /\ icache' = [icache EXCEPT ![s].lock = p]
            /\ pc' = [pc EXCEPT ![p] = "putfree"]
       ELSE /\ pc' = [pc EXCEPT ![p] = "putdrop"]
            /\ UNCHANGED icache
  /\ UNCHANGED <<disk, fileVars, walkVars, ip, inum, putVars>>

MutFreed(node) == [node EXCEPT !.type = "none", !.lock = None]

\* itrunc(), ip->type = 0, ip->valid = 0 and releasesleep()
Freed(node) == [node EXCEPT !.type = "none", !.valid = FALSE, !.lock = None]

\* frees an inode that has neither links nor other references,
PutFree(p) ==
  LET s == Head(puts[p]) IN
  /\ pc[p] = "putfree"
  /\ disk' = [disk EXCEPT ![icache[s].inum].type = "none",
                          ![icache[s].inum].dir = NoEntries]
  /\ icache' = [icache EXCEPT ![s] = Freed(@)]
  /\ pc' = [pc EXCEPT ![p] = "putdrop"]
  /\ UNCHANGED <<fileVars, walkVars, ip, inum, putVars>>

Drop(p) ==
  /\ icache' = [icache EXCEPT ![Head(puts[p])].ref = @ - 1]
  /\ puts' = [puts EXCEPT ![p] = Tail(@)]
  /\ IF Tail(puts[p]) # <<>>
       THEN /\ pc' = [pc EXCEPT ![p] = "put"]
            /\ UNCHANGED <<then, call>>
       ELSE /\ pc' = [pc EXCEPT ![p] = then[p]]
            /\ then' = [then EXCEPT ![p] = "idle"]
            /\ call' = IF then[p] = "idle" THEN [call EXCEPT ![p] = None] ELSE call
  /\ UNCHANGED <<disk, fileVars, rest, cur, ip, inum>>

\* and drops its reference in a section of its own.
PutDrop(p) ==
  /\ pc[p] = "putdrop"
  /\ Drop(p)

\* The root always has a link: nothing can happen between the two sections.
PutRoot(p) ==
  /\ pc[p] = "put"
  /\ icache[Head(puts[p])].inum = ROOTINO
  /\ Unlocked(Head(puts[p]))
  /\ Drop(p)

-----------------------------------------------------------------------------
(* namex().                                                                *)

\* sys_link() looks up a second path when it has its first inode.
WantsParent(p) ==
  call[p].op \in {"create", "mkdir", "unlink"} \/ ip[p] # None

Found(p) ==
  CASE call[p].op \in {"open", "openw"} -> "open"
    [] call[p].op \in {"create", "mkdir"} -> "create"
    [] call[p].op = "unlink" -> "unlink"
    [] call[p].op = "link" -> IF ip[p] = None THEN "linkold" ELSE "linknew"

NotFound(p) == IF ip[p] = None THEN "idle" ELSE "linkbad"

\* A call begins: namex() gets the root.
Begin(p, c) ==
  /\ pc[p] = "idle"
  /\ call' = [call EXCEPT ![p] = c]
  /\ icache' = Iget(icache, ROOTINO)
  /\ cur' = [cur EXCEPT ![p] = SlotOf(icache, ROOTINO)]
  /\ rest' = [rest EXCEPT ![p] = c.path]
  /\ GoTo(p, "walk")
  /\ UNCHANGED <<disk, fileVars, ip, inum>>

\* The path is that of the root, which has no parent.
WalkRoot(p) ==
  /\ pc[p] = "walk"
  /\ rest[p] = <<>>
  /\ IF WantsParent(p)
       THEN /\ cur' = [cur EXCEPT ![p] = None]
            /\ Put(p, <<cur[p]>>, NotFound(p))
       ELSE GoTo(p, Found(p)) /\ UNCHANGED cur
  /\ UNCHANGED <<diskVars, fileVars, call, rest, ip, inum>>

\* namex() returns the directory one level early.
WalkParent(p) ==
  LET node == LockedBy(cur[p], None) IN
  /\ pc[p] = "walk"
  /\ WantsParent(p) /\ Len(rest[p]) = 1
  /\ Unlocked(cur[p])
  /\ node.type = "dir"
  /\ icache' = [icache EXCEPT ![cur[p]] = node]
  /\ rest' = [rest EXCEPT ![p] = <<>>]
  /\ GoTo(p, Found(p))
  /\ UNCHANGED <<disk, fileVars, call, cur, ip, inum>>

WalkFail(p) ==
  LET node == LockedBy(cur[p], None) IN
  /\ pc[p] = "walk"
  /\ rest[p] # <<>>
  /\ Unlocked(cur[p])
  /\ \/ node.type # "dir"
     \/ ~(WantsParent(p) /\ Len(rest[p]) = 1) /\ Entry(cur[p], rest[p][1]) = None
  /\ icache' = [icache EXCEPT ![cur[p]] = node]
  /\ cur' = [cur EXCEPT ![p] = None]
  /\ rest' = [rest EXCEPT ![p] = <<>>]
  /\ Put(p, <<cur[p]>>, NotFound(p))
  /\ UNCHANGED <<disk, fileVars, call, ip, inum>>

\* One level down: namex() gets the next inode before it puts this one.
WalkDown(p) ==
  LET s == cur[p]
      node == LockedBy(s, None)
      i == Entry(s, rest[p][1])
      ic == [icache EXCEPT ![s] = node]
  IN
  /\ pc[p] = "walk"
  /\ rest[p] # <<>>
  /\ ~(WantsParent(p) /\ Len(rest[p]) = 1)
  /\ Unlocked(s)
  /\ node.type = "dir"
  /\ i # None
  /\ icache' = Iget(ic, i)
  /\ cur' = [cur EXCEPT ![p] = SlotOf(ic, i)]
  /\ rest' = [rest EXCEPT ![p] = Tail(@)]
  /\ Put(p, <<s>>, IF Len(rest[p]) = 1 THEN Found(p) ELSE "walk")
  /\ UNCHANGED <<disk, fileVars, call, ip, inum>>

-----------------------------------------------------------------------------
(* sys_open() and create().                                                *)

\* filealloc() and fdalloc() for the inode s that p has locked; iunlock().
FreeFiles == {f \in File : ftable[f].ref = 0}
FreeFds(p) == {d \in Fd : ofile[p][d] = None}

MayOpen(p) == FreeFiles # {} /\ FreeFds(p) # {}

OpenFile(p, s) ==
  IF MayOpen(p)
    THEN LET f == First(FreeFiles) IN
            /\ ftable' = [ftable EXCEPT ![f] = [ref |-> 1, ip |-> s]]
            /\ ofile' = [ofile EXCEPT ![p][First(FreeFds(p))] = f]
            /\ call' = [call EXCEPT ![p] = None]
            /\ GoTo(p, "idle")
    ELSE /\ Put(p, <<s>>, "idle")
         /\ UNCHANGED <<fileVars, call>>

\* sys_open() without O_CREATE; a directory only to be read.
Open(p) ==
  LET node == LockedBy(cur[p], None) IN
  /\ pc[p] = "open"
  /\ Unlocked(cur[p])
  /\ icache' = [icache EXCEPT ![cur[p]] = node]
  /\ IF node.type = "dir" /\ call[p].op = "openw"
       THEN Put(p, <<cur[p]>>, "idle") /\ UNCHANGED <<fileVars, call>>
       ELSE OpenFile(p, cur[p])
  /\ cur' = [cur EXCEPT ![p] = None]
  /\ UNCHANGED <<disk, rest, ip, inum>>

\* create() finds the name.
CreateOld(p) ==
  LET s == cur[p]
      i == Entry(s, Last(call[p].path))
      ic == [icache EXCEPT ![s] = LockedBy(s, None)]
  IN
  /\ pc[p] = "create"
  /\ Unlocked(s)
  /\ i # None
  /\ icache' = Iget(ic, i)
  /\ ip' = [ip EXCEPT ![p] = SlotOf(ic, i)]
  /\ cur' = [cur EXCEPT ![p] = None]
  /\ Put(p, <<s>>, "createold")
  /\ UNCHANGED <<disk, fileVars, call, rest, inum>>

CreateOldLock(p) ==
  LET node == LockedBy(ip[p], None) IN
  /\ pc[p] = "createold"
  /\ Unlocked(ip[p])
  /\ icache' = [icache EXCEPT ![ip[p]] = node]
  /\ IF call[p].op = "create" /\ node.type = "file"
       THEN OpenFile(p, ip[p])
       ELSE Put(p, <<ip[p]>>, "idle") /\ UNCHANGED <<fileVars, call>>
  /\ ip' = [ip EXCEPT ![p] = None]
  /\ UNCHANGED <<disk, rest, cur, inum>>

\* create() does not find it and keeps the directory locked.
CreateNew(p) ==
  /\ pc[p] = "create"
  /\ Unlocked(cur[p])
  /\ Entry(cur[p], Last(call[p].path)) = None
  /\ icache' = [icache EXCEPT ![cur[p]] = LockedBy(cur[p], p)]
  /\ GoTo(p, "ialloc")
  /\ UNCHANGED <<disk, fileVars, walkVars, ip, inum>>

\* ialloc(): the first inode it reads that is free; it panics if there is none.
Ialloc(p) ==
  /\ pc[p] = "ialloc"
  /\ \E i \in Inum :
       /\ disk[i].type = "none"
       /\ disk' = [disk EXCEPT ![i] =
                    [type |-> IF call[p].op = "mkdir" THEN "dir" ELSE "file",
                     nlink |-> 0, dir |-> NoEntries]]
       /\ inum' = [inum EXCEPT ![p] = i]
  /\ GoTo(p, "newget")
  /\ UNCHANGED <<icache, fileVars, walkVars, ip>>

NewGet(p) ==
  /\ pc[p] = "newget"
  /\ icache' = Iget(icache, inum[p])
  /\ ip' = [ip EXCEPT ![p] = SlotOf(icache, inum[p])]
  /\ GoTo(p, "newlock")
  /\ UNCHANGED <<disk, fileVars, walkVars, inum>>

\* The new inode is locked, filled in and entered into the directory, which is
\* unlocked, and put while the new inode stays locked.
NewLock(p) ==
  LET node == [LockedBy(ip[p], p) EXCEPT !.nlink = 1]
      dp == Linked([icache[cur[p]] EXCEPT !.lock = None],
                   IF call[p].op = "mkdir" THEN 1 ELSE 0)
  IN
  /\ pc[p] = "newlock"
  /\ Unlocked(ip[p])
  /\ icache' = [icache EXCEPT ![ip[p]] = node, ![cur[p]] = dp]
  /\ disk' = [Updated(Updated(disk, node), dp) EXCEPT
               ![dp.inum].dir[Last(call[p].path)] = inum[p]]
  /\ cur' = [cur EXCEPT ![p] = None]
  /\ inum' = [inum EXCEPT ![p] = None]
  /\ Put(p, <<cur[p]>>, "created")
  /\ UNCHANGED <<fileVars, call, rest, ip>>

Created(p) ==
  /\ pc[p] = "created"
  /\ icache' = [icache EXCEPT ![ip[p]].lock = None]
  /\ IF call[p].op = "create"
       THEN OpenFile(p, ip[p])
       ELSE Put(p, <<ip[p]>>, "idle") /\ UNCHANGED <<fileVars, call>>
  /\ ip' = [ip EXCEPT ![p] = None]
  /\ UNCHANGED <<disk, rest, cur, inum>>

-----------------------------------------------------------------------------
(* sys_unlink().                                                           *)

UnlinkNone(p) ==
  /\ pc[p] = "unlink"
  /\ Unlocked(cur[p])
  /\ Entry(cur[p], Last(call[p].path)) = None
  /\ icache' = [icache EXCEPT ![cur[p]] = LockedBy(cur[p], None)]
  /\ cur' = [cur EXCEPT ![p] = None]
  /\ Put(p, <<cur[p]>>, "idle")
  /\ UNCHANGED <<disk, fileVars, call, rest, ip, inum>>

UnlinkFound(p) ==
  LET i == Entry(cur[p], Last(call[p].path))
      ic == [icache EXCEPT ![cur[p]] = LockedBy(cur[p], p)]
  IN
  /\ pc[p] = "unlink"
  /\ Unlocked(cur[p])
  /\ i # None
  /\ icache' = Iget(ic, i)
  /\ ip' = [ip EXCEPT ![p] = SlotOf(ic, i)]
  /\ GoTo(p, "unlinkip")
  /\ UNCHANGED <<disk, fileVars, walkVars, inum>>

Isdirempty(d) == d = NoEntries

\* The entry goes first; the directory is put while the inode stays locked.
UnlinkEntry(p) ==
  LET node == LockedBy(ip[p], p)
      dp == Linked([icache[cur[p]] EXCEPT !.lock = None],
                   IF node.type = "dir" THEN -1 ELSE 0)
  IN
  /\ pc[p] = "unlinkip"
  /\ Unlocked(ip[p])
  /\ node.type = "dir" => Isdirempty(disk[node.inum].dir)
  /\ icache' = [icache EXCEPT ![ip[p]] = node, ![cur[p]] = dp]
  /\ disk' = [Updated(disk, dp) EXCEPT
               ![dp.inum].dir[Last(call[p].path)] = None]
  /\ cur' = [cur EXCEPT ![p] = None]
  /\ Put(p, <<cur[p]>>, "unlinked")
  /\ UNCHANGED <<fileVars, call, rest, ip, inum>>

\* A directory that is not empty is put while its parent stays locked.
UnlinkRefuse(p) ==
  LET node == LockedBy(ip[p], None) IN
  /\ pc[p] = "unlinkip"
  /\ Unlocked(ip[p])
  /\ node.type = "dir" /\ ~Isdirempty(disk[node.inum].dir)
  /\ icache' = [icache EXCEPT ![ip[p]] = node]
  /\ ip' = [ip EXCEPT ![p] = None]
  /\ Put(p, <<ip[p]>>, "unlinkbad")
  /\ UNCHANGED <<disk, fileVars, walkVars, inum>>

UnlinkBad(p) ==
  /\ pc[p] = "unlinkbad"
  /\ icache' = [icache EXCEPT ![cur[p]].lock = None]
  /\ cur' = [cur EXCEPT ![p] = None]
  /\ Put(p, <<cur[p]>>, "idle")
  /\ UNCHANGED <<disk, fileVars, call, rest, ip, inum>>

Unlinked(p) ==
  LET node == Linked([icache[ip[p]] EXCEPT !.lock = None], -1) IN
  /\ pc[p] = "unlinked"
  /\ icache' = [icache EXCEPT ![ip[p]] = node]
  /\ disk' = Updated(disk, node)
  /\ ip' = [ip EXCEPT ![p] = None]
  /\ Put(p, <<ip[p]>>, "idle")
  /\ UNCHANGED <<fileVars, walkVars, inum>>

-----------------------------------------------------------------------------
(* sys_link().                                                             *)

\* A directory is refused.
LinkRefuse(p) ==
  LET node == LockedBy(cur[p], None) IN
  /\ pc[p] = "linkold"
  /\ Unlocked(cur[p])
  /\ node.type = "dir"
  /\ icache' = [icache EXCEPT ![cur[p]] = node]
  /\ cur' = [cur EXCEPT ![p] = None]
  /\ Put(p, <<cur[p]>>, "idle")
  /\ UNCHANGED <<disk, fileVars, call, rest, ip, inum>>

\* The link is counted before it is there; the second walk begins.
LinkOld(p) ==
  LET node == Linked(LockedBy(cur[p], None), 1)
      ic == [icache EXCEPT ![cur[p]] = node]
  IN
  /\ pc[p] = "linkold"
  /\ Unlocked(cur[p])
  /\ node.type # "dir"
  /\ disk' = Updated(disk, node)
  /\ ip' = [ip EXCEPT ![p] = cur[p]]
  /\ icache' = Iget(ic, ROOTINO)
  /\ cur' = [cur EXCEPT ![p] = SlotOf(ic, ROOTINO)]
  /\ rest' = [rest EXCEPT ![p] = call[p].new]
  /\ GoTo(p, "walk")
  /\ UNCHANGED <<fileVars, call, inum>>

\* dirlink() enters the name,
LinkNew(p) ==
  LET node == LockedBy(cur[p], None) IN
  /\ pc[p] = "linknew"
  /\ Unlocked(cur[p])
  /\ Entry(cur[p], Last(call[p].new)) = None
  /\ icache' = [icache EXCEPT ![cur[p]] = node]
  /\ disk' = [disk EXCEPT ![node.inum].dir[Last(call[p].new)] = icache[ip[p]].inum]
  /\ cur' = [cur EXCEPT ![p] = None]
  /\ ip' = [ip EXCEPT ![p] = None]
  /\ Put(p, <<cur[p], ip[p]>>, "idle")
  /\ UNCHANGED <<fileVars, call, rest, inum>>

\* or finds it there, and puts what it finds while the directory is locked.
LinkExists(p) ==
  LET i == Entry(cur[p], Last(call[p].new))
      ic == [icache EXCEPT ![cur[p]] = LockedBy(cur[p], p)]
  IN
  /\ pc[p] = "linknew"
  /\ Unlocked(cur[p])
  /\ i # None
  /\ icache' = Iget(ic, i)
  /\ Put(p, <<SlotOf(ic, i)>>, "linkfound")
  /\ UNCHANGED <<disk, fileVars, walkVars, ip, inum>>

LinkFound(p) ==
  /\ pc[p] = "linkfound"
  /\ icache' = [icache EXCEPT ![cur[p]].lock = None]
  /\ cur' = [cur EXCEPT ![p] = None]
  /\ Put(p, <<cur[p]>>, "linkbad")
  /\ UNCHANGED <<disk, fileVars, call, rest, ip, inum>>

\* bad: the count is taken back.
LinkBad(p) ==
  LET node == Linked(LockedBy(ip[p], None), -1) IN
  /\ pc[p] = "linkbad"
  /\ Unlocked(ip[p])
  /\ icache' = [icache EXCEPT ![ip[p]] = node]
  /\ disk' = Updated(disk, node)
  /\ ip' = [ip EXCEPT ![p] = None]
  /\ Put(p, <<ip[p]>>, "idle")
  /\ UNCHANGED <<fileVars, walkVars, inum>>

-----------------------------------------------------------------------------
(* sys_close() and fork(), whose filedup() is also all sys_dup() does.     *)

\* fileclose(): the last reference puts the inode.
Close(p, d) ==
  LET f == ofile[p][d] IN
  /\ pc[p] = "idle"
  /\ f # None
  /\ ofile' = [ofile EXCEPT ![p][d] = None]
  /\ IF ftable[f].ref > 1
       THEN /\ ftable' = [ftable EXCEPT ![f].ref = @ - 1]
            /\ GoTo(p, "idle")
       ELSE /\ ftable' = [ftable EXCEPT ![f] = [ref |-> 0, ip |-> None]]
            /\ Put(p, <<ftable[f].ip>>, "idle")
  /\ UNCHANGED <<diskVars, walkVars, ip, inum>>

\* A process q without open files is the new child of p.
Fork(p, q) ==
  /\ pc[p] = "idle" /\ pc[q] = "idle"
  /\ p # q
  /\ FreeFds(q) = Fd
  /\ ofile' = [ofile EXCEPT ![q] = ofile[p]]
  /\ ftable' = [f \in File |->
                 [ftable[f] EXCEPT
                   !.ref = @ + Cardinality({d \in Fd : ofile[p][d] = f})]]
  /\ UNCHANGED <<diskVars, pc, walkVars, ip, inum, putVars>>

Step(p) ==
  \/ WalkRoot(p) \/ WalkParent(p) \/ WalkFail(p) \/ WalkDown(p)
  \/ PutLock(p) \/ PutFree(p) \/ PutDrop(p) \/ PutRoot(p)
  \/ Open(p) \/ CreateOld(p) \/ CreateOldLock(p)
  \/ CreateNew(p) \/ Ialloc(p) \/ NewGet(p) \/ NewLock(p) \/ Created(p)
  \/ UnlinkNone(p) \/ UnlinkFound(p) \/ UnlinkEntry(p) \/ UnlinkRefuse(p)
  \/ UnlinkBad(p) \/ Unlinked(p)
  \/ LinkRefuse(p) \/ LinkOld(p) \/ LinkNew(p) \/ LinkExists(p)
  \/ LinkFound(p) \/ LinkBad(p)

Next ==
  \E p \in Proc :
    \/ Step(p)
    \/ \E c \in Call : Begin(p, c)
    \/ \E d \in Fd : Close(p, d)
    \/ \E q \in Proc : Fork(p, q)

Spec == Init /\ [][Next]_vars

-----------------------------------------------------------------------------
(* Properties.                                                             *)

\* An inode is in one slot of the cache, a slot's reference count is that of
\* the working directories, the open files and the calls in progress that point
\* at it, a file's that of the descriptors.
RefsExact ==
  /\ \A s, t \in Slot :
       icache[s].ref > 0 /\ icache[t].ref > 0 /\ icache[s].inum = icache[t].inum
         => s = t
  /\ \A s \in Slot :
       icache[s].ref = (IF s = 1 THEN Cardinality(Proc) ELSE 0)
                     + Cardinality({f \in File : ftable[f].ip = s})
                     + Cardinality({p \in Proc : cur[p] = s})
                     + Cardinality({p \in Proc : ip[p] = s})
                     + Cardinality({x \in Proc \X (1 .. 2) :
                         /\ x[2] \in DOMAIN puts[x[1]]
                         /\ puts[x[1]][x[2]] = s})
  /\ \A f \in File :
       ftable[f].ref = Cardinality({x \in Proc \X Fd : ofile[x[1]][x[2]] = f})

\* The directory entries that name inode i
Entries(i) == {x \in Inum \X Name : disk[x[1]].dir[x[2]] = i}

\* Nothing dangles: an inode some entry, open file or call points at is
\* allocated, has a link for every entry, and what the cache holds of it is
\* what is on the disk, however creation, removal and recycling of inodes and
\* of slots of the cache interleave.
InodesLive ==
  /\ \A i \in Inum : Entries(i) # {} =>
       disk[i].type # "none" /\ disk[i].nlink >= Cardinality(Entries(i))
  /\ \A s \in Slot :
       (\E f \in File : ftable[f].ip = s) \/ (\E p \in Proc : s \in {cur[p], ip[p]})
         => disk[icache[s].inum].type # "none"
  /\ \A s \in Slot : icache[s].ref > 0 /\ icache[s].valid =>
       /\ icache[s].type = disk[icache[s].inum].type
       /\ icache[s].nlink = disk[icache[s].inum].nlink

\* The comment of fs.c: "ialloc() allocates, and iput() frees if the reference
\* and link counts have fallen to zero".
LastPutFrees ==
  \A i \in Inum : disk[i].type # "none" /\ disk[i].nlink = 0 =>
    \/ \E s \in Slot : icache[s].ref > 0 /\ icache[s].inum = i
    \/ \E p \in Proc : inum[p] = i
=============================================================================
