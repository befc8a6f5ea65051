------------------------------ MODULE LogProofs ------------------------------
(***************************************************************************)
(* Proofs about Log, for any number of processes, blocks and log slots,    *)
(* and any number of crashes: the reservation of begin_op() is enough, no  *)
(* write is lost by an eviction, no sleeper is forgotten, and the log      *)
(* implements AtomicDisk.  Calls are those that keep to OpBlocks, which    *)
(* copy_file() of Lab 2 does not: Copier = {} throughout.                  *)
(***************************************************************************)
EXTENDS Log, FiniteSetTheorems, TLAPS

\* The processes log.outstanding counts.
Active == {p \in Proc : pc[p] \in {"op", "write"}}

\* One for every block a call in progress may still add to the header: the
\* sum of the reservations as the cardinality of a set.
Tokens ==
  {t \in Active \X (1 .. MAXOPBLOCKS) : t[2] > Cardinality(wrote[t[1]])}

PcInv ==
  /\ \A p \in Proc : pc[p] # "panic"
  /\ \A p \in Proc : buf[p] # None <=> pc[p] = "write"
  /\ \A p, q \in Proc : buf[p] # None /\ buf[p] = buf[q] => p = q
  /\ phase \in {"boot", "recover"} => \A p \in Proc : pc[p] = "idle"
  /\ \A p \in Proc : pc[p] = "asleep" => outstanding > 0 \/ committing

CommitInv ==
  /\ outstanding = Cardinality(Active)
  /\ committing <=> phase \in {"log", "install", "end"}
  /\ phase # "run" => Active = {}
  /\ phase \in {"end", "boot"} => lh = <<>>
  /\ phase = "run" /\ Active = {} => lh = <<>>
  /\ phase \in {"run", "log", "end"} => head = <<>>
  /\ phase \in {"install", "recover"} => head = lh

SpaceInv ==
  /\ \A p \in Active : wrote[p] \subseteq Logged(lh)
  /\ \A p \in Proc : IsFiniteSet(wrote[p]) /\ Cardinality(wrote[p]) <= OpBlocks
  /\ \A p \in Proc \ Active : wrote[p] = {}
  /\ \A p \in Proc : pc[p] = "write" => Cardinality(wrote[p] \cup {buf[p]}) <= OpBlocks
  /\ outstanding = 1 => Len(lh) + Cardinality(Tokens) <= LOGSIZE - 1
  /\ outstanding > 1 => Len(lh) + Cardinality(Tokens) <= LOGSIZE
  /\ Len(lh) <= SIZE - 1 /\ Len(head) <= SIZE - 1

DataInv ==
  /\ PinnedUntilInstalled
  /\ \A b \in Locked : cache[b] # None
  /\ phase \in {"boot", "recover"} => dirty = {}
  /\ phase = "log" => \A i \in DOMAIN lh : i < tail => slots[i] = Contents(lh[i])
  /\ phase = "install" => \A i \in DOMAIN lh : slots[i] = Contents(lh[i])
  /\ phase \in {"install", "recover"} =>
       /\ \A i \in DOMAIN lh : i < tail => home[lh[i]] = slots[i]
       /\ \A b \in dirty : \E i \in DOMAIN lh : i >= tail /\ lh[i] = b
  /\ tail >= 1

IInv == TypeOK /\ PcInv /\ CommitInv /\ SpaceInv /\ DataInv

-----------------------------------------------------------------------------
(* Types.                                                                  *)

LEMMA ConstantFacts ==
  /\ IsFiniteSet(Proc)
  /\ MAXOPBLOCKS \in Nat /\ OpBlocks \in Nat /\ LOGSIZE \in Nat
  /\ OpBlocks < MAXOPBLOCKS /\ MAXOPBLOCKS < LOGSIZE
  /\ SIZE = LOGSIZE
  /\ Zero \in Val /\ None \notin Block /\ None \notin Val
BY LogAssumption

LEMMA ContentsType ==
  ASSUME TypeOK
  PROVE  \A b \in Block : Contents(b) \in Val
BY DEF TypeOK, Contents

\* Absorption keeps the header a sequence without repetitions.
LEMMA AbsorbedFacts ==
  ASSUME NEW s \in Seq(Block), Distinct(s), NEW b \in Block
  PROVE  /\ Absorbed(s, b) \in Seq(Block)
         /\ Distinct(Absorbed(s, b))
         /\ Logged(Absorbed(s, b)) = Logged(s) \cup {b}
         /\ Len(Absorbed(s, b)) = IF b \in Logged(s) THEN Len(s) ELSE Len(s) + 1
<1>1. CASE b \in Logged(s)
  BY <1>1 DEF Absorbed, Logged
<1>2. CASE b \notin Logged(s)
  <2>1. Absorbed(s, b) = Append(s, b)
    BY <1>2 DEF Absorbed
  <2>2. /\ Append(s, b) \in Seq(Block) /\ Len(Append(s, b)) = Len(s) + 1
        /\ \A i \in 1 .. Len(s) : Append(s, b)[i] = s[i]
        /\ Append(s, b)[Len(s) + 1] = b
        /\ DOMAIN Append(s, b) = 1 .. Len(s) + 1 /\ DOMAIN s = 1 .. Len(s)
    OBVIOUS
  <2>3. Distinct(Append(s, b))
    <3>. SUFFICES ASSUME NEW i \in 1 .. Len(s) + 1, NEW j \in 1 .. Len(s) + 1,
                         Append(s, b)[i] = Append(s, b)[j]
                  PROVE  i = j
      BY <2>2 DEF Distinct
    <3>1. CASE i \in 1 .. Len(s) /\ j \in 1 .. Len(s)
      BY <3>1, <2>2 DEF Distinct
    <3>2. CASE i = Len(s) + 1 /\ j \in 1 .. Len(s)
      BY <3>2, <2>2, <1>2 DEF Logged
    <3>3. CASE j = Len(s) + 1 /\ i \in 1 .. Len(s)
      BY <3>3, <2>2, <1>2 DEF Logged
    <3>. QED
      BY <3>1, <3>2, <3>3
  <2>4. Logged(Append(s, b)) = Logged(s) \cup {b}
    <3>1. \A i \in 1 .. Len(s) + 1 : i \in 1 .. Len(s) \/ i = Len(s) + 1
      OBVIOUS
    <3>2. \A x \in Logged(Append(s, b)) : x \in Logged(s) \cup {b}
      BY <3>1, <2>2 DEF Logged
    <3>3. \A x \in Logged(s) \cup {b} : x \in Logged(Append(s, b))
      BY <2>2 DEF Logged
    <3>. QED
      BY <3>2, <3>3
  <2>. QED
    BY <1>2, <2>1, <2>2, <2>3, <2>4
<1>. QED
  BY <1>1, <1>2

LEMMA NothingLogged == <<>> \in Seq(Block) /\ Distinct(<<>>)
BY DEF Distinct

LEMMA ActiveFacts ==
  ASSUME TypeOK
  PROVE  /\ IsFiniteSet(Active) /\ Cardinality(Active) \in Nat
         /\ Cardinality(Active) = 0 <=> Active = {}
<1>1. Active \subseteq Proc
  BY DEF Active
<1>. QED
  BY <1>1, ConstantFacts, FS_Subset, FS_CardinalityType, FS_EmptySet

LEMMA TypeInit == Init => TypeOK
<1>. SUFFICES ASSUME Init PROVE TypeOK
  OBVIOUS
<1>1. head \in Seq(Block) /\ Distinct(head) /\ lh \in Seq(Block) /\ Distinct(lh)
  BY NothingLogged DEF Init
<1>. QED
  BY <1>1, ConstantFacts DEF Init, TypeOK, Phase

\* Every step keeps the types.
LEMMA TypeStep ==
  IInv /\ [Next]_vars => TypeOK'
<1>. SUFFICES ASSUME IInv, [Next]_vars PROVE TypeOK'
  OBVIOUS
<1>a. IsFiniteSet(Active) /\ Cardinality(Active) \in Nat /\ (Cardinality(Active) = 0 <=> Active = {})
  BY ActiveFacts DEF IInv
<1>. USE ConstantFacts DEF TypeOK, IInv, diskVars, logVars, procVars, Phase
<1>1. CASE UNCHANGED vars
  BY <1>1 DEF vars, Distinct
<1>2. ASSUME NEW p \in Proc, BeginSleep(p) PROVE TypeOK'
  BY <1>2 DEF BeginSleep, Distinct
<1>3. ASSUME NEW p \in Proc, BeginOp(p) PROVE TypeOK'
  BY <1>3 DEF BeginOp, Distinct
<1>4. ASSUME NEW p \in Proc, LogWrite(p) PROVE TypeOK'
  <2>1. buf[p] \in Block
    BY <1>4 DEF LogWrite, PcInv
  <2>2. lh' \in Seq(Block) /\ Distinct(lh')
    BY <1>4, <2>1, AbsorbedFacts DEF LogWrite
  <2>. QED
    BY <1>4, <2>1, <2>2 DEF LogWrite, Distinct
<1>5. ASSUME NEW p \in Proc, EndOp(p) PROVE TypeOK'
  <2>1. p \in Active /\ ~committing
    BY <1>5 DEF EndOp, Active, CommitInv
  <2>2. outstanding > 0
    BY <2>1, <1>a DEF CommitInv
  <2>. QED
    BY <1>5, <2>1, <2>2 DEF EndOp, Woken, Distinct
<1>6. ASSUME NEW p \in Proc, EndLastOp(p) PROVE TypeOK'
  BY <1>6 DEF EndLastOp, Distinct
<1>7. ASSUME NEW p \in Proc, NEW b \in Block, NEW v \in Val, Modify(p, b, v)
      PROVE  TypeOK'
  BY <1>7 DEF Modify, Distinct
<1>8. ASSUME NEW b \in Block, Load(b) PROVE TypeOK'
  BY <1>8 DEF Load, Distinct
<1>9. ASSUME NEW b \in Block, Evict(b) PROVE TypeOK'
  BY <1>9 DEF Evict, Distinct
<1>10. CASE WriteLog
  <2>1. lh[tail] \in Block
    BY <1>10 DEF WriteLog, DataInv
  <2>2. home[lh[tail]] \in Val /\ cache[lh[tail]] \in Val \cup {None}
    BY <2>1
  <2>3. Contents(lh[tail]) \in Val
    BY <2>2 DEF Contents
  <2>4. [slots EXCEPT ![tail] = Contents(lh[tail])] \in [Slot -> Val]
    BY <2>3
  <2>. QED
    BY <1>10, <2>4 DEF WriteLog, Distinct
<1>11. CASE WriteHead
  BY <1>11 DEF WriteHead, Distinct
<1>12. CASE Install
  <2>1. tail \in DOMAIN lh /\ tail \in Slot
    BY <1>12 DEF Install, DataInv, SpaceInv, Slot
  <2>. QED
    BY <1>12, <2>1 DEF Install, Distinct
<1>13. CASE ClearHead
  BY <1>13 DEF ClearHead, AfterInstall, Distinct
<1>14. CASE EndCommit
  BY <1>14 DEF EndCommit, Woken, Distinct
<1>15. CASE ReadHead
  BY <1>15 DEF ReadHead, Distinct
<1>16. CASE Crash
  <2>1. <<>> \in Seq(Block) /\ Distinct(<<>>)
    BY NothingLogged
  <2>. QED
    BY <1>16, <2>1 DEF Crash, Distinct
<1>. QED
  BY <1>1, <1>2, <1>3, <1>4, <1>5, <1>6, <1>7, <1>8, <1>9, <1>10, <1>11, <1>12,
     <1>13, <1>14, <1>15, <1>16 DEF Next, Begin, End, Commit

-----------------------------------------------------------------------------
(* Where the processes and commit() stand.                                 *)

LEMMA WokenFacts ==
  ASSUME NEW f, NEW p \in Proc
  PROVE  /\ Woken(f)[p] # "asleep"
         /\ f[p] # "asleep" => Woken(f)[p] = f[p]
         /\ f[p] = "asleep" => Woken(f)[p] = "begin"
BY DEF Woken

TokensCounted ==
  /\ IsFiniteSet(Tokens) /\ Cardinality(Tokens) \in Nat
  /\ IsFiniteSet(Active \X (1 .. MAXOPBLOCKS))
  /\ Cardinality(Active \X (1 .. MAXOPBLOCKS)) = Cardinality(Active) * MAXOPBLOCKS

LEMMA TokenFacts == TypeOK => TokensCounted
<1>. SUFFICES ASSUME TypeOK PROVE TokensCounted
  OBVIOUS
<1>1. IsFiniteSet(1 .. MAXOPBLOCKS) /\ Cardinality(1 .. MAXOPBLOCKS) = MAXOPBLOCKS
  BY ConstantFacts, FS_Interval
<1>2. /\ IsFiniteSet(Active \X (1 .. MAXOPBLOCKS))
      /\ Cardinality(Active \X (1 .. MAXOPBLOCKS)) = Cardinality(Active) * MAXOPBLOCKS
  BY <1>1, ActiveFacts, FS_Product
<1>3. Tokens \subseteq Active \X (1 .. MAXOPBLOCKS)
  BY DEF Tokens
<1>. QED
  BY <1>2, <1>3, FS_Subset, FS_CardinalityType DEF TokensCounted

LEMMA TokenFactsNext == TypeOK' => TokensCounted'
BY TokenFacts, PTL

\* While a call is in progress the header has room for one block more: if it
\* is the only one, it left a block of the log to the header; otherwise each
\* call keeps a token, for no call uses its reservation up.
LEMMA LogWriteFits ==
  ASSUME IInv, NEW p \in Active
  PROVE  Len(lh) < SIZE - 1 /\ outstanding >= 1
<1>. USE ConstantFacts DEF IInv
<1>1. p \in Proc /\ TypeOK /\ Len(lh) \in Nat
  BY DEF Active, TypeOK
<1>2. outstanding \in Nat /\ outstanding >= 1
  BY <1>1, ActiveFacts DEF CommitInv, TypeOK
<1>3. \A q \in Active : <<q, MAXOPBLOCKS>> \in Tokens
  <2>. SUFFICES ASSUME NEW q \in Active PROVE <<q, MAXOPBLOCKS>> \in Tokens
    OBVIOUS
  <2>1. IsFiniteSet(wrote[q]) /\ Cardinality(wrote[q]) <= OpBlocks
    BY DEF SpaceInv, Active
  <2>2. Cardinality(wrote[q]) \in Nat
    BY <2>1, FS_CardinalityType
  <2>3. MAXOPBLOCKS > Cardinality(wrote[q]) /\ MAXOPBLOCKS \in 1 .. MAXOPBLOCKS
    BY <2>1, <2>2
  <2>. QED
    BY <2>3 DEF Tokens
<1>4. IsFiniteSet(Tokens) /\ Cardinality(Tokens) \in Nat
  BY <1>1, TokenFacts DEF TokensCounted
<1>5. CASE outstanding = 1
  <2>1. Cardinality(Tokens) # 0
    BY <1>3, <1>4, FS_EmptySet
  <2>. QED
    BY <1>1, <1>4, <1>5, <2>1 DEF SpaceInv
<1>6. CASE outstanding > 1
  <2>1. PICK q \in Active : q # p
    <3>. SUFFICES ASSUME Active = {p} PROVE FALSE
      OBVIOUS
    <3>1. Cardinality({p}) = 1
      BY FS_Singleton
    <3>. QED
      BY <1>6, <3>1 DEF CommitInv
  <2>2. Cardinality(Tokens) >= 2
    <3>1. Cardinality(Tokens \ {<<p, MAXOPBLOCKS>>}) = Cardinality(Tokens) - 1
          /\ IsFiniteSet(Tokens \ {<<p, MAXOPBLOCKS>>})
      BY <1>3, <1>4, FS_RemoveElement
    <3>2. <<q, MAXOPBLOCKS>> \in Tokens \ {<<p, MAXOPBLOCKS>>}
      BY <1>3, <2>1
    <3>3. Cardinality(Tokens) - 1 # 0
      BY <3>1, <3>2, FS_EmptySet
    <3>4. Cardinality(Tokens) # 0
      BY <1>3, <1>4, FS_EmptySet
    <3>. QED
      BY <1>4, <3>3, <3>4
  <2>. QED
    <3>1. Len(lh) + Cardinality(Tokens) <= LOGSIZE
      BY <1>6 DEF SpaceInv
    <3>. QED
      BY <1>1, <1>2, <1>4, <2>2, <3>1
<1>. QED
  BY <1>2, <1>5, <1>6

LEMMA NoLogWritePanic ==
  ASSUME IInv, NEW p \in Proc, pc[p] = "op"
  PROVE  ~LogWritePanics
<1>1. p \in Active
  BY DEF Active
<1>2. Len(lh) < SIZE - 1 /\ outstanding >= 1
  BY <1>1, LogWriteFits
<1>3. Len(lh) \in Nat /\ outstanding \in Nat
  BY DEF IInv, TypeOK
<1>. QED
  BY <1>2, <1>3, ConstantFacts DEF LogWritePanics

\* A buffer is locked by the one process that is to log it.
LEMMA PcStep ==
  IInv /\ [Next]_vars => PcInv'
<1>. SUFFICES ASSUME IInv, [Next]_vars PROVE PcInv'
  OBVIOUS
<1>a. IsFiniteSet(Active) /\ Cardinality(Active) \in Nat /\ (Cardinality(Active) = 0 <=> Active = {})
  BY ActiveFacts DEF IInv
<1>b. \A p \in Proc : pc[p] = "op" => ~LogWritePanics
  BY NoLogWritePanic
<1>. USE ConstantFacts DEF TypeOK, IInv, PcInv, diskVars, logVars, procVars, Phase
<1>1. CASE UNCHANGED vars
  BY <1>1 DEF vars
<1>2. ASSUME NEW p \in Proc, BeginSleep(p) PROVE PcInv'
  <2>1. committing \/ Len(lh) + (outstanding + 1) * MAXOPBLOCKS > LOGSIZE
    BY <1>2 DEF BeginSleep, MustWait
  <2>2. ~committing => outstanding > 0
    <3>. SUFFICES ASSUME ~committing, outstanding = 0 PROVE FALSE
      OBVIOUS
    <3>1. Active = {} /\ phase = "run"
      BY <1>2, <1>a DEF CommitInv, BeginSleep, InBegin
    <3>2. lh = <<>>
      BY <3>1 DEF CommitInv
    <3>. QED
      BY <2>1, <3>2
  <2>. QED
    BY <1>2, <2>2 DEF BeginSleep, InBegin
<1>3. ASSUME NEW p \in Proc, BeginOp(p) PROVE PcInv'
  BY <1>3 DEF BeginOp, InBegin
<1>4. ASSUME NEW p \in Proc, LogWrite(p) PROVE PcInv'
  BY <1>4 DEF LogWrite
<1>5. ASSUME NEW p \in Proc, EndOp(p) PROVE PcInv'
  <2>1. p \in Active /\ ~committing
    BY <1>5 DEF EndOp, Active, CommitInv
  <2>. QED
    BY <1>5, <2>1 DEF EndOp, Woken
<1>6. ASSUME NEW p \in Proc, EndLastOp(p) PROVE PcInv'
  BY <1>6 DEF EndLastOp
<1>7. ASSUME NEW p \in Proc, NEW b \in Block, NEW v \in Val, Modify(p, b, v)
      PROVE  PcInv'
  <2>1. ~LogWritePanics
    BY <1>7, <1>b DEF Modify
  <2>. QED
    BY <1>7, <2>1 DEF Modify, Locked
<1>8. ASSUME NEW b \in Block, Load(b) PROVE PcInv'
  BY <1>8 DEF Load
<1>9. ASSUME NEW b \in Block, Evict(b) PROVE PcInv'
  BY <1>9 DEF Evict
<1>10. CASE WriteLog
  BY <1>10 DEF WriteLog
<1>11. CASE WriteHead
  BY <1>11 DEF WriteHead
<1>12. CASE Install
  BY <1>12 DEF Install
<1>13. CASE ClearHead
  BY <1>13 DEF ClearHead, AfterInstall
<1>14. CASE EndCommit
  BY <1>14 DEF EndCommit, Woken
<1>15. CASE ReadHead
  BY <1>15 DEF ReadHead
<1>16. CASE Crash
  BY <1>16 DEF Crash
<1>. QED
  BY <1>1, <1>2, <1>3, <1>4, <1>5, <1>6, <1>7, <1>8, <1>9, <1>10, <1>11, <1>12,
     <1>13, <1>14, <1>15, <1>16 DEF Next, Begin, End, Commit

LEMMA CommitStep ==
  IInv /\ [Next]_vars => CommitInv'
<1>. SUFFICES ASSUME IInv, [Next]_vars PROVE CommitInv'
  OBVIOUS
<1>a. IsFiniteSet(Active) /\ Cardinality(Active) \in Nat /\ (Cardinality(Active) = 0 <=> Active = {})
  BY ActiveFacts DEF IInv
<1>b. \A p \in Proc : pc[p] = "op" => ~LogWritePanics
  BY NoLogWritePanic
<1>. USE ConstantFacts DEF TypeOK, IInv, CommitInv, diskVars, logVars, procVars, Phase
<1>1. CASE UNCHANGED vars
  BY <1>1 DEF vars, Active
<1>2. ASSUME NEW p \in Proc, BeginSleep(p) PROVE CommitInv'
  <2>1. Active' = Active
    BY <1>2 DEF BeginSleep, InBegin, Active
  <2>. QED
    BY <1>2, <2>1 DEF BeginSleep
<1>3. ASSUME NEW p \in Proc, BeginOp(p) PROVE CommitInv'
  <2>1. Active' = Active \cup {p} /\ p \notin Active
    BY <1>3 DEF BeginOp, InBegin, Active
  <2>2. Cardinality(Active') = outstanding + 1
    BY <2>1, <1>a, FS_AddElement
  <2>3. phase = "run"
    BY <1>3 DEF BeginOp, MustWait, InBegin, PcInv
  <2>. QED
    BY <1>3, <2>1, <2>2, <2>3 DEF BeginOp, MustWait
<1>4. ASSUME NEW p \in Proc, LogWrite(p) PROVE CommitInv'
  <2>1. Active' = Active /\ p \in Active
    BY <1>4 DEF LogWrite, Active
  <2>. QED
    BY <1>4, <2>1 DEF LogWrite
<1>5. ASSUME NEW p \in Proc, EndOp(p) PROVE CommitInv'
  <2>1. p \in Active /\ ~committing
    BY <1>5 DEF EndOp, Active
  <2>2. Active' = Active \ {p}
    BY <1>5, <2>1 DEF EndOp, Active, Woken
  <2>3. Cardinality(Active') = outstanding - 1
    BY <2>1, <2>2, <1>a, FS_RemoveElement
  <2>4. outstanding \in Nat /\ outstanding > 1
    BY <1>5, <2>1, <1>a DEF EndOp
  <2>5. Cardinality(Active') # 0
    BY <2>3, <2>4
  <2>6. Active' # {}
    BY <2>5, FS_EmptySet
  <2>. QED
    BY <1>5, <2>1, <2>3, <2>6 DEF EndOp
<1>6. ASSUME NEW p \in Proc, EndLastOp(p) PROVE CommitInv'
  <2>1. p \in Active /\ phase = "run"
    BY <1>6 DEF EndLastOp, Active
  <2>2. Active' = Active \ {p}
    BY <1>6 DEF EndLastOp, Active
  <2>3. Cardinality(Active') = 0 /\ IsFiniteSet(Active')
    <3>1. IsFiniteSet(Active) /\ Cardinality(Active) = 1
      BY <1>6, <1>a DEF EndLastOp
    <3>2. /\ IsFiniteSet(Active \ {p})
          /\ Cardinality(Active \ {p}) = Cardinality(Active) - 1
      BY <2>1, <3>1, FS_RemoveElement
    <3>. QED
      BY <2>2, <3>1, <3>2
  <2>4. Active' = {}
    BY <2>3, FS_EmptySet
  <2>. QED
    BY <1>6, <2>1, <2>3, <2>4 DEF EndLastOp
<1>7. ASSUME NEW p \in Proc, NEW b \in Block, NEW v \in Val, Modify(p, b, v)
      PROVE  CommitInv'
  <2>1. ~LogWritePanics
    BY <1>7, <1>b DEF Modify
  <2>2. Active' = Active
    BY <1>7, <2>1 DEF Modify, Active
  <2>. QED
    BY <1>7, <2>2 DEF Modify
<1>8. ASSUME NEW b \in Block, Load(b) PROVE CommitInv'
  BY <1>8 DEF Load, Active
<1>9. ASSUME NEW b \in Block, Evict(b) PROVE CommitInv'
  BY <1>9 DEF Evict, Active
<1>10. CASE WriteLog
  BY <1>10 DEF WriteLog, Active
<1>11. CASE WriteHead
  BY <1>11 DEF WriteHead, Active
<1>12. CASE Install
  BY <1>12 DEF Install, Active
<1>13. CASE ClearHead
  BY <1>13 DEF ClearHead, AfterInstall, Active
<1>14. CASE EndCommit
  <2>1. Active' = Active
    BY <1>14 DEF EndCommit, Active, Woken
  <2>. QED
    BY <1>14, <2>1 DEF EndCommit
<1>15. CASE ReadHead
  BY <1>15 DEF ReadHead, Active
<1>16. CASE Crash
  <2>1. Active' = {}
    BY <1>16 DEF Crash, Active
  <2>. QED
    BY <1>16, <2>1, FS_EmptySet DEF Crash
<1>. QED
  BY <1>1, <1>2, <1>3, <1>4, <1>5, <1>6, <1>7, <1>8, <1>9, <1>10, <1>11, <1>12,
     <1>13, <1>14, <1>15, <1>16 DEF Next, Begin, End, Commit

-----------------------------------------------------------------------------
(* The reservation.                                                        *)

\* What the steps that make no call do: nothing to the tokens.
LEMMA TokensKept ==
  ASSUME Active' = Active, wrote' = wrote
  PROVE  Tokens' = Tokens
BY DEF Tokens

LEMMA SpaceStep ==
  ASSUME Copier = {}
  PROVE  IInv /\ [Next]_vars => SpaceInv'
<1>. SUFFICES ASSUME IInv, [Next]_vars PROVE SpaceInv'
  OBVIOUS
<1>b. \A p \in Active : Len(lh) < SIZE - 1 /\ outstanding >= 1
  BY LogWriteFits
<1>n. \A p \in Proc : pc[p] = "op" => ~LogWritePanics
  BY NoLogWritePanic
<1>c. CommitInv' /\ TypeOK'
  BY TypeStep, CommitStep
<1>d. IsFiniteSet(Active) /\ Cardinality(Active) \in Nat /\ (Cardinality(Active) = 0 <=> Active = {})
  BY ActiveFacts DEF IInv
<1>a. IsFiniteSet(Tokens) /\ Cardinality(Tokens) \in Nat
  BY TokenFacts DEF IInv, TokensCounted
<1>e. /\ IsFiniteSet(Tokens') /\ Cardinality(Tokens') \in Nat
      /\ IsFiniteSet(Active' \X (1 .. MAXOPBLOCKS))
      /\ Cardinality(Active' \X (1 .. MAXOPBLOCKS)) = Cardinality(Active') * MAXOPBLOCKS
  BY <1>c, TokenFactsNext DEF TokensCounted
<1>. USE ConstantFacts DEF IInv, SpaceInv
<1>t. TypeOK /\ Len(lh) \in Nat /\ Len(head) \in Nat
  BY DEF TypeOK
<1>1. CASE UNCHANGED vars
  BY <1>1, TokensKept DEF vars, logVars, diskVars, procVars, Active
<1>2. ASSUME NEW p \in Proc, BeginSleep(p) PROVE SpaceInv'
  <2>1. Active' = Active
    BY <1>2 DEF BeginSleep, InBegin, Active, TypeOK
  <2>. QED
    BY <1>2, <2>1, TokensKept DEF BeginSleep, TypeOK, logVars, diskVars
<1>3. ASSUME NEW p \in Proc, BeginOp(p) PROVE SpaceInv'
  <2>1. Active' = Active \cup {p} /\ p \notin Active
    BY <1>3 DEF BeginOp, InBegin, Active, TypeOK
  <2>3. Cardinality(Tokens') <= (outstanding + 1) * MAXOPBLOCKS /\ Cardinality(Tokens') \in Nat
    <3>1. /\ IsFiniteSet(Active' \X (1 .. MAXOPBLOCKS))
          /\ Cardinality(Active' \X (1 .. MAXOPBLOCKS)) = outstanding' * MAXOPBLOCKS
          /\ Cardinality(Tokens') \in Nat
      BY <1>c, <1>e DEF CommitInv
    <3>2. Tokens' \subseteq Active' \X (1 .. MAXOPBLOCKS)
      BY DEF Tokens
    <3>. QED
      BY <1>3, <3>1, <3>2, FS_Subset DEF BeginOp
  <2>4. (outstanding + 1) * MAXOPBLOCKS \in Nat /\ outstanding \in Nat
    BY DEF TypeOK
  <2>5. Len(lh) + (outstanding + 1) * MAXOPBLOCKS <= LOGSIZE
    BY <1>3, <1>t, <2>4 DEF BeginOp, MustWait
  <2>6. outstanding' = 1 => Len(lh') + Cardinality(Tokens') <= LOGSIZE - 1
    <3>. SUFFICES ASSUME outstanding' = 1 PROVE Len(lh') + Cardinality(Tokens') <= LOGSIZE - 1
      OBVIOUS
    <3>1. outstanding = 0
      BY <1>3, <2>4 DEF BeginOp
    <3>e. Active = {}
      BY <3>1, <1>d DEF CommitInv
    <3>2. phase = "run"
      BY <1>3 DEF BeginOp, InBegin, MustWait, CommitInv, PcInv, TypeOK, Phase
    <3>3. Len(lh) = 0 /\ lh' = lh
      BY <1>3, <3>e, <3>2 DEF CommitInv, BeginOp
    <3>4. (outstanding + 1) * MAXOPBLOCKS = MAXOPBLOCKS
      BY <3>1
    <3>. QED
      BY <2>3, <3>3, <3>4
  <2>7. outstanding' > 1 => Len(lh') + Cardinality(Tokens') <= LOGSIZE
    BY <1>3, <1>t, <2>3, <2>4, <2>5 DEF BeginOp
  <2>8. wrote[p] = {}
    BY <2>1
  <2>9. \A q \in Proc : pc'[q] = "write" => pc[q] = "write"
    BY <1>3 DEF BeginOp, TypeOK
  <2>. QED
    BY <1>3, <2>1, <2>6, <2>7, <2>8, <2>9 DEF BeginOp, TypeOK, diskVars
<1>4. ASSUME NEW p \in Proc, LogWrite(p) PROVE SpaceInv'
  <2>1. Active' = Active /\ p \in Active /\ buf[p] \in Block /\ outstanding' = outstanding
    BY <1>4 DEF LogWrite, Active, TypeOK, PcInv
  <2>2. Len(lh) < SIZE - 1 /\ outstanding >= 1 /\ outstanding \in Nat
    BY <2>1, <1>b DEF TypeOK
  <2>3. /\ Logged(lh') = Logged(lh) \cup {buf[p]}
        /\ Len(lh') = IF buf[p] \in Logged(lh) THEN Len(lh) ELSE Len(lh) + 1
    BY <1>4, <2>1, AbsorbedFacts DEF LogWrite, TypeOK
  <2>4. wrote' = [wrote EXCEPT ![p] = wrote[p] \cup {buf[p]}] /\ wrote \in [Proc -> SUBSET Block]
    BY <1>4 DEF LogWrite, TypeOK
  <2>5. IsFiniteSet(wrote'[p]) /\ Cardinality(wrote'[p]) <= OpBlocks
    <3>1. wrote'[p] = wrote[p] \cup {buf[p]}
      BY <2>4
    <3>2. IsFiniteSet(wrote[p] \cup {buf[p]})
      BY FS_AddElement
    <3>. QED
      BY <1>4, <3>1, <3>2 DEF LogWrite
  <2>6. Len(lh') + Cardinality(Tokens') <= Len(lh) + Cardinality(Tokens) /\ Cardinality(Tokens') \in Nat
    <3>1. CASE buf[p] \in wrote[p]
      <4>1. wrote' = wrote
        BY <2>4, <3>1
      <4>2. Tokens' = Tokens
        BY <2>1, <4>1, TokensKept
      <4>3. Len(lh') = Len(lh)
        BY <2>1, <2>3, <3>1
      <4>. QED
        BY <1>t, <1>a, <4>2, <4>3
    <3>2. CASE buf[p] \notin wrote[p]
      <4>. DEFINE t == <<p, Cardinality(wrote[p]) + 1>>
      <4>1. IsFiniteSet(wrote[p]) /\ Cardinality(wrote[p]) \in Nat
        BY FS_CardinalityType
      <4>2. wrote'[p] = wrote[p] \cup {buf[p]} /\ \A q \in Proc \ {p} : wrote'[q] = wrote[q]
        BY <2>4
      <4>3. Cardinality(wrote'[p]) = Cardinality(wrote[p]) + 1
        BY <3>2, <4>1, <4>2, FS_AddElement
      <4>4. t \in Tokens
        <5>1. Cardinality(wrote[p]) + 1 \in 1 .. MAXOPBLOCKS
          BY <2>5, <4>1, <4>3
        <5>. QED
          BY <2>1, <4>1, <5>1 DEF Tokens
      <4>5. Tokens' \subseteq Tokens \ {t}
        <5>. SUFFICES ASSUME NEW q \in Active, NEW n \in 1 .. MAXOPBLOCKS,
                             n > Cardinality(wrote'[q])
                      PROVE  n > Cardinality(wrote[q]) /\ <<q, n>> # t
          BY <2>1 DEF Tokens
        <5>1. CASE q = p
          BY <4>1, <4>3, <5>1
        <5>2. CASE q # p
          BY <4>2, <5>2 DEF Active
        <5>. QED
          BY <5>1, <5>2
      <4>6. IsFiniteSet(Tokens \ {t}) /\ Cardinality(Tokens \ {t}) = Cardinality(Tokens) - 1
        BY <1>a, <4>4, FS_RemoveElement
      <4>7. Cardinality(Tokens') <= Cardinality(Tokens) - 1 /\ Cardinality(Tokens') \in Nat
        BY <4>5, <4>6, FS_Subset, FS_CardinalityType
      <4>8. Len(lh') <= Len(lh) + 1 /\ Len(lh') \in Nat
        BY <1>t, <2>3
      <4>. QED
        BY <1>t, <1>a, <4>7, <4>8
    <3>. QED
      BY <3>1, <3>2
  <2>7. Len(lh') <= SIZE - 1 /\ Len(lh') \in Nat
    BY <1>t, <2>2, <2>3
  <2>8. \A q \in Active : wrote'[q] \subseteq Logged(lh')
    BY <2>1, <2>3, <2>4 DEF Active
  <2>9. \A q \in Proc : q # p => wrote'[q] = wrote[q] /\ buf'[q] = buf[q] /\ pc'[q] = pc[q]
    BY <1>4, <2>4 DEF LogWrite, TypeOK
  <2>10. \A q \in Proc : IsFiniteSet(wrote'[q]) /\ Cardinality(wrote'[q]) <= OpBlocks
    BY <2>5, <2>9
  <2>11. \A q \in Proc : pc'[q] = "write" => Cardinality(wrote'[q] \cup {buf'[q]}) <= OpBlocks
    BY <1>4, <2>9 DEF LogWrite, TypeOK
  <2>12. \A q \in Proc \ Active : wrote'[q] = {}
    BY <2>1, <2>9
  <2>13. /\ outstanding' = 1 => Len(lh') + Cardinality(Tokens') <= LOGSIZE - 1
         /\ outstanding' > 1 => Len(lh') + Cardinality(Tokens') <= LOGSIZE
    BY <1>t, <1>a, <2>1, <2>2, <2>6, <2>7
  <2>. QED
    BY <1>4, <2>1, <2>7, <2>8, <2>10, <2>11, <2>12, <2>13 DEF LogWrite, diskVars
<1>5. ASSUME NEW p \in Proc, EndOp(p) PROVE SpaceInv'
  <2>1. p \in Active /\ ~committing
    BY <1>5 DEF EndOp, Active, CommitInv
  <2>2. Active' = Active \ {p}
    BY <1>5, <2>1 DEF EndOp, Active, Woken, TypeOK
  <2>3. /\ \A q \in Active' : wrote'[q] = wrote[q] /\ q \in Active
        /\ \A q \in Proc \ Active' : wrote'[q] = {}
        /\ \A q \in Proc : wrote'[q] = wrote[q] \/ wrote'[q] = {}
        /\ \A q \in Proc : pc'[q] = "write" => pc[q] = "write" /\ wrote'[q] = wrote[q]
    BY <1>5, <2>1, <2>2 DEF EndOp, Active, Woken, TypeOK
  <2>4. <<p, MAXOPBLOCKS>> \in Tokens
    <3>1. Cardinality(wrote[p]) \in Nat /\ MAXOPBLOCKS > Cardinality(wrote[p])
      BY FS_CardinalityType
    <3>. QED
      BY <2>1, <3>1 DEF Tokens
  <2>5. Tokens' \subseteq Tokens \ {<<p, MAXOPBLOCKS>>}
    BY <2>2, <2>3 DEF Tokens
  <2>6. Cardinality(Tokens') <= Cardinality(Tokens) - 1 /\ Cardinality(Tokens') \in Nat
    BY <1>a, <2>4, <2>5, FS_RemoveElement, FS_Subset, FS_CardinalityType
  <2>7. outstanding \in Nat /\ outstanding > 1 /\ outstanding' = outstanding - 1
    BY <1>5, <1>t, <2>1, <1>d DEF EndOp, CommitInv
  <2>8. IsFiniteSet({}) /\ Cardinality({}) <= OpBlocks
    BY FS_EmptySet
  <2>9. /\ outstanding' = 1 => Len(lh') + Cardinality(Tokens') <= LOGSIZE - 1
        /\ outstanding' > 1 => Len(lh') + Cardinality(Tokens') <= LOGSIZE
    BY <1>5, <1>t, <1>a, <2>6, <2>7 DEF EndOp
  <2>10. lh' = lh /\ head' = head /\ buf' = buf
    BY <1>5 DEF EndOp, diskVars
  <2>. QED
    BY <2>3, <2>8, <2>9, <2>10
<1>6. ASSUME NEW p \in Proc, EndLastOp(p) PROVE SpaceInv'
  <2>1. p \in Active
    BY <1>6 DEF EndLastOp, Active
  <2>2. Active' = Active \ {p}
    BY <1>6 DEF EndLastOp, Active, TypeOK
  <2>3. /\ \A q \in Active' : wrote'[q] = wrote[q] /\ q \in Active
        /\ \A q \in Proc \ Active' : wrote'[q] = {}
        /\ \A q \in Proc : wrote'[q] = wrote[q] \/ wrote'[q] = {}
        /\ \A q \in Proc : pc'[q] = "write" => pc[q] = "write" /\ wrote'[q] = wrote[q]
    BY <1>6, <2>1, <2>2 DEF EndLastOp, Active, TypeOK
  <2>4. IsFiniteSet({}) /\ Cardinality({}) <= OpBlocks
    BY FS_EmptySet
  <2>. QED
    BY <1>6, <2>3, <2>4 DEF EndLastOp, diskVars
<1>7. ASSUME NEW p \in Proc, NEW b \in Block, NEW v \in Val, Modify(p, b, v)
      PROVE  SpaceInv'
  <2>1. ~LogWritePanics
    BY <1>7, <1>n DEF Modify
  <2>2. Active' = Active
    BY <1>7, <2>1 DEF Modify, Active, TypeOK
  <2>3. Cardinality(wrote[p] \cup {b}) <= OpBlocks
    BY <1>7 DEF Modify, WithinOp
  <2>4. \A q \in Proc : pc'[q] = "write" => Cardinality(wrote[q] \cup {buf'[q]}) <= OpBlocks
    BY <1>7, <2>1, <2>3 DEF Modify, TypeOK
  <2>. QED
    BY <1>7, <2>2, <2>4, TokensKept DEF Modify, logVars, diskVars
<1>8. ASSUME NEW b \in Block, Load(b) PROVE SpaceInv'
  BY <1>8, TokensKept DEF Load, logVars, diskVars, procVars, Active
<1>9. ASSUME NEW b \in Block, Evict(b) PROVE SpaceInv'
  BY <1>9, TokensKept DEF Evict, logVars, diskVars, procVars, Active
<1>10. CASE WriteLog
  BY <1>10, TokensKept DEF WriteLog, logVars, procVars, Active
<1>11. CASE WriteHead
  BY <1>11, TokensKept DEF WriteHead, logVars, procVars, Active
<1>12. CASE Install
  BY <1>12, TokensKept DEF Install, logVars, procVars, Active
<1>13. CASE ClearHead
  <2>1. Active' = Active /\ wrote' = wrote /\ outstanding' = outstanding
    BY <1>13 DEF ClearHead, procVars, Active
  <2>2. Active = {} /\ outstanding = 0
    BY <1>13, <1>d DEF ClearHead, CommitInv
  <2>3. Len(lh') = 0 /\ Len(head') = 0
    BY <1>13 DEF ClearHead
  <2>. QED
    BY <1>13, <2>1, <2>2, <2>3 DEF ClearHead, procVars, Active
<1>14. CASE EndCommit
  <2>1. Active' = Active
    BY <1>14 DEF EndCommit, Active, Woken, TypeOK
  <2>2. \A q \in Proc : pc'[q] = "write" => pc[q] = "write"
    BY <1>14 DEF EndCommit, Woken
  <2>. QED
    BY <1>14, <2>1, <2>2, TokensKept DEF EndCommit, diskVars
<1>15. CASE ReadHead
  <2>1. Active' = Active /\ wrote' = wrote /\ outstanding' = outstanding
    BY <1>15 DEF ReadHead, procVars, Active
  <2>2. Active = {} /\ outstanding = 0
    BY <1>15, <1>d DEF ReadHead, CommitInv
  <2>. QED
    BY <1>15, <2>1, <2>2 DEF ReadHead, procVars, diskVars, Active
<1>16. CASE Crash
  <2>1. Active' = {} /\ \A q \in Proc : wrote'[q] = {} /\ pc'[q] # "write"
    BY <1>16 DEF Crash, Active
  <2>2. IsFiniteSet({}) /\ Cardinality({}) <= OpBlocks
    BY FS_EmptySet
  <2>. QED
    BY <1>16, <1>t, <2>1, <2>2 DEF Crash, diskVars
<1>. QED
  BY <1>1, <1>2, <1>3, <1>4, <1>5, <1>6, <1>7, <1>8, <1>9, <1>10, <1>11, <1>12,
     <1>13, <1>14, <1>15, <1>16 DEF Next, Begin, End, Commit

-----------------------------------------------------------------------------
(* The data.                                                               *)

LEMMA LockedFacts ==
  ASSUME IInv
  PROVE  /\ \A b : b \in Locked <=> b # None /\ \E p \in Proc : buf[p] = b
         /\ phase # "run" => Locked = {}
<1>1. \A b : b \in Locked <=> b # None /\ \E p \in Proc : buf[p] = b
  BY DEF Locked
<1>2. ASSUME phase # "run" PROVE Locked = {}
  <2>1. \A p \in Proc : pc[p] # "write"
    BY <1>2 DEF IInv, CommitInv, Active
  <2>. QED
    BY <1>1, <2>1 DEF IInv, PcInv
<1>. QED
  BY <1>1, <1>2

\* Steps that touch neither the disk nor the cache nor the log.
LEMMA DataKept ==
  ASSUME IInv, UNCHANGED <<home, slots, cache, dirty, lh, buf, phase, tail>>
  PROVE  DataInv'
BY DEF IInv, DataInv, PinnedUntilInstalled, Locked, Contents

LEMMA DataStep ==
  IInv /\ [Next]_vars => DataInv'
<1>. SUFFICES ASSUME IInv, [Next]_vars PROVE DataInv'
  OBVIOUS
<1>k. UNCHANGED <<home, slots, cache, dirty, lh, buf, phase, tail>> => DataInv'
  BY DataKept
<1>l. /\ \A b : b \in Locked <=> b # None /\ \E p \in Proc : buf[p] = b
      /\ phase # "run" => Locked = {}
  BY LockedFacts
<1>t. /\ home \in [Block -> Val] /\ slots \in [Slot -> Val]
      /\ cache \in [Block -> Val \cup {None}] /\ dirty \subseteq Block
      /\ lh \in Seq(Block) /\ Distinct(lh) /\ tail \in Nat
      /\ buf \in [Proc -> Block \cup {None}]
  BY DEF IInv, TypeOK
<1>p. /\ \A p \in Proc : buf[p] # None <=> pc[p] = "write"
      /\ \A p, q \in Proc : buf[p] # None /\ buf[p] = buf[q] => p = q
  BY DEF IInv, PcInv
<1>r. \A p \in Proc : pc[p] \in {"op", "write"} => phase = "run"
  BY DEF IInv, CommitInv, Active
<1>h. phase \in {"run", "log", "end"} \/ phase \in {"install", "recover", "boot"}
  BY DEF IInv, TypeOK, Phase
<1>d. DataInv
  BY DEF IInv
<1>. USE ConstantFacts
<1>1. CASE UNCHANGED vars
  BY <1>1, <1>k DEF vars, diskVars, logVars, procVars
<1>2. ASSUME NEW p \in Proc, BeginSleep(p) PROVE DataInv'
  BY <1>2, <1>k DEF BeginSleep, diskVars, logVars
<1>3. ASSUME NEW p \in Proc, BeginOp(p) PROVE DataInv'
  BY <1>3, <1>k DEF BeginOp, diskVars
<1>4. ASSUME NEW p \in Proc, LogWrite(p) PROVE DataInv'
  <2>1. buf[p] \in Block /\ phase = "run"
    BY <1>4, <1>t, <1>p, <1>r DEF LogWrite
  <2>2. Logged(lh') = Logged(lh) \cup {buf[p]}
    BY <1>4, <1>t, <2>1, AbsorbedFacts DEF LogWrite
  <2>3. buf' = [buf EXCEPT ![p] = None] /\ dirty' = dirty \cup {buf[p]}
        /\ UNCHANGED <<home, slots, head, cache, phase, tail>>
    BY <1>4 DEF LogWrite, diskVars
  <2>4. \A b : b \in Locked => b \in Locked' \/ b = buf[p]
    BY <1>l, <1>t, <2>3 DEF Locked
  <2>5. \A b : b \in Locked' => b \in Locked
    BY <1>l, <1>t, <2>3 DEF Locked
  <2>6. buf[p] \in Locked
    BY <1>l, <2>1
  <2>. QED
    BY <1>d, <2>1, <2>2, <2>3, <2>4, <2>5, <2>6 DEF DataInv, PinnedUntilInstalled, Contents
<1>5. ASSUME NEW p \in Proc, EndOp(p) PROVE DataInv'
  BY <1>5, <1>k DEF EndOp, diskVars
<1>6. ASSUME NEW p \in Proc, EndLastOp(p) PROVE DataInv'
  <2>1. UNCHANGED <<home, slots, cache, dirty, lh, buf>> /\ phase' \in {"log", "end"} /\ tail' = 1
    BY <1>6 DEF EndLastOp, diskVars
  <2>2. Locked' = Locked
    BY <2>1 DEF Locked
  <2>3. \A i \in DOMAIN lh : ~(i < 1)
    BY <1>t
  <2>. QED
    BY <1>d, <2>1, <2>2, <2>3 DEF DataInv, PinnedUntilInstalled, Contents
<1>7. ASSUME NEW p \in Proc, NEW b \in Block, NEW v \in Val, Modify(p, b, v)
      PROVE  DataInv'
  <2>1. phase = "run" /\ phase' = "run" /\ UNCHANGED <<home, slots, dirty, lh, tail>>
    BY <1>7, <1>r DEF Modify, diskVars, logVars
  <2>2. buf' = [buf EXCEPT ![p] = b] /\ cache' = [cache EXCEPT ![b] = v]
    BY <1>7 DEF Modify
  <2>3. \A x : x \in Locked' <=> x \in Locked \/ x = b
    <3>1. buf[p] = None
      BY <1>7, <1>p DEF Modify
    <3>. QED
      BY <1>l, <1>t, <2>2, <3>1 DEF Locked
  <2>. QED
    BY <1>d, <1>t, <2>1, <2>2, <2>3 DEF DataInv, PinnedUntilInstalled, Contents
<1>8. ASSUME NEW b \in Block, Load(b) PROVE DataInv'
  <2>1. /\ phase \notin {"boot", "recover"} /\ cache[b] = None
        /\ cache' = [cache EXCEPT ![b] = home[b]]
        /\ UNCHANGED <<home, slots, dirty, lh, phase, tail, buf>>
    BY <1>8 DEF Load, diskVars, logVars, procVars
  <2>2. \A x \in Block : Contents(x)' = Contents(x)
    BY <1>t, <2>1 DEF Contents
  <2>3. Locked' = Locked
    BY <2>1 DEF Locked
  <2>4. \A i \in DOMAIN lh : lh[i] \in Block
    BY <1>t
  <2>5. Locked \subseteq Block
    BY <1>l, <1>t
  <2>. QED
    BY <1>d, <1>t, <2>1, <2>2, <2>3, <2>4, <2>5 DEF DataInv, PinnedUntilInstalled
<1>9. ASSUME NEW b \in Block, Evict(b) PROVE DataInv'
  <2>1. /\ b \notin dirty /\ b \notin Locked
        /\ cache' = [cache EXCEPT ![b] = None]
        /\ UNCHANGED <<home, slots, dirty, lh, phase, tail, buf>>
    BY <1>9 DEF Evict, Evictable, diskVars, logVars, procVars
  <2>2. \A x \in Block : Contents(x)' = Contents(x)
    BY <1>d, <1>t, <2>1 DEF Contents, DataInv, PinnedUntilInstalled
  <2>3. Locked' = Locked
    BY <2>1 DEF Locked
  <2>4. \A i \in DOMAIN lh : lh[i] \in Block
    BY <1>t
  <2>5. Locked \subseteq Block
    BY <1>l, <1>t
  <2>. QED
    BY <1>d, <1>t, <2>1, <2>2, <2>3, <2>4, <2>5 DEF DataInv, PinnedUntilInstalled
<1>10. CASE WriteLog
  <2>1. /\ phase = "log" /\ phase' = "log" /\ tail' = tail + 1 /\ tail <= Len(lh)
        /\ slots' = [slots EXCEPT ![tail] = Contents(lh[tail])]
        /\ UNCHANGED <<home, cache, dirty, lh, buf>>
    BY <1>10 DEF WriteLog, logVars, procVars
  <2>2. Locked' = Locked /\ \A b \in Block : Contents(b)' = Contents(b)
    BY <2>1 DEF Locked, Contents
  <2>3. DOMAIN lh \subseteq Slot
    BY <1>t DEF IInv, SpaceInv, Slot
  <2>4. \A i \in DOMAIN lh : i < tail' => slots'[i] = Contents(lh[i])
    <3>. SUFFICES ASSUME NEW i \in DOMAIN lh, i < tail' PROVE slots'[i] = Contents(lh[i])
      OBVIOUS
    <3>1. CASE i = tail
      BY <1>t, <2>1, <2>3, <3>1
    <3>2. CASE i # tail
      <4>1. i < tail
        BY <1>t, <2>1, <3>2
      <4>. QED
        BY <1>d, <1>t, <2>1, <2>3, <3>2, <4>1 DEF DataInv
    <3>. QED
      BY <3>1, <3>2
  <2>5. \A i \in DOMAIN lh : lh[i] \in Block
    BY <1>t
  <2>6. tail' >= 1
    BY <1>t, <2>1
  <2>7. Locked \subseteq Block
    BY <1>l, <1>t
  <2>. QED
    BY <1>d, <2>1, <2>2, <2>4, <2>5, <2>6, <2>7 DEF DataInv, PinnedUntilInstalled
<1>11. CASE WriteHead
  <2>1. /\ phase = "log" /\ phase' = "install" /\ tail' = 1 /\ tail > Len(lh)
        /\ UNCHANGED <<home, slots, cache, dirty, lh, buf>>
    BY <1>11 DEF WriteHead, Done, logVars, procVars
  <2>2. Locked' = Locked
    BY <2>1 DEF Locked
  <2>3. \A i \in DOMAIN lh : i < tail /\ ~(i < 1) /\ i >= 1
    BY <1>t, <2>1
  <2>4. \A b \in dirty : \E i \in DOMAIN lh : lh[i] = b
    BY <1>d, <1>t DEF DataInv, PinnedUntilInstalled, Logged
  <2>. QED
    BY <1>d, <1>t, <2>1, <2>2, <2>3, <2>4 DEF DataInv, PinnedUntilInstalled, Contents
<1>12. CASE Install
  <2>0. PICK b \in Block : b = lh[tail]
    BY <1>12, <1>t, <1>d DEF Install, DataInv
  <2>1. /\ phase \in {"install", "recover"} /\ phase' = phase /\ tail' = tail + 1
        /\ tail \in DOMAIN lh
        /\ home' = [home EXCEPT ![b] = slots[tail]]
        /\ cache' = [cache EXCEPT ![b] = slots[tail]]
        /\ dirty' = dirty \ {b}
        /\ UNCHANGED <<slots, lh, buf>>
    BY <1>12, <1>t, <1>d, <2>0 DEF Install, logVars, procVars, DataInv
  <2>2. b \in Block /\ tail \in Slot /\ slots[tail] \in Val
    BY <1>t, <2>1 DEF IInv, SpaceInv, Slot
  <2>3. /\ home'[b] = slots[tail] /\ cache'[b] = slots[tail] /\ Contents(b)' = slots[tail]
        /\ \A x \in Block : x # b =>
             home'[x] = home[x] /\ cache'[x] = cache[x] /\ Contents(x)' = Contents(x)
    BY <1>t, <2>1, <2>2 DEF Contents
  <2>4. Locked = {} /\ Locked' = {}
    BY <1>l, <2>1 DEF Locked
  <2>5. \A i \in DOMAIN lh : lh[i] \in Block /\ (lh[i] = b => i = tail)
    BY <1>t, <2>0, <2>1 DEF Distinct
  <2>6. \A x \in Block : x \notin dirty' => Contents(x)' = home'[x]
    BY <1>d, <2>1, <2>3, <2>4 DEF DataInv, PinnedUntilInstalled
  <2>7. \A x \in dirty' : x \in Logged(lh') /\ cache'[x] # None
    BY <1>d, <1>t, <2>1, <2>3 DEF DataInv, PinnedUntilInstalled
  <2>8. phase' = "install" => \A i \in DOMAIN lh : slots[i] = Contents(lh[i])'
    BY <1>d, <2>1, <2>3, <2>5 DEF DataInv
  <2>9. \A i \in DOMAIN lh : i < tail + 1 => home'[lh[i]] = slots[i]
    <3>. SUFFICES ASSUME NEW i \in DOMAIN lh, i < tail + 1 PROVE home'[lh[i]] = slots[i]
      OBVIOUS
    <3>1. CASE i = tail
      BY <2>0, <2>3, <3>1
    <3>2. CASE i # tail
      <4>1. i < tail
        BY <1>t, <3>2
      <4>. QED
        BY <1>d, <2>1, <2>3, <2>5, <3>2, <4>1 DEF DataInv
    <3>. QED
      BY <3>1, <3>2
  <2>10. \A x \in dirty' : \E i \in DOMAIN lh : i >= tail + 1 /\ lh[i] = x
    <3>. SUFFICES ASSUME NEW x \in dirty' PROVE \E i \in DOMAIN lh : i >= tail + 1 /\ lh[i] = x
      OBVIOUS
    <3>1. PICK i \in DOMAIN lh : i >= tail /\ lh[i] = x
      BY <1>d, <2>1 DEF DataInv
    <3>2. i # tail
      BY <2>0, <2>1, <3>1
    <3>3. i \in Nat
      BY <1>t
    <3>. QED
      BY <1>t, <3>1, <3>2, <3>3
  <2>11. tail' >= 1
    BY <1>t, <2>1
  <2>12. phase' \in {"boot", "recover"} => dirty' = {}
    BY <1>d, <2>1 DEF DataInv
  <2>13. \A x \in Block : /\ x \notin dirty' \cup Locked' => Contents(x)' = home'[x]
                          /\ x \in dirty' => x \in Logged(lh') /\ cache'[x] # None
    BY <2>6, <2>7
  <2>14. PinnedUntilInstalled'
    BY <2>13 DEF PinnedUntilInstalled
  <2>15. DOMAIN lh' = DOMAIN lh /\ lh' = lh /\ slots' = slots
    BY <2>1
  <2>16. phase' = "install" => \A i \in DOMAIN lh' : slots'[i] = Contents(lh[i])'
    BY <2>8, <2>15
  <2>. QED
    BY <2>1, <2>4, <2>8, <2>9, <2>10, <2>11, <2>12, <2>14, <2>15, <2>16 DEF DataInv
<1>13. CASE ClearHead
  <2>1. /\ phase \in {"install", "recover"} /\ phase' \in {"end", "run"}
        /\ tail > Len(lh) /\ lh' = <<>> /\ UNCHANGED <<home, slots, cache, dirty, buf, tail>>
    BY <1>13 DEF ClearHead, AfterInstall, Done, procVars
  <2>2. dirty = {}
    <3>1. \A i \in DOMAIN lh : ~(i >= tail)
      BY <1>t, <2>1
    <3>. QED
      BY <1>d, <2>1, <3>1 DEF DataInv
  <2>3. Locked = {} /\ Locked' = {}
    BY <1>l, <2>1 DEF Locked
  <2>. QED
    BY <1>d, <2>1, <2>2, <2>3 DEF DataInv, PinnedUntilInstalled, Contents
<1>14. CASE EndCommit
  <2>1. phase = "end" /\ phase' = "run" /\ UNCHANGED <<home, slots, cache, dirty, lh, buf, tail>>
    BY <1>14 DEF EndCommit, diskVars
  <2>2. Locked' = Locked
    BY <2>1 DEF Locked
  <2>. QED
    BY <1>d, <2>1, <2>2 DEF DataInv, PinnedUntilInstalled, Contents
<1>15. CASE ReadHead
  <2>1. /\ phase = "boot" /\ phase' = "recover" /\ tail' = 1 /\ lh' = head
        /\ UNCHANGED <<home, slots, cache, dirty, buf>>
    BY <1>15 DEF ReadHead, diskVars, procVars
  <2>2. dirty = {} /\ Locked = {} /\ Locked' = {}
    BY <1>d, <1>l, <2>1 DEF DataInv, Locked
  <2>3. head \in Seq(Block)
    BY DEF IInv, TypeOK
  <2>4. \A i \in DOMAIN head : ~(i < 1)
    BY <2>3
  <2>. QED
    BY <1>d, <2>1, <2>2, <2>4 DEF DataInv, PinnedUntilInstalled, Contents
<1>16. CASE Crash
  <2>1. /\ phase' = "boot" /\ tail' = 1 /\ dirty' = {} /\ cache' = [b \in Block |-> None]
        /\ buf' = [p \in Proc |-> None] /\ home' = home
    BY <1>16 DEF Crash, diskVars
  <2>2. Locked' = {}
    BY <2>1 DEF Locked
  <2>. QED
    BY <2>1, <2>2 DEF DataInv, PinnedUntilInstalled, Contents
<1>. QED
  BY <1>1, <1>2, <1>3, <1>4, <1>5, <1>6, <1>7, <1>8, <1>9, <1>10, <1>11, <1>12,
     <1>13, <1>14, <1>15, <1>16 DEF Next, Begin, End, Commit

-----------------------------------------------------------------------------
(* The theorems.                                                           *)

LEMMA IInvInit == Init => IInv
<1>. SUFFICES ASSUME Init PROVE IInv
  OBVIOUS
<1>1. TypeOK
  BY TypeInit
<1>2. Active = {} /\ Locked = {}
  BY DEF Init, Active, Locked
<1>3. IsFiniteSet({}) /\ Cardinality({}) = 0
  BY FS_EmptySet
<1>. QED
  BY <1>1, <1>2, <1>3, ConstantFacts
  DEF Init, IInv, PcInv, CommitInv, SpaceInv, DataInv, PinnedUntilInstalled, Contents

LEMMA IInvStep ==
  ASSUME Copier = {}
  PROVE  IInv /\ [Next]_vars => IInv'
BY TypeStep, PcStep, CommitStep, SpaceStep, DataStep DEF IInv

LEMMA Invariance ==
  ASSUME Copier = {}
  PROVE  Spec => []IInv
BY IInvInit, IInvStep, PTL DEF Spec

\* log.lh, the log on disk and the counters keep their types.
THEOREM TypeCorrect ==
  ASSUME Copier = {}
  PROVE  Spec => []TypeOK
<1>1. IInv => TypeOK
  BY DEF IInv
<1>. QED
  BY <1>1, Invariance, PTL

\* The header never outgrows the log, and neither log_write() nor end_op()
\* panics, as long as a call writes fewer than MAXOPBLOCKS blocks.
THEOREM ReservationSuffices ==
  ASSUME Copier = {}
  PROVE  Spec => []NoPanic
<1>1. IInv => NoPanic
  BY DEF IInv, SpaceInv, PcInv, NoPanic
<1>. QED
  BY <1>1, Invariance, PTL

\* No eviction loses a write.
THEOREM PinsCorrect ==
  ASSUME Copier = {}
  PROVE  Spec => []PinnedUntilInstalled
<1>1. IInv => PinnedUntilInstalled
  BY DEF IInv, DataInv
<1>. QED
  BY <1>1, Invariance, PTL

\* Nobody sleeps in begin_op() with nobody left to wake him.
THEOREM SleepersCorrect ==
  ASSUME Copier = {}
  PROVE  Spec => []NoLostWakeup
<1>1. IInv => NoLostWakeup
  BY DEF IInv, PcInv, NoLostWakeup
<1>. QED
  BY <1>1, Invariance, PTL

\* The block of a header's slot i is read from slot i.
LEMMA RecoveredLogged ==
  ASSUME TypeOK, NEW i \in DOMAIN head
  PROVE  Recovered[head[i]] = slots[i]
<1>1. head[i] \in Block /\ head[i] \in Logged(head)
  BY DEF TypeOK, Logged
<1>2. \A j \in DOMAIN head : head[j] = head[i] => j = i
  BY DEF TypeOK, Distinct
<1>3. (CHOOSE j \in DOMAIN head : head[j] = head[i]) = i
  BY <1>2
<1>. QED
  BY <1>1, <1>3 DEF Recovered

LEMMA RecoveredHome ==
  ASSUME NEW b \in Block, b \notin Logged(head)
  PROVE  Recovered[b] = home[b]
BY DEF Recovered

View ==
  [b \in Block |-> IF phase \in {"boot", "recover"} THEN Recovered[b] ELSE Contents(b)]

Acting == {p \in Proc : pc[p] \in {"op", "write", "panic"}}

LEMMA ActingFacts == IInv => Acting = Active
BY DEF Acting, Active, IInv, PcInv

LEMMA ActingFactsNext == IInv' => (Acting = Active)'
BY ActingFacts, PTL

LEMMA RefinementInit == Init => Disk!Init
<1>. SUFFICES ASSUME Init PROVE Disk!Init
  OBVIOUS
<1>1. Recovered = home
  BY DEF Init, Recovered, Logged
<1>2. Recovered \in [Block -> Val]
  BY <1>1 DEF Init
<1>3. View = Recovered
  BY <1>1 DEF Init, View
<1>4. Acting = {}
  BY DEF Init, Acting
<1>. QED
  BY <1>2, <1>3, <1>4 DEF Disk!Init, View, Acting

\* What the disk and the cache are to AtomicDisk while no header is on disk,
\* while a commit installs, and when an installation is complete.
LEMMA RecoveredFacts ==
  ASSUME IInv
  PROVE  /\ phase \in {"run", "log", "end"} => Recovered = home
         /\ phase = "install" => \A b \in Block : Recovered[b] = Contents(b)
         /\ phase \in {"install", "recover"} /\ Done => Recovered = home
<1>t. /\ home \in [Block -> Val] /\ head \in Seq(Block) /\ lh \in Seq(Block) /\ tail \in Nat
      /\ dirty \subseteq Block /\ TypeOK
  BY DEF IInv, TypeOK
<1>h. /\ phase \in {"run", "log", "end"} => head = <<>>
      /\ phase \in {"install", "recover"} => head = lh
  BY DEF IInv, CommitInv
<1>1. ASSUME head = <<>> PROVE Recovered = home
  BY <1>1, <1>t DEF Recovered, Logged
<1>2. ASSUME phase = "install", NEW b \in Block PROVE Recovered[b] = Contents(b)
  <2>1. CASE b \in Logged(head)
    <3>1. PICK i \in DOMAIN head : b = head[i]
      BY <2>1 DEF Logged
    <3>2. Recovered[b] = slots[i]
      BY <1>t, <3>1, RecoveredLogged
    <3>3. slots[i] = Contents(b)
      BY <1>2, <1>h, <3>1 DEF IInv, DataInv
    <3>. QED
      BY <3>2, <3>3
  <2>2. CASE b \notin Logged(head)
    <3>1. Recovered[b] = home[b]
      BY <2>2, RecoveredHome
    <3>2. b \notin dirty /\ b \notin Locked
      BY <1>2, <1>h, <2>2, LockedFacts DEF IInv, DataInv, PinnedUntilInstalled
    <3>3. Contents(b) = home[b]
      BY <3>2 DEF IInv, DataInv, PinnedUntilInstalled
    <3>. QED
      BY <3>1, <3>3
  <2>. QED
    BY <2>1, <2>2
<1>3. ASSUME phase \in {"install", "recover"}, Done PROVE Recovered = home
  <2>1. \A i \in DOMAIN lh : i < tail
    BY <1>3, <1>t DEF Done
  <2>2. ASSUME NEW b \in Block PROVE Recovered[b] = home[b]
    <3>1. CASE b \in Logged(head)
      <4>1. PICK i \in DOMAIN head : b = head[i]
        BY <3>1 DEF Logged
      <4>2. Recovered[b] = slots[i]
        BY <1>t, <4>1, RecoveredLogged
      <4>3. home[b] = slots[i]
        BY <1>3, <1>h, <2>1, <4>1 DEF IInv, DataInv
      <4>. QED
        BY <4>2, <4>3
    <3>2. CASE b \notin Logged(head)
      BY <3>2, RecoveredHome
    <3>. QED
      BY <3>1, <3>2
  <2>. QED
    BY <1>t, <2>2 DEF Recovered
<1>. QED
  BY <1>h, <1>1, <1>2, <1>3

LEMMA RecoveredFactsNext ==
  IInv' => (/\ phase \in {"run", "log", "end"} => Recovered = home
            /\ phase = "install" => \A b \in Block : Recovered[b] = Contents(b))'
<1>1. IInv => /\ phase \in {"run", "log", "end"} => Recovered = home
              /\ phase = "install" => \A b \in Block : Recovered[b] = Contents(b)
  BY RecoveredFacts
<1>. QED
  BY <1>1, PTL

LEMMA RecoveredType ==
  ASSUME IInv
  PROVE  Recovered \in [Block -> Val]
<1>1. ASSUME NEW i \in DOMAIN head PROVE slots[i] \in Val
  BY ConstantFacts DEF IInv, TypeOK, SpaceInv, Slot
<1>2. ASSUME NEW b \in Block, b \in Logged(head)
      PROVE  (CHOOSE i \in DOMAIN head : head[i] = b) \in DOMAIN head
  BY <1>2 DEF Logged
<1>3. \A b \in Block : home[b] \in Val
  BY DEF IInv, TypeOK
<1>. QED
  BY <1>1, <1>2, <1>3 DEF Recovered

\* The block numbered b is seen, and survives a crash, as it was.
LEMMA Unseen ==
  ASSUME home' = home, slots' = slots, head' = head, phase' = phase,
         \A b \in Block : Contents(b)' = Contents(b)
  PROVE  Recovered' = Recovered /\ View' = View
BY DEF Recovered, View

LEMMA RefinementStep ==
  ASSUME Copier = {}
  PROVE  IInv /\ [Next]_vars => [Disk!Next]_(Disk!vars)
<1>. SUFFICES ASSUME IInv, [Next]_vars
              PROVE  \/ UNCHANGED <<Recovered, View, Acting>>
                     \/ Disk!Next
  BY DEF Disk!vars, View, Acting
<1>i. IInv'
  BY IInvStep
<1>a. Acting = Active
  BY ActingFacts
<1>b. Acting' = Active'
  BY <1>i, ActingFactsNext
<1>f. /\ phase \in {"run", "log", "end"} => Recovered = home
      /\ phase = "install" => \A b \in Block : Recovered[b] = Contents(b)
      /\ phase \in {"install", "recover"} /\ Done => Recovered = home
  BY RecoveredFacts
<1>l. phase # "run" => Locked = {}
  BY LockedFacts
<1>r. \A p \in Proc : pc[p] \in {"op", "write"} => phase = "run"
  BY DEF IInv, CommitInv, Active
<1>t. TypeOK /\ CommitInv /\ DataInv /\ SpaceInv /\ PcInv
  BY DEF IInv
<1>v. Recovered \in [Block -> Val] /\ View \in [Block -> Val]
  BY <1>t, ContentsType, RecoveredType DEF View
<1>1. CASE UNCHANGED vars
  <2>1. \A b \in Block : Contents(b)' = Contents(b)
    BY <1>1 DEF vars, diskVars, Contents
  <2>. QED
    BY <1>1, <2>1, Unseen DEF vars, diskVars, procVars, Acting
<1>2. ASSUME NEW p \in Proc, BeginSleep(p)
      PROVE  UNCHANGED <<Recovered, View, Acting>>
  <2>1. \A b \in Block : Contents(b)' = Contents(b)
    BY <1>2 DEF BeginSleep, diskVars, Contents
  <2>. QED
    BY <1>2, <1>t, <2>1, Unseen DEF BeginSleep, InBegin, diskVars, Acting, TypeOK
<1>3. ASSUME NEW p \in Proc, BeginOp(p) PROVE Disk!Next
  <2>1. \A b \in Block : Contents(b)' = Contents(b)
    BY <1>3 DEF BeginOp, diskVars, Contents
  <2>2. Recovered' = Recovered /\ View' = View
    BY <1>3, <2>1, Unseen DEF BeginOp, diskVars
  <2>3. p \notin Acting /\ Acting' = Acting \cup {p}
    BY <1>3, <1>t DEF BeginOp, InBegin, Acting, TypeOK
  <2>4. Disk!Begin(p)
    BY <2>2, <2>3 DEF Disk!Begin, View, Acting
  <2>. QED
    BY <2>4 DEF Disk!Next
<1>4. ASSUME NEW p \in Proc, LogWrite(p) PROVE UNCHANGED <<Recovered, View, Acting>>
  <2>1. \A b \in Block : Contents(b)' = Contents(b)
    BY <1>4 DEF LogWrite, diskVars, Contents
  <2>. QED
    BY <1>4, <1>t, <2>1, Unseen DEF LogWrite, diskVars, Acting, TypeOK
<1>5. ASSUME NEW p \in Proc, EndOp(p) PROVE Disk!Next
  <2>1. \A b \in Block : Contents(b)' = Contents(b)
    BY <1>5 DEF EndOp, diskVars, Contents
  <2>2. Recovered' = Recovered /\ View' = View
    BY <1>5, <2>1, Unseen DEF EndOp, diskVars
  <2>3. ~committing
    BY <1>5, <1>t DEF EndOp, CommitInv, Active
  <2>4. p \in Acting /\ Acting' = Acting \ {p}
    BY <1>5, <1>t, <2>3 DEF EndOp, Woken, Acting, TypeOK
  <2>5. Disk!End(p)
    BY <2>2, <2>4 DEF Disk!End, View, Acting
  <2>. QED
    BY <2>5 DEF Disk!Next
<1>6. ASSUME NEW p \in Proc, EndLastOp(p) PROVE Disk!Next
  <2>1. \A b \in Block : Contents(b)' = Contents(b)
    BY <1>6 DEF EndLastOp, diskVars, Contents
  <2>2. phase = "run" /\ phase' \in {"end", "log"}
    BY <1>6, <1>r DEF EndLastOp
  <2>3. Recovered' = Recovered /\ View' = View
    BY <1>6, <2>1, <2>2 DEF EndLastOp, diskVars, Recovered, View
  <2>4. p \in Acting /\ Acting' = Acting \ {p}
    BY <1>6, <1>t DEF EndLastOp, Acting, TypeOK
  <2>5. Disk!End(p)
    BY <2>3, <2>4 DEF Disk!End, View, Acting
  <2>. QED
    BY <2>5 DEF Disk!Next
<1>7. ASSUME NEW p \in Proc, NEW b \in Block, NEW v \in Val, Modify(p, b, v)
      PROVE  Disk!Next
  <2>1. phase = "run" /\ phase' = "run" /\ home' = home /\ slots' = slots /\ head' = head
    BY <1>7, <1>r DEF Modify, diskVars
  <2>2. Recovered' = Recovered
    BY <2>1 DEF Recovered
  <2>3. cache' = [cache EXCEPT ![b] = v] /\ v # None
    BY <1>7, ConstantFacts DEF Modify
  <2>4. \A x \in Block : Contents(x)' = IF x = b THEN v ELSE Contents(x)
    BY <1>t, <2>1, <2>3 DEF Contents, TypeOK
  <2>5. View' = [x \in Block |-> IF x = b THEN v ELSE View[x]]
    BY <2>1, <2>4 DEF View
  <2>6. View' = [View EXCEPT ![b] = v]
    BY <1>v, <2>5
  <2>7. p \in Acting /\ Acting' = Acting
    BY <1>7, <1>t DEF Modify, Acting, TypeOK
  <2>8. Disk!Write(p, b, v)
    BY <2>2, <2>6, <2>7 DEF Disk!Write, View, Acting
  <2>. QED
    BY <2>8 DEF Disk!Next
<1>8. ASSUME NEW b \in Block, Load(b) PROVE UNCHANGED <<Recovered, View, Acting>>
  <2>1. \A x \in Block : Contents(x)' = Contents(x)
    BY <1>8, <1>t DEF Load, diskVars, Contents, TypeOK
  <2>. QED
    BY <1>8, <2>1, Unseen DEF Load, diskVars, procVars, Acting
<1>9. ASSUME NEW b \in Block, Evict(b) PROVE UNCHANGED <<Recovered, View, Acting>>
  <2>1. b \notin dirty \cup Locked
    BY <1>9 DEF Evict, Evictable
  <2>2. \A x \in Block : Contents(x)' = Contents(x)
    BY <1>9, <1>t, <2>1 DEF Evict, diskVars, Contents, TypeOK, DataInv, PinnedUntilInstalled
  <2>. QED
    BY <1>9, <2>2, Unseen DEF Evict, diskVars, procVars, Acting
<1>10. CASE WriteLog
  <2>1. /\ phase = "log" /\ phase' = "log"
        /\ head' = head /\ home' = home /\ cache' = cache /\ pc' = pc
    BY <1>10 DEF WriteLog, logVars, procVars
  <2>2. head = <<>>
    BY <1>t, <2>1 DEF CommitInv
  <2>3. Recovered' = Recovered
    BY <2>1, <2>2 DEF Recovered, Logged
  <2>4. View' = View
    BY <2>1 DEF View, Contents
  <2>. QED
    BY <2>1, <2>3, <2>4 DEF Acting
<1>11. CASE WriteHead
  <2>1. /\ phase = "log" /\ phase' = "install" /\ pc' = pc
        /\ home' = home /\ cache' = cache
    BY <1>11 DEF WriteHead, procVars
  <2>2. \A b \in Block : Contents(b)' = Contents(b)
    BY <2>1 DEF Contents
  <2>3. View = [b \in Block |-> Contents(b)] /\ View' = View
    BY <2>1, <2>2 DEF View
  <2>4. \A b \in Block : Recovered'[b] = Contents(b)
    BY <1>i, <2>1, <2>2, RecoveredFactsNext
  <2>5. Recovered' = [b \in Block |-> Recovered'[b]]
    BY DEF Recovered
  <2>6. Recovered' = View
    BY <2>3, <2>4, <2>5
  <2>7. Acting = {} /\ Acting' = Acting
    BY <1>a, <1>t, <2>1 DEF CommitInv, Acting
  <2>8. Disk!Commit
    BY <2>3, <2>6, <2>7 DEF Disk!Commit, View, Acting
  <2>. QED
    BY <2>8 DEF Disk!Next
<1>12. CASE Install
  <2>1. PICK b \in Block : b = lh[tail] /\ tail \in DOMAIN lh
    BY <1>12, <1>t DEF Install, TypeOK, DataInv
  <2>2. /\ phase \in {"install", "recover"} /\ phase' = phase /\ pc' = pc
        /\ head' = head /\ slots' = slots
        /\ home' = [home EXCEPT ![b] = slots[tail]]
        /\ cache' = [cache EXCEPT ![b] = slots[tail]]
    BY <1>12, <2>1 DEF Install, procVars
  <2>3. head = lh /\ b \in Logged(head)
    BY <1>t, <2>1, <2>2 DEF CommitInv, Logged
  <2>4. Recovered' = Recovered
    <3>1. \A x \in Block : x \notin Logged(head) => home'[x] = home[x]
      BY <1>t, <2>2, <2>3 DEF TypeOK
    <3>. QED
      BY <2>2, <3>1 DEF Recovered
  <2>5. phase = "install" => \A x \in Block : Contents(x)' = Contents(x)
    <3>1. ASSUME phase = "install" PROVE \A x \in Block : Recovered'[x] = Contents(x)'
      BY <1>i, <2>2, <3>1, RecoveredFactsNext
    <3>. QED
      BY <1>f, <2>4, <3>1
  <2>6. View' = View
    BY <2>2, <2>4, <2>5 DEF View
  <2>. QED
    BY <2>2, <2>4, <2>6 DEF Acting
<1>13. CASE ClearHead
  <2>1. /\ phase \in {"install", "recover"} /\ Done /\ phase' \in {"end", "run"}
        /\ home' = home /\ cache' = cache /\ pc' = pc
    BY <1>13 DEF ClearHead, AfterInstall, procVars
  <2>2. Recovered = home /\ Recovered' = home
    BY <1>f, <1>i, <2>1, RecoveredFactsNext
  <2>3. \A b \in Block : Contents(b)' = Contents(b)
    BY <2>1 DEF Contents
  <2>4. phase = "recover" => \A b \in Block : Contents(b) = home[b]
    BY <1>l, <1>t DEF DataInv, PinnedUntilInstalled
  <2>5. \A b \in Block : View[b] = home[b] /\ View'[b] = home[b]
    <3>1. phase = "install" => \A b \in Block : Contents(b) = home[b]
      BY <1>f, <2>2
    <3>. QED
      BY <2>1, <2>2, <2>3, <2>4, <3>1 DEF View
  <2>6. View' = View
    BY <2>5 DEF View
  <2>. QED
    BY <2>1, <2>2, <2>6 DEF Acting
<1>14. CASE EndCommit
  <2>1. \A b \in Block : Contents(b)' = Contents(b)
    BY <1>14 DEF EndCommit, diskVars, Contents
  <2>2. phase = "end" /\ phase' = "run" /\ home' = home /\ slots' = slots /\ head' = head
    BY <1>14 DEF EndCommit, diskVars
  <2>3. Recovered' = Recovered /\ View' = View
    BY <2>1, <2>2 DEF Recovered, View
  <2>4. Acting' = Acting
    BY <1>14, <1>t DEF EndCommit, Woken, Acting, TypeOK
  <2>. QED
    BY <2>3, <2>4
<1>15. CASE ReadHead
  <2>1. /\ phase = "boot" /\ phase' = "recover" /\ pc' = pc
        /\ home' = home /\ slots' = slots /\ head' = head
    BY <1>15 DEF ReadHead, diskVars, procVars
  <2>2. Recovered' = Recovered /\ View' = View
    BY <2>1 DEF Recovered, View
  <2>. QED
    BY <2>1, <2>2 DEF Acting
<1>16. CASE Crash
  <2>1. phase' = "boot" /\ home' = home /\ slots' = slots /\ head' = head
    BY <1>16 DEF Crash, diskVars
  <2>2. Recovered' = Recovered
    BY <2>1 DEF Recovered
  <2>3. View' = Recovered
    BY <1>v, <2>1, <2>2 DEF View
  <2>4. Acting' = {}
    BY <1>16 DEF Crash, Acting
  <2>5. Disk!Crash
    BY <2>2, <2>3, <2>4 DEF Disk!Crash, View, Acting
  <2>. QED
    BY <2>5 DEF Disk!Next
<1>. QED
  BY <1>1, <1>2, <1>3, <1>4, <1>5, <1>6, <1>7, <1>8, <1>9, <1>10, <1>11, <1>12,
     <1>13, <1>14, <1>15, <1>16 DEF Next, Begin, End, Commit

\* The log implements AtomicDisk: after a crash, however often recovery is
\* itself cut short, the disk is that of a moment with no call in progress.
THEOREM LogImplementsAtomicDisk ==
  ASSUME Copier = {}
  PROVE  Spec => ImplementsAtomicDisk
BY RefinementInit, RefinementStep, Invariance, PTL
DEF Spec, ImplementsAtomicDisk, Disk!Spec
=============================================================================
