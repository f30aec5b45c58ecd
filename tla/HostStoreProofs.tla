---------------------------- MODULE HostStoreProofs ----------------------------
(***************************************************************************)
(* Proofs about HostStore, for every set of processes, every payload and   *)
(* every bound on the two chains.                                          *)
(*                                                                         *)
(* HostNamesCore speaks of the files a crash may leave.  It is preserved   *)
(* because of what every process knows while it works: the core head it    *)
(* read was sealed before it left the core store, and the core heads named *)
(* by the host chain it read are prefixes of that head.  No exclusion      *)
(* between processes is needed for this.                                   *)
(***************************************************************************)
EXTENDS HostStore, TLAPS, SequenceTheorems, WellFoundedInduction

\* A host chain whose records name ever later prefixes of core chain s.
Named(c, s) ==
    \A i \in DOMAIN c :
        /\ IsPrefix(c[i].core, s)
        /\ \A j \in 1..(i - 1) : IsPrefix(c[j].core, c[i].core)

NamedDir(d, s) ==
    /\ \A n \in 1..MaxLen : Named(d.rec[n], s)
    /\ Named(d.head, s)
    /\ Named(d.pending, s)

\* Which lock a process holds where, and where a directory walk may stand.
Shape(p) ==
    /\ pc[p] \in {"stat", "mkdir", "syncParent", "ancestors", "lock"} => op[p] # "core"
    /\ pc[p] = "ready" => op[p] = "transact"
    /\ pc[p] \in {"stat", "mkdir", "syncParent"} /\ op[p] = "hold" => level[p] <= 3
    /\ pc[p] \in Committing => want[p].val \in Vals

\* What process p knows of the core chain at each point.
Knows(p) ==
    /\ Named(existing[p], coreSealed)
    /\ pc[p] \in {"inCore", "extended", "ready"} =>
          /\ IsPrefix(seen[p], coreSealed)
          /\ \A i \in DOMAIN existing[p] : IsPrefix(existing[p][i].core, seen[p])
    /\ pc[p] \in Committing => Named(NewChain(p), coreSealed)

Types == TypeOK /\ \A p \in Procs : Shape(p)

NInv ==
    /\ IsPrefix(coreSealed, core)
    /\ \A d \in crashable \cup {disk} : NamedDir(d, coreSealed)
    /\ \A p \in Procs : Knows(p)

IInv == Types /\ NInv

-----------------------------------------------------------------------------
(* Core chains and record files.                                           *)

\* A core chain is a sequence of what core records carry.
LEMMA CoreChainSeq == ASSUME NEW c \in CoreChains PROVE c \in Seq(Vals)
<1>1. PICK n \in 0..MaxCore : c \in [1..n -> Vals]
  BY DEF CoreChains
<1> QED BY <1>1

\* The empty core chain is one.
LEMMA EmptyCore == <<>> \in CoreChains /\ \A c \in CoreChains : IsPrefix(<<>>, c)
<1>1. 0 \in 0..MaxCore /\ <<>> \in [1..0 -> Vals]
  BY HostStoreAssumption
<1>2. <<>> \in CoreChains
  BY <1>1 DEF CoreChains
<1>3. ASSUME NEW c \in CoreChains PROVE IsPrefix(<<>>, c)
  <2>1. c \in Seq(Vals)
    BY CoreChainSeq
  <2> QED BY <2>1 DEF IsPrefix
<1> QED BY <1>2, <1>3

\* A core chain is a prefix of itself.
LEMMA CoreReflexive == ASSUME NEW c \in CoreChains PROVE IsPrefix(c, c)
BY CoreChainSeq DEF IsPrefix

\* The record a command appends extends the core chain it found.
LEMMA CoreAppend ==
    ASSUME NEW c \in CoreChains, NEW v \in Vals, Len(c) < MaxCore
    PROVE  Append(c, v) \in CoreChains /\ IsPrefix(c, Append(c, v))
<1>1. c \in Seq(Vals)
  BY CoreChainSeq
<1>2. Append(c, v) \in [1..(Len(c) + 1) -> Vals] /\ Len(c) + 1 \in 0..MaxCore
  <2>1. Append(c, v) \in Seq(Vals) /\ Len(Append(c, v)) = Len(c) + 1
        /\ Len(c) \in Nat
    BY <1>1
  <2>2. Append(c, v) \in [1..Len(Append(c, v)) -> Vals]
    BY <2>1, LenProperties
  <2>3. Append(c, v) \in [1..(Len(c) + 1) -> Vals]
    BY <2>1, <2>2
  <2> QED BY <2>1, <2>3, HostStoreAssumption
<1>3. Append(c, v) \in CoreChains
  BY <1>2 DEF CoreChains
<1> QED BY <1>1, <1>3 DEF IsPrefix

\* A prefix of a prefix is one.
LEMMA CoreTransitive ==
    ASSUME NEW c \in CoreChains, NEW d \in CoreChains, NEW e \in CoreChains,
           IsPrefix(c, d), IsPrefix(d, e)
    PROVE  IsPrefix(c, e)
<1>0. c \in Seq(Vals) /\ d \in Seq(Vals) /\ e \in Seq(Vals)
  BY CoreChainSeq
<1>1. Len(c) <= Len(d) /\ Len(d) <= Len(e)
  BY DEF IsPrefix
<1>2. \A i \in 1..Len(c) : c[i] = d[i]
  <2>1. SubSeq(c, 1, Len(c)) = SubSeq(d, 1, Len(c))
    BY DEF IsPrefix
  <2>2. \A i \in 1..Len(c) : SubSeq(c, 1, Len(c))[i] = c[i]
                             /\ SubSeq(d, 1, Len(c))[i] = d[i]
    BY <1>0, <1>1
  <2> QED BY <2>1, <2>2
<1>3. \A i \in 1..Len(d) : d[i] = e[i]
  <2>1. SubSeq(d, 1, Len(d)) = SubSeq(e, 1, Len(d))
    BY DEF IsPrefix
  <2>2. \A i \in 1..Len(d) : SubSeq(d, 1, Len(d))[i] = d[i]
                             /\ SubSeq(e, 1, Len(d))[i] = e[i]
    BY <1>0, <1>1
  <2> QED BY <2>1, <2>2
<1>4. SubSeq(c, 1, Len(c)) = SubSeq(e, 1, Len(c))
  <2>1. \A i \in 1..Len(c) : c[i] = e[i]
    BY <1>0, <1>1, <1>2, <1>3
  <2> QED BY <1>0, <1>1, <2>1
<1> QED BY <1>0, <1>1, <1>4 DEF IsPrefix

\* The part of a core chain that a crash keeps is a core chain, and anything
\* that was no longer than it is still its prefix.
LEMMA CoreCut ==
    ASSUME NEW c \in CoreChains, NEW s \in CoreChains, IsPrefix(s, c),
           NEW n \in Len(s)..Len(c)
    PROVE  /\ SubSeq(c, 1, n) \in CoreChains
           /\ IsPrefix(s, SubSeq(c, 1, n))
           /\ Len(SubSeq(c, 1, n)) = n
<1>1. c \in Seq(Vals) /\ s \in Seq(Vals) /\ Len(s) \in Nat /\ Len(c) \in Nat
  BY CoreChainSeq
<1>2. PICK m \in 0..MaxCore : c \in [1..m -> Vals]
  BY DEF CoreChains
<1>3. Len(c) = m /\ n \in 0..MaxCore
  BY <1>1, <1>2, HostStoreAssumption
<1>4. SubSeq(c, 1, n) \in [1..n -> Vals] /\ Len(SubSeq(c, 1, n)) = n
  <2>1. SubSeq(c, 1, n) \in Seq(Vals) /\ Len(SubSeq(c, 1, n)) = n
    BY <1>1
  <2> QED BY <2>1, LenProperties
<1>5. SubSeq(c, 1, n) \in CoreChains
  BY <1>3, <1>4 DEF CoreChains
<1>6. SubSeq(s, 1, Len(s)) = SubSeq(SubSeq(c, 1, n), 1, Len(s))
  <2>1. SubSeq(s, 1, Len(s)) = SubSeq(c, 1, Len(s))
    BY DEF IsPrefix
  <2>2. SubSeq(SubSeq(c, 1, n), 1, Len(s)) = SubSeq(c, 1, Len(s))
    BY <1>1
  <2> QED BY <2>1, <2>2
<1> QED BY <1>1, <1>4, <1>5, <1>6 DEF IsPrefix

\* A directory that holds record files has a last one.
LEMMA LastExists ==
    ASSUME NEW n \in Nat, NEW S \in SUBSET (1..n), S # {}
    PROVE  \E i \in S : \A j \in S : j <= i
<1> DEFINE T == {n - i : i \in S}
<1>1. T \in SUBSET Nat /\ T # {}
  <2>1. \A i \in S : n - i \in Nat
    OBVIOUS
  <2> QED BY <2>1
<1>2. PICK x \in T : \A y \in T : ~ (<<y, x>> \in OpToRel(<, Nat))
  BY <1>1, NatLessThanWellFounded, WFMin
<1>3. \A y \in T : ~ (y < x)
  <2>1. ASSUME NEW y \in T, y < x PROVE FALSE
    <3>1. <<y, x>> \in OpToRel(<, Nat)
      BY <1>1, <2>1 DEF OpToRel
    <3> QED BY <3>1, <1>2
  <2> QED BY <2>1
<1>4. PICK i \in S : x = n - i
  OBVIOUS
<1>5. \A j \in S : j <= i
  <2> TAKE j \in S
  <2>1. n - j \in T
    OBVIOUS
  <2> QED BY <2>1, <1>3, <1>4
<1> QED BY <1>5

\* The chain a directory holds is the anchor of one of its record files.
LEMMA ChainOfFiles ==
    ASSUME NEW d \in Dirs
    PROVE  /\ ChainOf(d) \in Chains
           /\ ChainOf(d) = <<>> \/ \E n \in 1..MaxLen : ChainOf(d) = d.rec[n]
<1> DEFINE present == {i \in 1..MaxLen : d.rec[i] # <<>>}
<1>1. CASE present = {}
  BY <1>1 DEF ChainOf, Chains
<1>2. CASE present # {}
  <2>1. \E i \in present : \A j \in present : j <= i
    <3>1. present \in SUBSET (1..MaxLen)
      OBVIOUS
    <3> HIDE DEF present
    <3> QED BY <3>1, <1>2, LastExists, HostStoreAssumption
  <2>2. (CHOOSE i \in present : \A j \in present : j <= i) \in present
    <3> HIDE DEF present
    <3> QED BY <2>1
  <2>3. ChainOf(d) = d.rec[CHOOSE i \in present : \A j \in present : j <= i]
    BY <1>2 DEF ChainOf
  <2> QED BY <2>2, <2>3 DEF Dirs
<1> QED BY <1>1, <1>2

-----------------------------------------------------------------------------
(* What a write or a sync does to the files a crash may leave.             *)

\* The directory entries, visible or left by a crash, after one is set to c.
Written(c) ==
    \A d \in crashable' \cup {disk'} :
        \E e \in crashable \cup {disk} :
            \/ d = e
            \/ d = [e EXCEPT !.head = c]
            \/ d = [e EXCEPT !.pending = c]
            \/ \E n \in Nat : d = [e EXCEPT !.rec[n] = c]

\* A step on the run's directory: one entry is set to c, or all are synced.
FileStep(p, c) ==
    \/ RecoverHead(p) /\ c = existing[p]
    \/ (RecoverRemove(p) \/ RemovePending(p)) /\ c = <<>>
    \/ (WritePending(p) \/ WriteRecord(p) \/ WriteHead(p)) /\ c = NewChain(p)
    \/ (RecoverSync(p) \/ RecoverSyncRemoval(p) \/ SyncPending(p) \/ SyncRecord(p)
        \/ SyncHead(p)) /\ c = <<>>

FileSteps(p) ==
    \/ RecoverHead(p) \/ RecoverSync(p) \/ RecoverRemove(p) \/ RecoverSyncRemoval(p)
    \/ WritePending(p) \/ SyncPending(p) \/ WriteRecord(p) \/ SyncRecord(p)
    \/ WriteHead(p) \/ SyncHead(p) \/ RemovePending(p)

\* Every such step sets entries to the chain it is about, and no others.
LEMMA FileStepWrites ==
    ASSUME TypeOK, NEW p \in Procs, NEW c, FileStep(p, c)
    PROVE  Written(c)
<1>1. CASE RecoverHead(p) \/ WriteHead(p)
  <2>1. disk' = [disk EXCEPT !.head = c]
        /\ \A d \in crashable' : \/ d \in crashable \/ d = disk'
                                 \/ \E e \in crashable : d = [e EXCEPT !.head = c]
    BY <1>1 DEF FileStep, RecoverHead, WriteHead, Change, RecoverRemove, RemovePending,
                WritePending, WriteRecord, RecoverSync, RecoverSyncRemoval, SyncPending,
                SyncRecord, SyncHead
  <2> QED BY <2>1 DEF Written
<1>2. CASE RecoverRemove(p) \/ RemovePending(p) \/ WritePending(p)
  <2>1. disk' = [disk EXCEPT !.pending = c]
        /\ \A d \in crashable' : \/ d \in crashable \/ d = disk'
                                 \/ \E e \in crashable : d = [e EXCEPT !.pending = c]
    BY <1>2 DEF FileStep, RecoverHead, WriteHead, Change, RecoverRemove, RemovePending,
                WritePending, WriteRecord, RecoverSync, RecoverSyncRemoval, SyncPending,
                SyncRecord, SyncHead
  <2> QED BY <2>1 DEF Written
<1>3. CASE WriteRecord(p)
  <2> DEFINE n == Len(existing[p]) + 1
  <2>1. n \in Nat
    BY DEF TypeOK, Chains
  <2>2. disk' = [disk EXCEPT !.rec[n] = c]
        /\ \A d \in crashable' : \/ d \in crashable \/ d = disk'
                                 \/ \E e \in crashable : d = [e EXCEPT !.rec[n] = c]
    BY <1>3 DEF FileStep, RecoverHead, WriteHead, Change, RecoverRemove, RemovePending,
                WritePending, WriteRecord, RecoverSync, RecoverSyncRemoval, SyncPending,
                SyncRecord, SyncHead
  <2> HIDE DEF n
  <2> QED BY <2>1, <2>2 DEF Written
<1>4. CASE RecoverSync(p) \/ RecoverSyncRemoval(p) \/ SyncPending(p) \/ SyncRecord(p) \/ SyncHead(p)
  BY <1>4 DEF RecoverSync, RecoverSyncRemoval, SyncPending, SyncRecord, SyncHead, SyncRunDir,
              Written
<1> QED BY <1>1, <1>2, <1>3, <1>4 DEF FileStep

\* Setting an entry to a chain keeps the files well typed.
LEMMA WrittenTyped ==
    ASSUME TypeOK, NEW c \in Chains, Written(c)
    PROVE  disk' \in Dirs /\ crashable' \subseteq Dirs
<1>1. \A e \in Dirs : /\ [e EXCEPT !.head = c] \in Dirs
                      /\ [e EXCEPT !.pending = c] \in Dirs
                      /\ \A n \in Nat : [e EXCEPT !.rec[n] = c] \in Dirs
  BY DEF Dirs
<1>2. \A e \in crashable \cup {disk} : e \in Dirs
  BY DEF TypeOK
<1>3. \A d \in crashable' \cup {disk'} : d \in Dirs
  <2> TAKE d \in crashable' \cup {disk'}
  <2>1. PICK e \in crashable \cup {disk} :
            \/ d = e
            \/ d = [e EXCEPT !.head = c]
            \/ d = [e EXCEPT !.pending = c]
            \/ \E n \in Nat : d = [e EXCEPT !.rec[n] = c]
    BY DEF Written
  <2>2. e \in Dirs
    BY <1>2
  <2> QED BY <1>1, <2>1, <2>2
<1> QED BY <1>3

\* Setting an entry to a chain that names the core keeps every file doing so.
LEMMA WrittenNamed ==
    ASSUME TypeOK, NEW c, NEW s, Written(c), Named(c, s),
           \A d \in crashable \cup {disk} : NamedDir(d, s)
    PROVE  \A d \in crashable' \cup {disk'} : NamedDir(d, s)
<1>1. ASSUME NEW e \in Dirs, NamedDir(e, s)
      PROVE  /\ NamedDir([e EXCEPT !.head = c], s)
             /\ NamedDir([e EXCEPT !.pending = c], s)
             /\ \A n \in Nat : NamedDir([e EXCEPT !.rec[n] = c], s)
  <2>1. e = [rec |-> e.rec, head |-> e.head, pending |-> e.pending]
        /\ e.rec \in [1..MaxLen -> Chains]
    BY DEF Dirs
  <2>2. [e EXCEPT !.head = c] = [rec |-> e.rec, head |-> c, pending |-> e.pending]
    BY <2>1
  <2>3. [e EXCEPT !.pending = c] = [rec |-> e.rec, head |-> e.head, pending |-> c]
    BY <2>1
  <2>4. \A n \in Nat : [e EXCEPT !.rec[n] = c]
                        = [rec |-> [e.rec EXCEPT ![n] = c], head |-> e.head, pending |-> e.pending]
    BY <2>1
  <2>5. \A n \in Nat, m \in 1..MaxLen : [e.rec EXCEPT ![n] = c][m] = e.rec[m]
                                        \/ [e.rec EXCEPT ![n] = c][m] = c
    BY <2>1
  <2>6. \A n \in Nat, m \in 1..MaxLen : Named([e.rec EXCEPT ![n] = c][m], s)
    <3> TAKE n \in Nat, m \in 1..MaxLen
    <3>1. Named(e.rec[m], s)
      BY <1>1 DEF NamedDir
    <3> QED BY <2>5, <3>1
  <2> QED BY <1>1, <2>2, <2>3, <2>4, <2>6 DEF NamedDir
<1>2. \A e \in crashable \cup {disk} : e \in Dirs /\ NamedDir(e, s)
  BY DEF TypeOK
<1> TAKE d \in crashable' \cup {disk'}
<1>3. PICK e \in crashable \cup {disk} :
          \/ d = e
          \/ d = [e EXCEPT !.head = c]
          \/ d = [e EXCEPT !.pending = c]
          \/ \E n \in Nat : d = [e EXCEPT !.rec[n] = c]
  BY DEF Written
<1>4. e \in Dirs /\ NamedDir(e, s)
  BY <1>2
<1> QED BY <1>1, <1>3, <1>4

-----------------------------------------------------------------------------
(* Types.                                                                  *)

\* What TypeOK and Shape say of the processes and of the locks they hold.
LocalsOK ==
    /\ lock \in Procs \cup {None}
    /\ coreLock \in Procs \cup {None}
    /\ pc \in [Procs -> PCs]
    /\ op \in [Procs -> {"hold", "transact", "core"}]
    /\ level \in [Procs -> Levels]
    /\ existing \in [Procs -> Chains]
    /\ seen \in [Procs -> CoreChains]
    /\ want \in [Procs -> [pred : Chains, val : Vals \cup {None}, core : CoreChains]]
    /\ \A p \in Procs : pc[p] \in Holding /\ op[p] # "core" => lock = p
    /\ \A p \in Procs : pc[p] \in {"inCore", "extended"} => coreLock = p
    /\ \A p \in Procs : Shape(p)

ProcStep(p) ==
    Begin(p) \/ Acquire(p) \/ LockCore(p) \/ CallStep(p) \/ IOError(p) \/ Kill(p)

\* The empty chain and the empty record are typed.
LEMMA EmptyTyped ==
    <<>> \in Chains /\ NoRecord \in [pred : Chains, val : Vals \cup {None}, core : CoreChains]
BY EmptyCore DEF Chains, NoRecord

\* A record that is being committed gives a chain of records.
LEMMA NewChainTyped ==
    ASSUME Types, NEW p \in Procs, pc[p] \in Committing
    PROVE  NewChain(p) \in Chains
<1>1. want[p].pred \in Chains /\ want[p].val \in Vals /\ want[p].core \in CoreChains
  BY DEF Types, TypeOK, Shape
<1>2. [val |-> want[p].val, core |-> want[p].core] \in Records
  BY <1>1 DEF Records
<1> QED BY <1>1, <1>2 DEF NewChain, Chains

\* A command that returns holds no lock, and takes none from another.
LEMMA ReturnLocals ==
    ASSUME Types, NEW p \in Procs, Return(p)
    PROVE  LocalsOK'
<1>1. /\ pc' \in [Procs -> PCs] /\ pc'[p] = "idle"
      /\ op' \in [Procs -> {"hold", "transact", "core"}]
      /\ level' \in [Procs -> Levels]
  BY DEF Types, TypeOK, Return, Goto, PCs, Levels
<1>2. /\ existing' \in [Procs -> Chains]
      /\ seen' \in [Procs -> CoreChains]
      /\ want' \in [Procs -> [pred : Chains, val : Vals \cup {None}, core : CoreChains]]
  BY EmptyTyped, EmptyCore DEF Types, TypeOK, Return
<1>3. \A q \in Procs \ {p} : pc'[q] = pc[q] /\ op'[q] = op[q] /\ level'[q] = level[q]
                             /\ want'[q] = want[q]
  BY DEF Types, TypeOK, Return, Goto
<1>4. \A q \in Procs : Shape(q)'
  BY <1>1, <1>3 DEF Types, Shape, Committing
<1>5. lock' \in Procs \cup {None} /\ coreLock' \in Procs \cup {None}
  BY DEF Types, TypeOK, Return
<1>6. \A q \in Procs : pc'[q] \in Holding /\ op'[q] # "core" => lock' = q
  BY <1>1, <1>3, HostStoreAssumption
     DEF Types, TypeOK, Return, Holding, Reading, Working, Committing
<1>7. \A q \in Procs : pc'[q] \in {"inCore", "extended"} => coreLock' = q
  BY <1>1, <1>3, HostStoreAssumption DEF Types, TypeOK, Return
<1> QED BY <1>1, <1>2, <1>4, <1>5, <1>6, <1>7 DEF LocalsOK

\* Creating and syncing directories.
LEMMA MakingLocals ==
    ASSUME Types, NEW p \in Procs,
           \/ BeginLoad(p) \/ BeginCore(p) \/ \E o \in {"hold", "transact"} : BeginWork(p, o)
           \/ StatDir(p) \/ MakeDir(p) \/ SyncParent(p) \/ SyncAncestors(p)
    PROVE  LocalsOK'
<1> USE DEF Types, TypeOK, Shape, LocalsOK, Goto, PCs, Making, Holding, Reading, Working,
            Committing, Levels, cores, locals
<1>1. CASE BeginLoad(p)
  BY <1>1 DEF BeginLoad
<1>2. CASE BeginCore(p)
  BY <1>2 DEF BeginCore
<1>3. CASE \E o \in {"hold", "transact"} : BeginWork(p, o)
  BY <1>3 DEF BeginWork
<1>4. CASE StatDir(p)
  BY <1>4, SMTT(60) DEF StatDir
<1>5. CASE MakeDir(p) \/ SyncAncestors(p)
  BY <1>5 DEF MakeDir, SyncAncestors
<1>6. CASE SyncParent(p)
  <2> DEFINE asked == IF op[p] = "hold" THEN 3 ELSE 4
  <2>1. UNCHANGED <<lock, cores, op, existing, seen, want>> /\ pc[p] = "syncParent"
    BY <1>6 DEF SyncParent
  <2>2. CASE level[p] = asked
    <3>1. /\ \E l \in {"lock", "ancestors"} : Goto(p, l)
          /\ level' = [level EXCEPT ![p] = 1]
      BY <1>6, <2>2 DEF SyncParent
    <3> QED BY <2>1, <3>1, SMTT(30)
  <2>3. CASE level[p] # asked
    <3>1. Goto(p, "mkdir") /\ level' = [level EXCEPT ![p] = @ + 1]
      BY <1>6, <2>3 DEF SyncParent
    <3>2. level[p] + 1 \in 1..4 /\ (op[p] = "hold" => level[p] + 1 <= 3)
      BY <2>1, <2>3
    <3> QED BY <2>1, <3>1, <3>2, SMTT(30)
  <2> QED BY <2>2, <2>3
<1> QED BY <1>1, <1>2, <1>3, <1>4, <1>5, <1>6

\* The steps on the run's directory keep every process in order.
LEMMA FileStepLocals ==
    ASSUME Types, NEW p \in Procs, FileSteps(p)
    PROVE  LocalsOK'
<1>1. /\ UNCHANGED <<lock, cores, locals>>
      /\ \E l \in Holding \ {"inCore", "extended", "ready"} : Goto(p, l)
      /\ pc[p] \in Reading \cup Committing
      /\ pc'[p] \in Committing => pc[p] \in Committing
  BY DEF FileSteps, RecoverHead, RecoverSync, RecoverRemove, RecoverSyncRemoval, WritePending,
         SyncPending, WriteRecord, SyncRecord, WriteHead, SyncHead, RemovePending, Goto,
         Holding, Reading, Working, Committing, Types, TypeOK
<1>2. PICK l \in Holding \ {"inCore", "extended", "ready"} : Goto(p, l)
  BY <1>1
<1>3. pc' \in [Procs -> PCs] /\ pc'[p] = l /\ \A q \in Procs \ {p} : pc'[q] = pc[q]
  BY <1>2 DEF Types, TypeOK, Goto, PCs
<1>4. \A q \in Procs : Shape(q)'
  BY <1>1, <1>3 DEF Types, TypeOK, Shape, locals, Holding, Reading, Working, Committing
<1> QED BY <1>1, <1>3, <1>4 DEF Types, TypeOK, LocalsOK, locals, cores, Holding

\* Reading, taking the locks, and building the record.
LEMMA WorkLocals ==
    ASSUME Types, NEW p \in Procs,
           \/ Acquire(p) \/ ReadChain(p) \/ CheckHead(p) \/ LockCore(p) \/ CallCore(p)
           \/ LeaveCore(p) \/ ExtendCore(p) \/ SealCore(p) \/ Commit(p)
    PROVE  LocalsOK'
<1> USE DEF Types, TypeOK, Shape, LocalsOK, Goto, PCs, Making, Holding, Reading, Working,
            Committing, cores, locals
<1>1. CASE Acquire(p)
  BY <1>1, HostStoreAssumption DEF Acquire
<1>2. CASE ReadChain(p) /\ ~Linked(disk)
  BY <1>2, ReturnLocals DEF ReadChain
<1>3. CASE ReadChain(p) /\ Linked(disk)
  <2>1. ChainOf(disk) \in Chains
    BY ChainOfFiles
  <2>2. AfterRead(disk) \in {"check", "recHead", "recRemove"}
    BY DEF AfterRead
  <2> QED BY <1>3, <2>1, <2>2, SMTT(40) DEF ReadChain
<1>4. CASE CheckHead(p)
  <2>1. CASE disk.head = existing[p]
    BY <1>4, <2>1 DEF CheckHead
  <2>2. CASE disk.head # existing[p]
    BY <1>4, <2>2, ReturnLocals DEF CheckHead
  <2> QED BY <2>1, <2>2
<1>5. CASE LockCore(p)
  BY <1>5, HostStoreAssumption DEF LockCore
<1>6. CASE LeaveCore(p)
  <2>1. CASE op[p] = "transact"
    <3>1. /\ UNCHANGED <<lock, op, level, existing, seen, want>>
          /\ coreLock' = None /\ Goto(p, "ready")
          /\ pc[p] = "inCore" /\ coreLock = p
      BY <1>6, <2>1 DEF LeaveCore
    <3>2. \A q \in Procs \ {p} : coreLock # q
      BY <3>1
    <3> QED BY <2>1, <3>1, <3>2, HostStoreAssumption, SMTT(40)
  <2>2. CASE op[p] # "transact"
    BY <1>6, <2>2, ReturnLocals DEF LeaveCore
  <2> QED BY <2>1, <2>2
<1>7. CASE ExtendCore(p) \/ CallCore(p)
  BY <1>7 DEF ExtendCore, CallCore
<1>8. CASE SealCore(p)
  <2>1. CASE op[p] = "transact"
    <3>1. /\ UNCHANGED <<lock, coreLock, op, level, existing, want>>
          /\ Goto(p, "ready") /\ seen' = [seen EXCEPT ![p] = core]
          /\ pc[p] = "extended"
      BY <1>8, <2>1 DEF SealCore
    <3> QED BY <2>1, <3>1, SMTT(40)
  <2>2. CASE op[p] # "transact"
    BY <1>8, <2>2, ReturnLocals DEF SealCore
  <2> QED BY <2>1, <2>2
<1>9. CASE Commit(p)
  <2>1. PICK v \in Vals :
            want' = [want EXCEPT ![p] = [pred |-> existing[p], val |-> v, core |-> seen[p]]]
    BY <1>9 DEF Commit
  <2>2. [pred |-> existing[p], val |-> v, core |-> seen[p]]
            \in [pred : Chains, val : Vals \cup {None}, core : CoreChains]
    OBVIOUS
  <2>3. /\ want' \in [Procs -> [pred : Chains, val : Vals \cup {None}, core : CoreChains]]
        /\ want'[p].val \in Vals
        /\ \A q \in Procs \ {p} : want'[q] = want[q]
    BY <2>1, <2>2
  <2> QED BY <1>9, <2>3 DEF Commit
<1> QED BY <1>1, <1>2, <1>3, <1>4, <1>5, <1>6, <1>7, <1>8, <1>9

\* Core chains stay core chains, and what is sealed of one stays its prefix.
LEMMA CoreSteps ==
    ASSUME Types, IsPrefix(coreSealed, core), NEW p \in Procs, ProcStep(p)
    PROVE  /\ core' \in CoreChains /\ coreSealed' \in CoreChains
           /\ IsPrefix(coreSealed', core')
           /\ IsPrefix(coreSealed, coreSealed')
<1>0. /\ core \in CoreChains /\ coreSealed \in CoreChains
      /\ IsPrefix(core, core) /\ IsPrefix(coreSealed, coreSealed)
  BY CoreReflexive DEF Types, TypeOK
<1>1. CASE LockCore(p) \/ SealCore(p)
  BY <1>0, <1>1 DEF LockCore, SealCore
<1>2. CASE ExtendCore(p)
  <2>1. PICK v \in Vals : core' = Append(core, v)
    BY <1>2 DEF ExtendCore
  <2>2. core' \in CoreChains /\ IsPrefix(core, core')
    BY <1>0, <1>2, <2>1, CoreAppend DEF ExtendCore
  <2>3. coreSealed' = coreSealed
    BY <1>2 DEF ExtendCore
  <2> QED BY <1>0, <2>2, <2>3, CoreTransitive
<1>3. CASE ~(LockCore(p) \/ SealCore(p) \/ ExtendCore(p))
  <2>1. core' = core /\ coreSealed' = coreSealed
    BY <1>3
       DEF ProcStep, Begin, BeginLoad, BeginCore, BeginWork, CallStep, Acquire, IOError, Kill,
           StatDir, MakeDir, SyncParent, SyncAncestors, ReadChain, RecoverHead, RecoverSync,
           RecoverRemove, RecoverSyncRemoval, CheckHead, CallCore, LeaveCore, Commit, Refuse,
           WritePending, SyncPending, WriteRecord, SyncRecord, WriteHead, SyncHead,
           RemovePending, SyncRemoval, cores
  <2> QED BY <1>0, <2>1
<1> QED BY <1>1, <1>2, <1>3

\* Every step of a process but those on the run's directory leaves its files
\* alone; the last sync of a commit leaves what is visible of them.
LEMMA FilesLeft ==
    ASSUME Types, NEW p \in Procs, ProcStep(p), ~FileSteps(p)
    PROVE  disk' = disk /\ crashable' \subseteq crashable \cup {disk}
BY DEF ProcStep, Begin, BeginLoad, BeginCore, BeginWork, CallStep, Acquire, LockCore, IOError,
       Kill, StatDir, MakeDir, SyncParent, SyncAncestors, ReadChain, CheckHead, CallCore, LeaveCore,
       ExtendCore, SealCore, Commit, Refuse, SyncRemoval, SyncRunDir, FileSteps, files

\* Which steps end a command.
Returning(p) ==
    \/ Refuse(p) \/ SyncRemoval(p) \/ IOError(p) \/ Kill(p)

\* Every step of a process keeps the types.
LEMMA ProcStepTypes ==
    ASSUME Types, IsPrefix(coreSealed, core), NEW p \in Procs, ProcStep(p)
    PROVE  Types'
<1>1. core' \in CoreChains /\ coreSealed' \in CoreChains
  BY CoreSteps
<1>2. LocalsOK'
  <2>1. CASE FileSteps(p)
    BY <2>1, FileStepLocals
  <2>2. CASE Returning(p)
    BY <2>2, ReturnLocals DEF Returning, Refuse, SyncRemoval, IOError, Kill
  <2> QED BY <2>1, <2>2, MakingLocals, WorkLocals DEF ProcStep, Begin, CallStep, FileSteps, Returning
<1>3. disk' \in Dirs /\ crashable' \subseteq Dirs
  <2>1. CASE FileSteps(p)
    <3>1. PICK c \in Chains : FileStep(p, c)
      <4>1. existing[p] \in Chains /\ <<>> \in Chains
        BY EmptyTyped DEF Types, TypeOK
      <4>2. pc[p] \in Committing => NewChain(p) \in Chains
        BY NewChainTyped
      <4>3. WritePending(p) \/ WriteRecord(p) \/ WriteHead(p) => pc[p] \in Committing
        BY DEF WritePending, WriteRecord, WriteHead, Committing
      <4> QED BY <2>1, <4>1, <4>2, <4>3 DEF FileSteps, FileStep
    <3> QED BY <3>1, FileStepWrites, WrittenTyped DEF Types
  <2>2. CASE ~FileSteps(p)
    BY <2>2, FilesLeft DEF Types, TypeOK
  <2> QED BY <2>1, <2>2
<1>4. ordered' \in BOOLEAN /\ path' \in [Levels -> {"absent", "fresh", "durable"}]
  <2> USE DEF Types, TypeOK
  <2>1. CASE MakeDir(p) \/ SyncParent(p) \/ SyncAncestors(p) \/ BeginCore(p)
    BY <2>1 DEF MakeDir, SyncParent, SyncAncestors, BeginCore
  <2>2. CASE ~(MakeDir(p) \/ SyncParent(p) \/ SyncAncestors(p) \/ BeginCore(p))
    <3>1. UNCHANGED <<ordered, path>>
      BY <2>2
         DEF ProcStep, Begin, BeginLoad, BeginWork, CallStep, Acquire, LockCore, IOError, Kill,
             StatDir, ReadChain, RecoverHead, RecoverSync, RecoverRemove, RecoverSyncRemoval,
             CheckHead, CallCore, LeaveCore, ExtendCore, SealCore, Commit, Refuse, WritePending,
             SyncPending, WriteRecord, SyncRecord, WriteHead, SyncHead, RemovePending,
             SyncRemoval, SyncRunDir, Change, files
    <3> QED BY <3>1
  <2> QED BY <2>1, <2>2
<1>5. promised' \in Chains
  <2>1. CASE CheckHead(p)
    BY <2>1 DEF CheckHead, Report, Longer, Types, TypeOK
  <2>2. CASE SyncRemoval(p)
    <3>1. NewChain(p) \in Chains
      BY <2>2, NewChainTyped DEF SyncRemoval, Committing
    <3> QED BY <2>2, <3>1 DEF SyncRemoval, Report, Longer, Types, TypeOK
  <2>3. CASE ~(CheckHead(p) \/ SyncRemoval(p))
    <3>1. promised' = promised
      BY <2>3
         DEF ProcStep, Begin, BeginLoad, BeginCore, BeginWork, CallStep, Acquire, LockCore,
             IOError, Kill, StatDir, MakeDir, SyncParent, SyncAncestors, ReadChain, RecoverHead,
             RecoverSync, RecoverRemove, RecoverSyncRemoval, CallCore, LeaveCore, ExtendCore,
             SealCore, Commit, Refuse, WritePending, SyncPending, WriteRecord, SyncRecord, WriteHead,
             SyncHead, RemovePending
    <3> QED BY <3>1 DEF Types, TypeOK
  <2> QED BY <2>1, <2>2, <2>3
<1> QED BY <1>1, <1>2, <1>3, <1>4, <1>5 DEF Types, TypeOK, LocalsOK

\* After a machine crash no command is running and no lock is held.
LEMMA CrashTyped ==
    ASSUME Types, MachineCrash, core' \in CoreChains, coreSealed' \in CoreChains
    PROVE  Types'
<1>1. /\ pc' = [p \in Procs |-> "idle"] /\ op' = [p \in Procs |-> "hold"]
      /\ level' = [p \in Procs |-> 1] /\ existing' = [p \in Procs |-> <<>>]
      /\ seen' = [p \in Procs |-> <<>>] /\ want' = [p \in Procs |-> NoRecord]
      /\ lock' = None /\ coreLock' = None /\ ordered' = ordered /\ promised' = promised
      /\ crashable' = {disk'}
  BY DEF MachineCrash
<1>2. NoFiles \in Dirs
  BY EmptyTyped DEF NoFiles, Dirs
<1>3. disk' \in Dirs
  BY <1>2 DEF MachineCrash, Types, TypeOK
<1>4. path' \in [Levels -> {"absent", "fresh", "durable"}]
  BY DEF MachineCrash, Types, TypeOK
<1>5. \A p \in Procs : Shape(p)'
  BY <1>1 DEF Shape, Committing
<1>6. existing' \in [Procs -> Chains] /\ seen' \in [Procs -> CoreChains]
      /\ want' \in [Procs -> [pred : Chains, val : Vals \cup {None}, core : CoreChains]]
  BY <1>1, EmptyTyped, EmptyCore
<1>7. /\ pc' \in [Procs -> PCs] /\ op' \in [Procs -> {"hold", "transact", "core"}]
      /\ level' \in [Procs -> Levels]
      /\ \A p \in Procs : pc'[p] \notin Holding \cup {"inCore", "extended"}
  BY <1>1 DEF PCs, Levels, Holding, Reading, Working, Committing
<1> QED BY <1>1, <1>3, <1>4, <1>5, <1>6, <1>7 DEF Types, TypeOK

\* The machine's crash keeps the types, and what was sealed of the core chain
\* unless the store root itself is lost.
LEMMA CrashTypes ==
    ASSUME Types, IsPrefix(coreSealed, core), MachineCrash
    PROVE  /\ Types' /\ IsPrefix(coreSealed', core')
           /\ disk' = NoFiles \/ (disk' \in crashable /\ coreSealed' = coreSealed)
<1>1. PICK n \in Len(coreSealed)..Len(core) :
          \/ /\ disk' \in crashable
             /\ core' = SubSeq(core, 1, n)
             /\ UNCHANGED path
          \/ \E l \in Levels :
                /\ path[l] = "fresh"
                /\ path' = [k \in Levels |-> IF k < l THEN path[k] ELSE "absent"]
                /\ disk' = NoFiles
                /\ core' = IF l \in {1, 2} THEN <<>> ELSE SubSeq(core, 1, n)
  BY DEF MachineCrash
<1>2. /\ SubSeq(core, 1, n) \in CoreChains
      /\ IsPrefix(coreSealed, SubSeq(core, 1, n))
      /\ Len(SubSeq(core, 1, n)) = n /\ Len(coreSealed) \in Nat /\ n >= Len(coreSealed)
  <2>1. core \in CoreChains /\ coreSealed \in CoreChains
    BY DEF Types, TypeOK
  <2>2. Len(coreSealed) \in Nat /\ Len(core) \in Nat
    BY <2>1, CoreChainSeq
  <2> QED BY <2>1, <2>2, CoreCut
<1>3. CASE core' = SubSeq(core, 1, n)
  <2>1. coreSealed' = coreSealed
    BY <1>2, <1>3 DEF MachineCrash
  <2>2. core' \in CoreChains /\ coreSealed' \in CoreChains /\ IsPrefix(coreSealed', core')
    BY <1>2, <1>3, <2>1 DEF Types, TypeOK
  <2>3. disk' = NoFiles \/ disk' \in crashable
    BY <1>1
  <2> QED BY <2>1, <2>2, <2>3, CrashTyped
<1>4. CASE core' # SubSeq(core, 1, n)
  <2>1. core' = <<>> /\ disk' = NoFiles
    BY <1>1, <1>4
  <2>2. coreSealed' \in CoreChains /\ IsPrefix(coreSealed', core')
    <3>1. Len(core') = 0
      BY <2>1
    <3>2. CASE Len(coreSealed) = 0
      <4>1. coreSealed = <<>>
        BY <3>2, CoreChainSeq DEF Types, TypeOK
      <4> QED BY <4>1, <2>1, <3>1, EmptyCore DEF MachineCrash
    <3>3. CASE Len(coreSealed) # 0
      <4>1. coreSealed' = core'
        BY <1>2, <3>1, <3>3 DEF MachineCrash
      <4> QED BY <4>1, <2>1, EmptyCore
    <3> QED BY <3>2, <3>3
  <2> QED BY <1>1, <2>1, <2>2, EmptyCore, CrashTyped
<1> QED BY <1>3, <1>4

-----------------------------------------------------------------------------
(* What host records say of the core chain.                                *)

\* A chain that names prefixes of a core chain names prefixes of its extensions.
LEMMA NamedExtended ==
    ASSUME NEW c \in Chains, NEW s \in CoreChains, NEW t \in CoreChains,
           Named(c, s), IsPrefix(s, t)
    PROVE  Named(c, t)
<1>1. \A i \in DOMAIN c : c[i].core \in CoreChains
  <2>1. \A i \in DOMAIN c : c[i] \in Records
    BY DEF Chains
  <2> QED BY <2>1 DEF Records
<1>2. \A i \in DOMAIN c : IsPrefix(c[i].core, t)
  BY <1>1, CoreTransitive DEF Named
<1> QED BY <1>2 DEF Named

\* A directory likewise.
LEMMA NamedDirExtended ==
    ASSUME NEW d \in Dirs, NEW s \in CoreChains, NEW t \in CoreChains,
           NamedDir(d, s), IsPrefix(s, t)
    PROVE  NamedDir(d, t)
<1>1. d.head \in Chains /\ d.pending \in Chains /\ \A n \in 1..MaxLen : d.rec[n] \in Chains
  BY DEF Dirs
<1> QED BY <1>1, NamedExtended DEF NamedDir

\* The empty chain names nothing.
LEMMA NamedEmpty == \A s : Named(<<>>, s)
BY DEF Named

\* The chain of a directory whose files name the core does too.
LEMMA NamedChainOf ==
    ASSUME NEW d \in Dirs, NEW s, NamedDir(d, s)
    PROVE  Named(ChainOf(d), s)
BY ChainOfFiles, NamedEmpty DEF NamedDir

\* A record that names the core head seen continues a chain that names only
\* heads before it.
LEMMA NamedAppend ==
    ASSUME NEW c \in Chains, NEW v, NEW k \in CoreChains, NEW s,
           Named(c, s), IsPrefix(k, s), \A i \in DOMAIN c : IsPrefix(c[i].core, k)
    PROVE  Named(Append(c, [val |-> v, core |-> k]), s)
<1> DEFINE r == [val |-> v, core |-> k]
           e == Append(c, r)
<1>1. /\ c \in Seq(Records) /\ Len(c) \in Nat /\ DOMAIN c = 1..Len(c)
      /\ DOMAIN e = 1..(Len(c) + 1)
      /\ \A i \in 1..Len(c) : e[i] = c[i]
      /\ e[Len(c) + 1] = r
  BY DEF Chains
<1>2. r.core = k
  OBVIOUS
<1> SUFFICES ASSUME NEW i \in 1..(Len(c) + 1)
             PROVE  /\ IsPrefix(e[i].core, s)
                    /\ \A j \in 1..(i - 1) : IsPrefix(e[j].core, e[i].core)
  BY <1>1 DEF Named
<1> HIDE DEF r, e
<1>3. CASE i = Len(c) + 1
  BY <1>1, <1>2, <1>3
<1>4. CASE i # Len(c) + 1
  <2>1. i \in 1..Len(c) /\ \A j \in 1..(i - 1) : j \in 1..Len(c)
    BY <1>1, <1>4
  <2> QED BY <1>1, <2>1 DEF Named
<1> QED BY <1>3, <1>4

\* A process that a step leaves alone still knows what it knew.
LEMMA OthersKnow ==
    ASSUME Types, Types', NEW q \in Procs, Knows(q), IsPrefix(coreSealed, coreSealed'),
           pc'[q] = pc[q], existing'[q] = existing[q], seen'[q] = seen[q], want'[q] = want[q]
    PROVE  Knows(q)'
<1>1. /\ existing[q] \in Chains /\ seen[q] \in CoreChains
      /\ coreSealed \in CoreChains /\ coreSealed' \in CoreChains
  BY DEF Types, TypeOK
<1>2. Named(existing[q], coreSealed')
  BY <1>1, NamedExtended DEF Knows
<1>3. pc[q] \in {"inCore", "extended", "ready"} => IsPrefix(seen[q], coreSealed')
  BY <1>1, CoreTransitive DEF Knows
<1>4. pc[q] \in Committing => Named(NewChain(q), coreSealed')
  BY <1>1, NewChainTyped, NamedExtended DEF Knows
<1>5. NewChain(q)' = NewChain(q)
  BY DEF NewChain
<1> QED BY <1>2, <1>3, <1>4, <1>5 DEF Knows

\* A command that has returned knows nothing.
LEMMA ReturnedKnows ==
    ASSUME Types, NEW p \in Procs, Return(p)
    PROVE  Knows(p)'
<1>1. pc'[p] = "idle" /\ existing'[p] = <<>>
  BY DEF Types, TypeOK, Return, Goto
<1> QED BY <1>1, NamedEmpty DEF Knows, Committing

\* What the process that takes the step knows afterwards.
LEMMA ActorKnows ==
    ASSUME IInv, Types', NEW p \in Procs, ProcStep(p), IsPrefix(coreSealed, coreSealed'),
           IsPrefix(coreSealed', core')
    PROVE  Knows(p)'
<1>0. /\ existing[p] \in Chains /\ seen[p] \in CoreChains /\ core \in CoreChains
      /\ coreSealed \in CoreChains /\ coreSealed' \in CoreChains /\ Knows(p)
      /\ existing' \in [Procs -> Chains]
  BY DEF IInv, NInv, Types, TypeOK
<1>1. CASE \/ Begin(p) \/ StatDir(p) \/ MakeDir(p) \/ SyncParent(p) \/ SyncAncestors(p)
           \/ Acquire(p)
  <2>1. existing'[p] = existing[p] /\ coreSealed' = coreSealed
        /\ pc'[p] \notin {"inCore", "extended", "ready"} \cup Committing
    BY <1>1
       DEF Begin, BeginLoad, BeginCore, BeginWork, StatDir, MakeDir, SyncParent,
           SyncAncestors, Acquire, Goto, IInv, Types, TypeOK, Committing, cores, locals
  <2> QED BY <1>0, <2>1 DEF Knows
<1>2. CASE Returning(p)
  BY <1>2, ReturnedKnows DEF Returning, Refuse, SyncRemoval, IOError, Kill, IInv
<1>3. CASE ReadChain(p)
  <2>1. CASE Linked(disk)
    <3>1. existing'[p] = ChainOf(disk) /\ coreSealed' = coreSealed
          /\ pc'[p] \in {"check", "recHead", "recRemove"}
      BY <1>3, <2>1 DEF ReadChain, AfterRead, Goto, IInv, Types, TypeOK
    <3>2. Named(ChainOf(disk), coreSealed)
      BY NamedChainOf DEF IInv, NInv, Types, TypeOK
    <3> QED BY <3>1, <3>2 DEF Knows, Committing
  <2>2. CASE ~Linked(disk)
    BY <1>3, <2>2, ReturnedKnows DEF ReadChain, IInv
  <2> QED BY <2>1, <2>2
<1>4. CASE FileSteps(p)
  <2>1. UNCHANGED <<cores, locals>>
    BY <1>4
       DEF FileSteps, RecoverHead, RecoverSync, RecoverRemove, RecoverSyncRemoval,
           WritePending, SyncPending, WriteRecord, SyncRecord, WriteHead, SyncHead,
           RemovePending
  <2>2. pc'[p] \notin {"inCore", "extended", "ready"}
        /\ (pc'[p] \in Committing => pc[p] \in Committing)
    BY <1>4
       DEF FileSteps, RecoverHead, RecoverSync, RecoverRemove, RecoverSyncRemoval,
           WritePending, SyncPending, WriteRecord, SyncRecord, WriteHead, SyncHead,
           RemovePending, Goto, IInv, Types, TypeOK, Committing
  <2> QED BY <1>0, <2>1, <2>2 DEF Knows, NewChain, cores, locals
<1>5. CASE CheckHead(p)
  <2>1. CASE disk.head = existing[p]
    <3>1. existing'[p] = existing[p] /\ coreSealed' = coreSealed /\ pc'[p] = "inTx"
      BY <1>5, <2>1 DEF CheckHead, Goto, IInv, Types, TypeOK, locals
    <3> QED BY <1>0, <3>1 DEF Knows, Committing
  <2>2. CASE disk.head # existing[p]
    BY <1>5, <2>2, ReturnedKnows DEF CheckHead, IInv
  <2> QED BY <2>1, <2>2
<1>6. CASE LockCore(p)
  <2>1. /\ existing'[p] = existing[p] /\ seen'[p] = core /\ coreSealed' = core
        /\ pc'[p] = "inCore"
    BY <1>6 DEF LockCore, Goto, IInv, Types, TypeOK
  <2>2. Named(existing[p], core)
    BY <1>0, <2>1, NamedExtended DEF Knows
  <2> QED BY <1>0, <2>1, <2>2, CoreReflexive DEF Knows, Named, Committing
<1>7. CASE LeaveCore(p)
  <2>1. CASE op[p] = "transact"
    <3>1. /\ existing'[p] = existing[p] /\ seen'[p] = seen[p] /\ coreSealed' = coreSealed
          /\ pc[p] = "inCore" /\ pc'[p] = "ready"
      BY <1>7, <2>1 DEF LeaveCore, Goto, IInv, Types, TypeOK, locals
    <3> QED BY <1>0, <3>1 DEF Knows, Committing
  <2>2. CASE op[p] # "transact"
    BY <1>7, <2>2, ReturnedKnows DEF LeaveCore, IInv
  <2> QED BY <2>1, <2>2
<1>8. CASE ExtendCore(p) \/ CallCore(p)
  <2>1. /\ existing'[p] = existing[p] /\ seen'[p] = seen[p] /\ coreSealed' = coreSealed
        /\ \/ pc[p] = "inCore" /\ pc'[p] = "extended"
           \/ pc'[p] = "wantCore"
    BY <1>8 DEF ExtendCore, CallCore, Goto, cores, IInv, Types, TypeOK, locals
  <2> QED BY <1>0, <2>1 DEF Knows, Committing
<1>9. CASE SealCore(p)
  <2>1. CASE op[p] = "transact"
    <3>1. /\ existing'[p] = existing[p] /\ seen'[p] = core /\ coreSealed' = core
          /\ pc'[p] = "ready"
      BY <1>9, <2>1 DEF SealCore, Goto, IInv, Types, TypeOK
    <3>2. Named(existing[p], core)
      BY <1>0, <3>1, NamedExtended DEF Knows
    <3> QED BY <1>0, <3>1, <3>2, CoreReflexive DEF Knows, Named, Committing
  <2>2. CASE op[p] # "transact"
    BY <1>9, <2>2, ReturnedKnows DEF SealCore, IInv
  <2> QED BY <2>1, <2>2
<1>10. CASE Commit(p)
  <2>1. PICK v \in Vals :
            want' = [want EXCEPT ![p] = [pred |-> existing[p], val |-> v, core |-> seen[p]]]
    BY <1>10 DEF Commit
  <2>2. /\ existing'[p] = existing[p] /\ coreSealed' = coreSealed /\ pc'[p] = "wPending"
        /\ pc[p] = "ready"
        /\ want'[p] = [pred |-> existing[p], val |-> v, core |-> seen[p]]
    BY <1>10, <2>1 DEF Commit, Goto, IInv, Types, TypeOK, cores
  <2>3. Named(Append(existing[p], [val |-> v, core |-> seen[p]]), coreSealed)
    BY <1>0, <2>2, NamedAppend DEF Knows
  <2>4. NewChain(p)' = Append(existing[p], [val |-> v, core |-> seen[p]])
    BY <2>2 DEF NewChain
  <2> QED BY <1>0, <2>2, <2>3, <2>4 DEF Knows
<1> QED
  BY <1>1, <1>2, <1>3, <1>4, <1>5, <1>6, <1>7, <1>8, <1>9, <1>10
     DEF ProcStep, CallStep, FileSteps, Returning

\* Every step of a process keeps what the host records say of the core chain.
LEMMA ProcStepInv ==
    ASSUME IInv, NEW p \in Procs, ProcStep(p)
    PROVE  IInv'
<1>1. Types' /\ IsPrefix(coreSealed', core') /\ IsPrefix(coreSealed, coreSealed')
  BY ProcStepTypes, CoreSteps DEF IInv, NInv
<1>2. \A d \in crashable' \cup {disk'} : NamedDir(d, coreSealed)
  <2>1. CASE FileSteps(p)
    <3>1. PICK c : FileStep(p, c) /\ Named(c, coreSealed)
      <4>1. WritePending(p) \/ WriteRecord(p) \/ WriteHead(p)
                => Named(NewChain(p), coreSealed)
        BY DEF WritePending, WriteRecord, WriteHead, Committing, IInv, NInv, Knows
      <4>2. Named(existing[p], coreSealed)
        BY DEF IInv, NInv, Knows
      <4> QED BY <2>1, <4>1, <4>2, NamedEmpty DEF FileSteps, FileStep
    <3> QED BY <3>1, FileStepWrites, WrittenNamed DEF IInv, NInv, Types
  <2>2. CASE ~FileSteps(p)
    <3>1. disk' = disk /\ crashable' \subseteq crashable \cup {disk}
      BY <2>2, FilesLeft DEF IInv
    <3> QED BY <3>1 DEF IInv, NInv
  <2> QED BY <2>1, <2>2
<1>3. \A d \in crashable' \cup {disk'} : NamedDir(d, coreSealed')
  <2>1. \A d \in crashable' \cup {disk'} : d \in Dirs
    BY <1>1 DEF Types, TypeOK
  <2>2. coreSealed \in CoreChains /\ coreSealed' \in CoreChains
    BY <1>1 DEF IInv, Types, TypeOK
  <2> QED BY <1>1, <1>2, <2>1, <2>2, NamedDirExtended
<1>4. ASSUME NEW q \in Procs \ {p} PROVE Knows(q)'
  <2>1. pc'[q] = pc[q] /\ existing'[q] = existing[q] /\ seen'[q] = seen[q] /\ want'[q] = want[q]
    <3> USE DEF IInv, Types, TypeOK, Goto, locals
    <3>1. CASE Begin(p) \/ Acquire(p) \/ LockCore(p) \/ IOError(p) \/ Kill(p)
      BY <3>1 DEF Begin, BeginLoad, BeginCore, BeginWork, Acquire, LockCore, IOError, Kill, Return
    <3>2. CASE \/ StatDir(p) \/ MakeDir(p) \/ SyncParent(p) \/ SyncAncestors(p) \/ ReadChain(p)
               \/ CheckHead(p) \/ CallCore(p) \/ LeaveCore(p) \/ ExtendCore(p)
               \/ SealCore(p) \/ Commit(p) \/ Refuse(p) \/ SyncRemoval(p)
      BY <3>2 DEF StatDir, MakeDir, SyncParent, SyncAncestors, ReadChain, CheckHead,
                  CallCore, LeaveCore, ExtendCore, SealCore, Commit, Refuse, SyncRemoval,
                  Return
    <3>3. CASE FileSteps(p)
      BY <3>3 DEF FileSteps, RecoverHead, RecoverSync, RecoverRemove, RecoverSyncRemoval,
                  WritePending, SyncPending, WriteRecord, SyncRecord, WriteHead, SyncHead,
                  RemovePending
    <3> QED BY <3>1, <3>2, <3>3 DEF ProcStep, CallStep, FileSteps
  <2>2. Types /\ Knows(q)
    BY DEF IInv, NInv
  <2> QED BY <1>1, <2>1, <2>2, OthersKnow
<1>5. Knows(p)'
  BY <1>1, ActorKnows
<1> QED BY <1>1, <1>3, <1>4, <1>5 DEF IInv, NInv

\* A machine crash leaves files that name what is left of the core chain.
LEMMA CrashInv ==
    ASSUME IInv, MachineCrash
    PROVE  IInv'
<1>1. /\ Types' /\ IsPrefix(coreSealed', core')
      /\ disk' = NoFiles \/ (disk' \in crashable /\ coreSealed' = coreSealed)
  BY CrashTypes DEF IInv, NInv
<1>2. crashable' = {disk'} /\ pc' = [p \in Procs |-> "idle"] /\ existing' = [p \in Procs |-> <<>>]
  BY DEF MachineCrash
<1>3. NamedDir(disk', coreSealed')
  <2>1. CASE disk' = NoFiles
    BY <2>1, NamedEmpty DEF NamedDir, NoFiles
  <2>2. CASE disk' \in crashable /\ coreSealed' = coreSealed
    BY <2>2 DEF IInv, NInv
  <2> QED BY <1>1, <2>1, <2>2
<1>4. \A p \in Procs : Knows(p)'
  BY <1>2, NamedEmpty DEF Knows, Committing
<1> QED BY <1>1, <1>2, <1>3, <1>4 DEF IInv, NInv

\* Both chains start empty.
LEMMA InitInv == Init => IInv
<1> SUFFICES ASSUME Init PROVE IInv
  OBVIOUS
<1>1. NoFiles \in Dirs /\ NamedDir(NoFiles, <<>>)
  BY EmptyTyped, NamedEmpty DEF NoFiles, Dirs, NamedDir
<1>2. TypeOK
  BY <1>1, EmptyTyped, EmptyCore
     DEF Init, TypeOK, PCs, Holding, Reading, Working, Committing, Levels
<1>3. \A p \in Procs : Shape(p) /\ Knows(p)
  BY NamedEmpty DEF Init, Shape, Knows, Committing
<1> QED BY <1>1, <1>2, <1>3, EmptyCore DEF Init, IInv, NInv, Types

\* Nothing changes while nobody takes a step.
LEMMA StutterInv ==
    ASSUME IInv, UNCHANGED vars
    PROVE  IInv'
BY SMTT(40)
   DEF IInv, NInv, Types, TypeOK, Shape, Knows, Named, NamedDir, NewChain, vars, files, cores,
        locals

\* In every behaviour of the host store the files a crash can leave name
\* sealed core records only.
THEOREM InvariantHolds == Spec => []IInv
<1>1. IInv /\ [Next]_vars => IInv'
  BY ProcStepInv, CrashInv, StutterInv DEF Next, ProcStep
<1> QED BY InitInv, <1>1, PTL DEF Spec

\* The host store's variables keep their types, and whoever is inside the host
\* run lock or the core run lock holds it.
THEOREM TypesHold == Spec => []TypeOK
<1>1. IInv => TypeOK
  BY DEF IInv, Types
<1> QED BY InvariantHolds, <1>1, PTL

\* No committed host record outlives the core record it names, and later
\* records name later core heads, whatever a machine crash leaves of the two
\* stores.
THEOREM HostNamesCoreHolds == Spec => []HostNamesCore
<1>1. IInv => HostNamesCore
  <2> SUFFICES ASSUME IInv, NEW d \in crashable PROVE Named(ChainOf(d), coreSealed)
    BY DEF HostNamesCore, Named
  <2>1. d \in Dirs /\ NamedDir(d, coreSealed)
    BY DEF IInv, NInv, Types, TypeOK
  <2> QED BY <2>1, NamedChainOf
<1> QED BY InvariantHolds, <1>1, PTL
-----------------------------------------------------------------------------
(* What a crash leaves can be read and lacks nothing that was reported     *)
(* (CrashSafe), and the files implement RunLog.                            *)
(*                                                                         *)
(* The argument follows the commit.  The record files of any directory a   *)
(* crash could leave are those on disk (Settled), or those without the     *)
(* last record; in the second case the pending anchor names the chain on   *)
(* disk, so the next load syncs it before it is reported.  Which of the    *)
(* two holds where, and what the head anchor names, is PhaseOK and HeadOK  *)
(* of the process inside the run lock.                                     *)

\* No machine crash can change the record files.
Settled == \A d \in crashable : d.rec = disk.rec

\* Record files that are not synced are named by the pending anchor.
PendingNamesUnsettled ==
    \/ Settled
    \/ disk.pending # <<>> /\ disk.pending = ChainOf(disk)

\* Every directory on the way to the run's survives a crash.
AllDurable == \A l \in Levels : path[l] = "durable"

\* Process p works inside the host run lock.
Under(p) == pc[p] \in Holding /\ op[p] # "core"

\* Where the chain that was read is still the chain on disk.
ReadStillHolds ==
    {"recHead", "recSync", "recRemove", "recSyncRemoval", "check", "wPending",
     "sPending", "wRecord"} \cup Working

\* What process p, holding the lock, knows of the files at each point.
PhaseOK(p) ==
    /\ pc[p] \in ReadStillHolds => existing[p] = ChainOf(disk)
    /\ pc[p] \in {"recHead", "recSync"}
          => disk.pending # <<>> /\ disk.pending = ChainOf(disk)
    /\ pc[p] = "recRemove" => disk.pending # <<>>
    /\ pc[p] \notin {"read", "recHead", "recSync", "sRecord"} => Settled
    /\ pc[p] \in Committing
          => /\ want[p].pred = existing[p]
             /\ Len(existing[p]) < MaxLen
             /\ op[p] = "transact"
    /\ pc[p] \in {"sPending", "wRecord", "sRecord"} => disk.pending = NewChain(p)
    /\ pc[p] \in {"sRecord", "wHead", "sHead", "rmPending", "sRemoval"}
          => ChainOf(disk) = NewChain(p)

\* What it knows of the head anchor.
HeadOK(p) ==
    /\ pc[p] \in {"recSync", "wPending", "sPending", "wRecord", "sHead", "rmPending",
                  "sRemoval"} \cup Working
          => disk.head = ChainOf(disk)
    /\ pc[p] = "recSyncRemoval" /\ ordered => disk.head = ChainOf(disk)
    /\ pc[p] = "recRemove" /\ disk.pending = ChainOf(disk) => disk.head = ChainOf(disk)

\* A load of directory d finds the head anchor on the chain's tail.
HeadAgrees(d) ==
    (d.pending = <<>> \/ d.pending # ChainOf(d)) => d.head = ChainOf(d)

\* What a crash could leave is readable and misses only what is on disk.
DirOK(d) ==
    /\ Linked(d)
    /\ IsPrefix(ChainOf(d), ChainOf(disk))
    /\ ordered => HeadAgrees(d)

FilesOK ==
    /\ disk \in crashable
    /\ \A d \in crashable : DirOK(d)
    /\ PendingNamesUnsettled
    /\ AllDurable \/ crashable = {NoFiles}

ProcOK(p) ==
    /\ Under(p) => PhaseOK(p) /\ HeadOK(p)
    /\ op[p] = "transact" /\ pc[p] \in {"lock"} \cup Holding => AllDurable
    /\ pc[p] \in Reading \cup Committing \cup {"inTx", "ready"} => op[p] # "core"

CrashSafeInv ==
    /\ FilesOK
    /\ \A p \in Procs : ProcOK(p)
    /\ Durable

-----------------------------------------------------------------------------
(* Prefixes of chains.                                                     *)

\* A chain extends itself, and a chain with one more record extends it.
LEMMA PrefixAppend ==
    ASSUME NEW c \in Chains, NEW r \in Records
    PROVE  /\ IsPrefix(c, c)
           /\ Append(c, r) \in Chains
           /\ Append(c, r) # <<>>
           /\ Len(Append(c, r)) = Len(c) + 1
           /\ IsPrefix(c, Append(c, r))
BY DEF IsPrefix, Chains

\* The empty chain is a part of every chain.
LEMMA EmptyPrefix == ASSUME NEW c \in Chains PROVE IsPrefix(<<>>, c)
BY DEF IsPrefix, Chains

\* A chain that extends an extension of another extends that one too.
LEMMA PrefixTransitive ==
    ASSUME NEW c \in Chains, NEW d \in Chains, NEW e \in Chains,
           IsPrefix(c, d), IsPrefix(d, e)
    PROVE  IsPrefix(c, e)
<1>1. Len(c) <= Len(d) /\ Len(d) <= Len(e)
  BY DEF IsPrefix, Chains
<1>2. \A i \in 1..Len(c) : c[i] = d[i]
  <2>1. SubSeq(c, 1, Len(c)) = SubSeq(d, 1, Len(c))
    BY DEF IsPrefix
  <2>2. \A i \in 1..Len(c) : SubSeq(c, 1, Len(c))[i] = c[i]
                             /\ SubSeq(d, 1, Len(c))[i] = d[i]
    BY <1>1 DEF Chains
  <2> QED BY <2>1, <2>2
<1>3. \A i \in 1..Len(d) : d[i] = e[i]
  <2>1. SubSeq(d, 1, Len(d)) = SubSeq(e, 1, Len(d))
    BY DEF IsPrefix
  <2>2. \A i \in 1..Len(d) : SubSeq(d, 1, Len(d))[i] = d[i]
                             /\ SubSeq(e, 1, Len(d))[i] = e[i]
    BY <1>1 DEF Chains
  <2> QED BY <2>1, <2>2
<1>4. SubSeq(c, 1, Len(c)) = SubSeq(e, 1, Len(c))
  <2>1. \A i \in 1..Len(c) : c[i] = e[i]
    BY <1>1, <1>2, <1>3 DEF Chains
  <2> QED BY <1>1, <2>1 DEF Chains
<1> QED BY <1>1, <1>4 DEF IsPrefix, Chains

\* Reporting a chain that extends all that was promised promises it.
LEMMA LongerIsWhole ==
    ASSUME NEW c \in Chains, NEW s \in Chains, IsPrefix(s, c)
    PROVE  Longer(c, s) = c
<1>1. Len(c) \in Nat /\ Len(s) \in Nat /\ Len(s) <= Len(c)
  BY DEF Chains, IsPrefix
<1>2. CASE Len(c) > Len(s)
  BY <1>2 DEF Longer
<1>3. CASE Len(c) = Len(s)
  <2>1. s = SubSeq(s, 1, Len(s)) /\ c = SubSeq(c, 1, Len(c))
    BY DEF Chains
  <2>2. SubSeq(s, 1, Len(s)) = SubSeq(c, 1, Len(s))
    BY DEF IsPrefix
  <2> QED BY <1>3, <2>1, <2>2 DEF Longer
<1> QED BY <1>1, <1>2, <1>3

-----------------------------------------------------------------------------
(* Record files.                                                           *)

\* Record files without a gap hold a chain as long as there are files, and
\* the last of them is its anchor.
LEMMA LinkedChain ==
    ASSUME NEW d \in Dirs, Linked(d)
    PROVE  /\ ChainOf(d) \in Chains
           /\ Len(ChainOf(d)) \in 0..MaxLen
           /\ \A i \in 1..MaxLen : d.rec[i] # <<>> <=> i <= Len(ChainOf(d))
           /\ ChainOf(d) # <<>> => /\ Len(ChainOf(d)) \in 1..MaxLen
                                  /\ ChainOf(d) = d.rec[Len(ChainOf(d))]
<1> DEFINE present == {i \in 1..MaxLen : d.rec[i] # <<>>}
<1>1. PICK n \in 0..MaxLen : /\ \A i \in 1..MaxLen : d.rec[i] # <<>> <=> i <= n
                             /\ \A i \in 1..n : Len(d.rec[i]) = i
  BY DEF Linked
<1>2. MaxLen \in Nat /\ n \in Nat /\ n <= MaxLen
  BY HostStoreAssumption
<1>3. ChainOf(d) \in Chains
  BY ChainOfFiles
<1>4. CASE n = 0
  <2>1. present = {}
    BY <1>1, <1>2, <1>4
  <2>2. ChainOf(d) = <<>>
    BY <2>1 DEF ChainOf
  <2> QED BY <1>1, <1>2, <1>3, <1>4, <2>2
<1>5. CASE n # 0
  <2>1. n \in present /\ \A j \in present : j <= n
    BY <1>1, <1>2, <1>5
  <2>2. \A i \in present : (\A j \in present : j <= i) => i = n
    BY <1>2, <2>1
  <2>3. (CHOOSE i \in present : \A j \in present : j <= i) = n
    <3> HIDE DEF present
    <3> QED BY <2>1, <2>2
  <2>4. ChainOf(d) = d.rec[n]
    BY <2>1, <2>3 DEF ChainOf
  <2>5. n \in 1..MaxLen /\ Len(ChainOf(d)) = n
    BY <1>1, <1>2, <1>5, <2>4
  <2> QED BY <1>1, <1>2, <1>3, <2>4, <2>5
<1> QED BY <1>4, <1>5

\* Whether a directory is linked, and its chain, is a matter of its records.
LEMMA SameRecords ==
    ASSUME NEW d, NEW e, d.rec = e.rec
    PROVE  (Linked(d) <=> Linked(e)) /\ ChainOf(d) = ChainOf(e)
BY DEF Linked, ChainOf

\* A record linked under the next number extends the chain by it.
LEMMA LinkedExtend ==
    ASSUME NEW d \in Dirs, NEW e \in Dirs, NEW r \in Records, Linked(d),
           Len(ChainOf(d)) < MaxLen,
           e.rec = [d.rec EXCEPT ![Len(ChainOf(d)) + 1] = Append(ChainOf(d), r)]
    PROVE  Linked(e) /\ ChainOf(e) = Append(ChainOf(d), r)
<1> DEFINE c == Append(ChainOf(d), r)
           m == Len(ChainOf(d)) + 1
<1>1. PICK n \in 0..MaxLen : /\ \A i \in 1..MaxLen : d.rec[i] # <<>> <=> i <= n
                             /\ \A i \in 1..n : Len(d.rec[i]) = i
                             /\ \A i \in 1..(n - 1) : IsPrefix(d.rec[i], d.rec[i + 1])
  BY DEF Linked
<1>2. /\ MaxLen \in Nat /\ Len(ChainOf(d)) \in 0..MaxLen /\ m \in 1..MaxLen
      /\ ChainOf(d) \in Chains
      /\ \A i \in 1..MaxLen : d.rec[i] # <<>> <=> i <= Len(ChainOf(d))
      /\ m # 1 => ChainOf(d) = d.rec[m - 1]
  <2>1. ChainOf(d) \in Chains /\ Len(ChainOf(d)) \in Nat
    BY LinkedChain, HostStoreAssumption
  <2>2. Len(ChainOf(d)) # 0 => ChainOf(d) # <<>>
    BY <2>1
  <2> QED BY <2>1, <2>2, LinkedChain, HostStoreAssumption
<1>3. n = m - 1
  <2>1. n <= m - 1
    BY <1>1, <1>2
  <2>2. m - 1 <= n
    BY <1>1, <1>2
  <2> QED BY <1>2, <2>1, <2>2
<1>4. /\ c \in Chains /\ c # <<>> /\ Len(c) = m /\ IsPrefix(ChainOf(d), c)
  BY <1>2, PrefixAppend
<1>5. d.rec \in [1..MaxLen -> Chains]
  BY DEF Dirs
<1>6. e.rec[m] = c /\ \A i \in 1..MaxLen : i # m => e.rec[i] = d.rec[i]
  BY <1>2, <1>5
<1> HIDE DEF c, m
<1>7. \A i \in 1..MaxLen : e.rec[i] # <<>> <=> i <= m
  BY <1>1, <1>2, <1>3, <1>4, <1>6
<1>8. \A i \in 1..m : Len(e.rec[i]) = i
  BY <1>1, <1>2, <1>3, <1>4, <1>6
<1>9. \A i \in 1..(m - 1) : IsPrefix(e.rec[i], e.rec[i + 1])
  <2> TAKE i \in 1..(m - 1)
  <2>1. CASE i = m - 1
    <3>1. i \in 1..MaxLen /\ i # m /\ i + 1 = m /\ m # 1
      BY <1>2, <2>1
    <3>2. e.rec[i] = ChainOf(d)
      BY <1>2, <1>6, <2>1, <3>1
    <3> QED BY <1>4, <1>6, <3>1, <3>2
  <2>2. CASE i # m - 1
    <3>1. i \in 1..(n - 1) /\ i \in 1..MaxLen /\ i + 1 \in 1..MaxLen /\ i # m /\ i + 1 # m
      BY <1>2, <1>3, <2>2
    <3> QED BY <1>1, <1>6, <3>1
  <2> QED BY <2>1, <2>2
<1>10. Linked(e)
  <2>1. m \in 0..MaxLen
    BY <1>2
  <2> QED BY <1>7, <1>8, <1>9, <2>1 DEF Linked
<1>11. ChainOf(e) = c
  <2>1. /\ ChainOf(e) \in Chains /\ Len(ChainOf(e)) \in 0..MaxLen
        /\ \A i \in 1..MaxLen : e.rec[i] # <<>> <=> i <= Len(ChainOf(e))
        /\ ChainOf(e) # <<>> => ChainOf(e) = e.rec[Len(ChainOf(e))]
    BY <1>10, LinkedChain
  <2>2. m <= Len(ChainOf(e))
    BY <1>2, <1>7, <2>1
  <2>3. Len(ChainOf(e)) <= m
    BY <1>2, <1>7, <2>1, <2>2
  <2>4. Len(ChainOf(e)) = m /\ ChainOf(e) # <<>>
    BY <1>2, <2>1, <2>2, <2>3
  <2> QED BY <1>6, <2>1, <2>4
<1> QED BY <1>10, <1>11 DEF c

-----------------------------------------------------------------------------
(* Steps that change no file.                                              *)

\* They lose nothing that was synced, and the other commands go on knowing
\* what they knew.
LEMMA QuietFiles ==
    ASSUME IInv, CrashSafeInv, NEW p \in Procs, ProcStep(p), ~FileSteps(p)
    PROVE  /\ FilesOK' /\ disk' = disk /\ ordered' = ordered
           /\ crashable' \subseteq crashable
           /\ AllDurable => AllDurable'
           /\ Settled => Settled'
           /\ \A q \in Procs \ {p} : ProcOK(q)'
<1>1. Types /\ Types' /\ FilesOK /\ disk \in crashable
  BY ProcStepInv DEF IInv, CrashSafeInv, FilesOK
<1>2. disk' = disk /\ crashable' \subseteq crashable
  BY <1>1, FilesLeft
<1>3. disk' \in crashable' /\ ordered' = ordered
  BY <1>1, <1>2
     DEF ProcStep, Begin, BeginLoad, BeginCore, BeginWork, CallStep, Acquire, LockCore,
         IOError, Kill, StatDir, MakeDir, SyncParent, SyncAncestors, ReadChain, CheckHead,
         CallCore, LeaveCore, ExtendCore, SealCore, Commit, Refuse, SyncRemoval, SyncRunDir,
         FileSteps, files
<1>4. AllDurable => AllDurable'
  <2> SUFFICES ASSUME AllDurable PROVE AllDurable'
    OBVIOUS
  <2>1. path \in [Levels -> {"absent", "fresh", "durable"}] /\ level[p] \in Levels
    BY <1>1 DEF Types, TypeOK
  <2>2. \A l \in Levels : path[l] = "durable"
    BY DEF AllDurable
  <2>3. CASE BeginCore(p)
    BY <2>1, <2>2, <2>3 DEF BeginCore, AllDurable, Exists
  <2>4. CASE MakeDir(p)
    BY <2>1, <2>2, <2>4 DEF MakeDir, AllDurable
  <2>5. CASE SyncParent(p) \/ SyncAncestors(p)
    BY <2>1, <2>2, <2>5 DEF SyncParent, SyncAncestors, AllDurable
  <2>6. CASE ~(BeginCore(p) \/ MakeDir(p) \/ SyncParent(p) \/ SyncAncestors(p))
    <3>1. path' = path
      BY <2>6
         DEF ProcStep, Begin, BeginLoad, BeginWork, CallStep, Acquire, LockCore, IOError,
             Kill, StatDir, ReadChain, CheckHead, CallCore, LeaveCore, ExtendCore, SealCore, Commit,
             Refuse, SyncRemoval, SyncRunDir, FileSteps, files
    <3> QED BY <2>2, <3>1 DEF AllDurable
  <2> QED BY <2>3, <2>4, <2>5, <2>6
<1>5. Settled => Settled'
  BY <1>2 DEF Settled
<1>6. FilesOK'
  <2>1. PendingNamesUnsettled'
    BY <1>1, <1>2, <1>5 DEF FilesOK, PendingNamesUnsettled
  <2>2. (AllDurable \/ crashable = {NoFiles})'
    BY <1>1, <1>2, <1>3, <1>4 DEF FilesOK
  <2>3. (\A d \in crashable : DirOK(d))'
    BY <1>1, <1>2, <1>3 DEF FilesOK, DirOK
  <2> QED BY <1>3, <2>1, <2>2, <2>3 DEF FilesOK
<1>7. \A q \in Procs \ {p} : ProcOK(q)'
  <2> TAKE q \in Procs \ {p}
  <2>1. /\ pc'[q] = pc[q] /\ op'[q] = op[q] /\ existing'[q] = existing[q]
        /\ want'[q] = want[q]
    BY <1>1
       DEF Types, TypeOK, ProcStep, Begin, BeginLoad, BeginCore, BeginWork, CallStep,
           Acquire, LockCore, IOError, Kill, StatDir, MakeDir, SyncParent, SyncAncestors,
           ReadChain, CheckHead, CallCore, LeaveCore, ExtendCore, SealCore, Commit, Refuse,
           SyncRemoval, FileSteps, Goto, Return, locals
  <2>2. ProcOK(q)
    BY DEF CrashSafeInv
  <2> QED BY <1>2, <1>3, <1>4, <1>5, <2>1, <2>2
          DEF ProcOK, Under, PhaseOK, HeadOK, NewChain
<1> QED BY <1>2, <1>3, <1>4, <1>5, <1>6, <1>7

\* A command that returns, or is about to ask for a lock, knows nothing.
LEMMA OutsideKnows ==
    ASSUME NEW p \in Procs,
           pc'[p] \notin Holding \/ (pc'[p] = "wantCore" /\ op'[p] = "core"),
           op'[p] = "transact" /\ pc'[p] = "lock" => AllDurable'
    PROVE  ProcOK(p)'
BY DEF ProcOK, Under, Holding, Reading, Working, Committing

\* What a command knows after a step of its own that changes no file.
LEMMA QuietActor ==
    ASSUME IInv, CrashSafeInv, NEW p \in Procs, ProcStep(p), ~FileSteps(p)
    PROVE  ProcOK(p)'
<1>1. Types /\ Types' /\ FilesOK /\ ProcOK(p) /\ Shape(p)
  BY ProcStepInv DEF IInv, CrashSafeInv, Types
<1>2. /\ disk' = disk /\ ordered' = ordered
      /\ AllDurable => AllDurable'
      /\ Settled => Settled'
  BY QuietFiles
<1>3. /\ pc \in [Procs -> PCs] /\ existing \in [Procs -> Chains]
      /\ want \in [Procs -> [pred : Chains, val : Vals \cup {None}, core : CoreChains]]
      /\ op \in [Procs -> {"hold", "transact", "core"}]
  BY <1>1 DEF Types, TypeOK
<1>4. ASSUME Return(p) PROVE ProcOK(p)'
  <2>1. pc'[p] = "idle"
    BY <1>3, <1>4 DEF Return, Goto
  <2> QED BY <2>1, OutsideKnows DEF Holding, Reading, Working, Committing
<1>5. CASE Begin(p) \/ StatDir(p) \/ MakeDir(p) \/ SyncParent(p) \/ SyncAncestors(p)
  <2>1. \/ pc'[p] \in {"lock", "stat", "mkdir", "syncParent", "ancestors"}
        \/ pc'[p] = "wantCore" /\ op'[p] = "core"
    BY <1>3, <1>5 DEF Begin, BeginLoad, BeginCore, BeginWork, StatDir, MakeDir, SyncParent,
                      SyncAncestors, Goto
  <2>2. CASE SyncAncestors(p)
    <3>1. AllDurable'
      BY <2>2 DEF SyncAncestors, AllDurable
    <3> QED BY <2>1, <3>1, OutsideKnows DEF Holding, Reading, Working, Committing
  <2>3. CASE ~SyncAncestors(p)
    <3>1. pc'[p] = "lock" => op'[p] # "transact"
      BY <1>3, <1>5, <2>3 DEF Begin, BeginLoad, BeginCore, BeginWork, StatDir, MakeDir,
                              SyncParent, Goto
    <3> QED BY <2>1, <3>1, OutsideKnows DEF Holding, Reading, Working, Committing
  <2> QED BY <2>2, <2>3
<1>6. CASE Acquire(p)
  <2>1. pc[p] = "lock" /\ pc'[p] = "read" /\ op'[p] = op[p]
    BY <1>3, <1>6 DEF Acquire, Goto, locals
  <2> QED BY <1>1, <1>2, <2>1
          DEF ProcOK, Under, PhaseOK, HeadOK, ReadStillHolds, Shape, Holding, Reading,
              Working, Committing
<1>7. CASE ReadChain(p) /\ ~Return(p)
  <2>1. /\ pc[p] = "read" /\ pc'[p] = AfterRead(disk) /\ op'[p] = op[p]
        /\ existing'[p] = ChainOf(disk) /\ want'[p] = want[p]
    BY <1>3, <1>7 DEF ReadChain, Goto
  <2>2. op[p] # "core" /\ (op[p] = "transact" => AllDurable)
    BY <1>1, <2>1 DEF ProcOK, Holding, Reading
  <2>3. AfterRead(disk) \notin {"recHead"} => Settled'
    BY <1>1, <1>2 DEF FilesOK, PendingNamesUnsettled, AfterRead
  <2> QED BY <1>2, <2>1, <2>2, <2>3
          DEF ProcOK, Under, PhaseOK, HeadOK, ReadStillHolds, AfterRead, Holding, Reading,
              Working, Committing
<1>8. CASE CheckHead(p) /\ ~Return(p)
  <2>1. /\ pc[p] = "check" /\ pc'[p] = "inTx" /\ op'[p] = op[p]
        /\ existing'[p] = existing[p] /\ want'[p] = want[p] /\ disk.head = existing[p]
    BY <1>3, <1>8 DEF CheckHead, Goto, locals
  <2>2. /\ op[p] # "core" /\ (op[p] = "transact" => AllDurable)
        /\ existing[p] = ChainOf(disk) /\ Settled
    BY <1>1, <2>1 DEF ProcOK, Under, PhaseOK, ReadStillHolds, Holding, Reading
  <2> QED BY <1>2, <2>1, <2>2
          DEF ProcOK, Under, PhaseOK, HeadOK, ReadStillHolds, Holding, Reading, Working,
              Committing
<1>9. CASE \/ CallCore(p) \/ LockCore(p) \/ (LeaveCore(p) /\ ~Return(p)) \/ ExtendCore(p)
           \/ (SealCore(p) /\ ~Return(p))
  <2>1. /\ pc[p] \in {"wantCore", "inTx", "inCore", "extended"}
        /\ pc'[p] \in {"wantCore", "inCore", "extended", "ready"} /\ op'[p] = op[p]
        /\ existing'[p] = existing[p] /\ want'[p] = want[p]
        /\ pc'[p] = "ready" => op[p] = "transact"
    BY <1>1, <1>3, <1>9 DEF CallCore, LockCore, LeaveCore, ExtendCore, SealCore, Goto, locals, Shape
  <2>2. CASE op[p] = "core"
    BY <2>1, <2>2 DEF ProcOK, Under, Reading, Committing
  <2>3. CASE op[p] # "core"
    <3>1. pc[p] \in Working
      BY <2>1, <2>3 DEF Working
    <3>2. Under(p) /\ existing[p] = ChainOf(disk) /\ Settled /\ disk.head = ChainOf(disk)
      BY <1>1, <2>1, <2>3, <3>1
         DEF ProcOK, Under, PhaseOK, HeadOK, ReadStillHolds, Holding, Working
    <3>3. op[p] = "transact" => AllDurable
      BY <1>1, <3>1 DEF ProcOK, Holding
    <3> QED BY <1>2, <2>1, <2>3, <3>2, <3>3
            DEF ProcOK, Under, PhaseOK, HeadOK, ReadStillHolds, Holding, Reading, Working,
                Committing
  <2> QED BY <2>2, <2>3
<1>10. CASE Commit(p)
  <2>1. PICK v \in Vals :
          want' = [want EXCEPT ![p] = [pred |-> existing[p], val |-> v, core |-> seen[p]]]
    BY <1>10 DEF Commit
  <2>2. want'[p].pred = existing[p]
    BY <1>3, <2>1
  <2>3. /\ pc[p] = "ready" /\ pc'[p] = "wPending" /\ op'[p] = op[p]
        /\ existing'[p] = existing[p] /\ Len(existing[p]) < MaxLen /\ op[p] = "transact"
    BY <1>1, <1>3, <1>10 DEF Commit, Goto, Shape
  <2>4. /\ AllDurable /\ existing[p] = ChainOf(disk) /\ Settled
        /\ disk.head = ChainOf(disk)
    BY <1>1, <2>3 DEF ProcOK, Under, PhaseOK, HeadOK, ReadStillHolds, Holding, Working
  <2> QED BY <1>2, <2>2, <2>3, <2>4
          DEF ProcOK, Under, PhaseOK, HeadOK, ReadStillHolds, Holding, Reading, Working,
              Committing
<1>11. CASE Refuse(p) \/ IOError(p) \/ Kill(p) \/ SyncRemoval(p)
  BY <1>4, <1>11 DEF Refuse, IOError, Kill, SyncRemoval
<1> QED BY <1>4, <1>5, <1>6, <1>7, <1>8, <1>9, <1>10, <1>11
        DEF ProcStep, CallStep, FileSteps

-----------------------------------------------------------------------------
(* Steps on the run's directory.                                           *)

\* They are the lock holder's, and touch nothing but the files.
LEMMA FileStepFrame ==
    ASSUME IInv, CrashSafeInv, NEW p \in Procs, FileSteps(p)
    PROVE  /\ Under(p) /\ PhaseOK(p) /\ HeadOK(p)
           /\ disk' \in Dirs /\ crashable' \subseteq Dirs
           /\ ordered' = ordered /\ path' = path /\ promised' = promised
           /\ op' = op /\ existing' = existing /\ want' = want
           /\ \A q \in Procs \ {p} : pc'[q] = pc[q] /\ ~Under(q)
           /\ op[p] # "core" /\ (op[p] = "transact" => AllDurable)
           /\ pc[p] \in Reading \cup Committing
<1>1. Types /\ ProcOK(p) /\ Types'
  <2>1. ProcStep(p)
    BY DEF FileSteps, ProcStep, CallStep
  <2> QED BY <2>1, ProcStepInv DEF IInv, CrashSafeInv
<1>2. /\ pc[p] \in Reading \cup Committing
      /\ ordered' = ordered /\ path' = path /\ promised' = promised
      /\ UNCHANGED <<lock, cores, locals>>
      /\ \E l \in PCs : Goto(p, l)
  BY DEF FileSteps, RecoverHead, RecoverSync, RecoverRemove, RecoverSyncRemoval, WritePending,
         SyncPending, WriteRecord, SyncRecord, WriteHead, SyncHead, RemovePending, Change,
         SyncRunDir, Reading, Committing, PCs, Holding, Working
<1>3. op[p] # "core" /\ Under(p) /\ lock = p
  BY <1>1, <1>2 DEF ProcOK, Under, Holding, Types, TypeOK
<1>4. \A q \in Procs \ {p} : pc'[q] = pc[q] /\ ~Under(q)
  BY <1>1, <1>2, <1>3 DEF Types, TypeOK, Under, Goto
<1>5. op[p] = "transact" => AllDurable
  BY <1>1, <1>2 DEF ProcOK, Holding
<1> QED BY <1>1, <1>2, <1>3, <1>4, <1>5 DEF ProcOK, locals, Types, TypeOK

RecordsKept ==
    /\ disk'.rec = disk.rec
    /\ disk' \in crashable'
    /\ \A d \in crashable' : \E e \in crashable : d.rec = e.rec
    /\ ordered => \A d \in crashable' : d \in crashable \/ d = disk'

\* Replacing the head anchor changes nothing else.
LEMMA HeadSet ==
    ASSUME IInv, FilesOK, NEW p \in Procs, NEW c,
           \/ RecoverHead(p) /\ c = existing[p]
           \/ WriteHead(p) /\ c = NewChain(p)
    PROVE  RecordsKept /\ disk'.head = c /\ disk'.pending = disk.pending
<1>1. disk \in Dirs /\ crashable \subseteq Dirs /\ disk \in crashable
  BY DEF IInv, Types, TypeOK, FilesOK
<1>2. /\ disk' = [disk EXCEPT !.head = c]
      /\ crashable' = crashable \cup
            (IF ordered THEN {disk'} ELSE {[d EXCEPT !.head = c] : d \in crashable})
  BY DEF RecoverHead, WriteHead, Change
<1>3. \A d \in crashable : /\ [d EXCEPT !.head = c].rec = d.rec
                           /\ [d EXCEPT !.head = c].head = c
                           /\ [d EXCEPT !.head = c].pending = d.pending
  BY <1>1 DEF Dirs
<1>4. CASE ordered
  <2>1. crashable' = crashable \cup {disk'}
    BY <1>2, <1>4
  <2> QED BY <1>1, <1>2, <1>3, <2>1 DEF RecordsKept
<1>5. CASE ~ordered
  <2>1. crashable' = crashable \cup {[d EXCEPT !.head = c] : d \in crashable}
    BY <1>2, <1>5
  <2> QED BY <1>1, <1>2, <1>3, <1>5, <2>1 DEF RecordsKept
<1> QED BY <1>4, <1>5

\* Replacing or removing the pending anchor changes nothing else.
LEMMA PendingSet ==
    ASSUME IInv, FilesOK, NEW p \in Procs, NEW c,
           \/ WritePending(p) /\ c = NewChain(p)
           \/ (RecoverRemove(p) \/ RemovePending(p)) /\ c = <<>>
    PROVE  RecordsKept /\ disk'.pending = c /\ disk'.head = disk.head
<1>1. disk \in Dirs /\ crashable \subseteq Dirs /\ disk \in crashable
  BY DEF IInv, Types, TypeOK, FilesOK
<1>2. /\ disk' = [disk EXCEPT !.pending = c]
      /\ crashable' = crashable \cup
            (IF ordered THEN {disk'} ELSE {[d EXCEPT !.pending = c] : d \in crashable})
  BY DEF WritePending, RecoverRemove, RemovePending, Change
<1>3. \A d \in crashable : /\ [d EXCEPT !.pending = c].rec = d.rec
                           /\ [d EXCEPT !.pending = c].pending = c
                           /\ [d EXCEPT !.pending = c].head = d.head
  BY <1>1 DEF Dirs
<1>4. CASE ordered
  <2>1. crashable' = crashable \cup {disk'}
    BY <1>2, <1>4
  <2> QED BY <1>1, <1>2, <1>3, <2>1 DEF RecordsKept
<1>5. CASE ~ordered
  <2>1. crashable' = crashable \cup {[d EXCEPT !.pending = c] : d \in crashable}
    BY <1>2, <1>5
  <2> QED BY <1>1, <1>2, <1>3, <1>5, <2>1 DEF RecordsKept
<1> QED BY <1>4, <1>5

SyncStep(p) ==
    \/ RecoverSync(p) \/ RecoverSyncRemoval(p) \/ SyncPending(p) \/ SyncRecord(p)
    \/ SyncHead(p)

\* Syncing the directory settles the record files.
LEMMA Synced ==
    ASSUME IInv, FilesOK, NEW p \in Procs, SyncStep(p)
    PROVE  RecordsKept /\ disk' = disk /\ crashable' = {disk} /\ Settled'
<1>1. disk \in crashable /\ disk' = disk /\ crashable' = {disk}
  BY DEF FilesOK, SyncStep, RecoverSync, RecoverSyncRemoval, SyncPending, SyncRecord, SyncHead,
         SyncRunDir
<1> QED BY <1>1 DEF RecordsKept, Settled

\* While the record files stay, what a crash leaves of them does, and it is
\* enough that the directory now on disk agrees with its head anchor.
LEMMA KeptSafe ==
    ASSUME IInv, CrashSafeInv, RecordsKept, ordered' = ordered, promised' = promised,
           path' = path, AllDurable \/ crashable' = {NoFiles},
           Settled' \/ (disk'.pending # <<>> /\ disk'.pending = ChainOf(disk')),
           ordered => HeadAgrees(disk')
    PROVE  FilesOK' /\ Durable' /\ ChainOf(disk)' = ChainOf(disk)
<1>1. ChainOf(disk') = ChainOf(disk)
  BY SameRecords DEF RecordsKept
<1>2. FilesOK /\ Durable
  BY DEF CrashSafeInv
<1>3. ASSUME NEW d \in crashable'
      PROVE  Linked(d) /\ \E e \in crashable : ChainOf(d) = ChainOf(e)
  <2>1. PICK e \in crashable : d.rec = e.rec
    BY <1>3 DEF RecordsKept
  <2>2. Linked(e)
    BY <1>2, <2>1 DEF FilesOK, DirOK
  <2> QED BY <2>1, <2>2, SameRecords
<1>4. \A d \in crashable' : ordered => HeadAgrees(d)
  BY <1>2 DEF RecordsKept, FilesOK, DirOK
<1>5. \A d \in crashable' : IsPrefix(ChainOf(d), ChainOf(disk'))
  BY <1>1, <1>2, <1>3 DEF FilesOK, DirOK
<1>6. (\A d \in crashable : DirOK(d))'
  BY <1>3, <1>4, <1>5 DEF DirOK
<1>7. (AllDurable \/ crashable = {NoFiles})'
  BY DEF AllDurable
<1>8. FilesOK'
  BY <1>6, <1>7 DEF FilesOK, PendingNamesUnsettled, RecordsKept
<1>9. Durable'
  <2>1. \A d \in crashable' : IsPrefix(promised, ChainOf(d))
    BY <1>2, <1>3 DEF Durable
  <2> QED BY <1>2, <2>1 DEF Durable
<1> QED BY <1>1, <1>8, <1>9

\* What a step on the directory has to establish for the invariant to survive.
LEMMA DirectoryStep ==
    ASSUME IInv, CrashSafeInv, NEW p \in Procs, FileSteps(p), FilesOK', Durable',
           PhaseOK(p)', HeadOK(p)'
    PROVE  CrashSafeInv'
<1>1. /\ path' = path /\ op' = op /\ op[p] # "core" /\ (op[p] = "transact" => AllDurable)
      /\ \A q \in Procs \ {p} : pc'[q] = pc[q] /\ ~Under(q)
  BY FileStepFrame
<1>2. AllDurable => AllDurable'
  BY <1>1 DEF AllDurable
<1>3. ProcOK(p)'
  BY <1>1, <1>2 DEF ProcOK
<1>4. \A q \in Procs \ {p} : ProcOK(q)'
  BY <1>1, <1>2 DEF CrashSafeInv, ProcOK, Under
<1> QED BY <1>3, <1>4 DEF CrashSafeInv

\* Every directory leads to the run's once its files have been touched.
LEMMA TouchedDurable ==
    ASSUME FilesOK, disk.pending # <<>>
    PROVE  AllDurable
<1>1. NoFiles.pending = <<>>
  BY DEF NoFiles
<1> QED BY <1>1 DEF FilesOK

\* While the record files stay, so does whether a crash can change them.
LEMMA SettledKept == ASSUME RecordsKept, Settled PROVE Settled'
BY DEF RecordsKept, Settled

\* Recovery: the head anchor is promoted, and only then the pending anchor is
\* forgotten.
LEMMA RecoverInv ==
    ASSUME IInv, CrashSafeInv, NEW p \in Procs,
           RecoverHead(p) \/ RecoverSync(p) \/ RecoverRemove(p) \/ RecoverSyncRemoval(p)
    PROVE  CrashSafeInv'
<1>1. FileSteps(p) /\ FilesOK /\ disk \in crashable
  BY DEF FileSteps, CrashSafeInv, FilesOK
<1>2. /\ Under(p) /\ PhaseOK(p) /\ HeadOK(p)
      /\ ordered' = ordered /\ path' = path /\ promised' = promised
      /\ op' = op /\ existing' = existing /\ want' = want
  BY <1>1, FileStepFrame
<1>3. pc \in [Procs -> PCs]
  BY DEF IInv, Types, TypeOK
<1>4. NewChain(p)' = NewChain(p)
  BY <1>2 DEF NewChain
<1>5. CASE RecoverHead(p)
  <2>1. pc[p] = "recHead" /\ pc'[p] = "recSync"
    BY <1>3, <1>5 DEF RecoverHead, Goto
  <2>2. existing[p] = ChainOf(disk) /\ disk.pending # <<>> /\ disk.pending = ChainOf(disk)
    BY <1>2, <2>1 DEF PhaseOK, ReadStillHolds
  <2>3. RecordsKept /\ disk'.head = existing[p] /\ disk'.pending = disk.pending
    <3>1. ASSUME NEW c, c = existing[p]
          PROVE  RecordsKept /\ disk'.head = c /\ disk'.pending = disk.pending
      BY <1>1, <1>5, <3>1, HeadSet
    <3> QED BY <3>1
  <2>4. ChainOf(disk') = ChainOf(disk)
    BY <2>3, SameRecords DEF RecordsKept
  <2>5. AllDurable
    BY <1>1, <2>2, TouchedDurable
  <2>6. FilesOK' /\ Durable' /\ ChainOf(disk)' = ChainOf(disk)
    BY <1>2, <2>2, <2>3, <2>4, <2>5, KeptSafe DEF HeadAgrees
  <2>7. PhaseOK(p)' /\ HeadOK(p)'
    BY <1>2, <2>1, <2>2, <2>3, <2>4, <2>6
       DEF PhaseOK, HeadOK, ReadStillHolds, Working, Committing
  <2> QED BY <1>1, <2>6, <2>7, DirectoryStep
<1>6. CASE RecoverSync(p) \/ RecoverSyncRemoval(p)
  <2>1. RecordsKept /\ disk' = disk /\ crashable' = {disk} /\ Settled'
    BY <1>1, <1>6, Synced DEF SyncStep
  <2>2. AllDurable \/ crashable' = {NoFiles}
    BY <1>1, <2>1 DEF FilesOK
  <2>3. ordered => HeadAgrees(disk')
    BY <1>1, <2>1 DEF FilesOK, DirOK
  <2>4. FilesOK' /\ Durable' /\ ChainOf(disk)' = ChainOf(disk)
    BY <1>2, <2>1, <2>2, <2>3, KeptSafe
  <2>5. CASE RecoverSync(p)
    <3>1. pc[p] = "recSync" /\ pc'[p] = "recRemove"
      BY <1>3, <2>5 DEF RecoverSync, Goto
    <3> QED BY <1>1, <1>2, <2>1, <2>4, <3>1, DirectoryStep
            DEF PhaseOK, HeadOK, ReadStillHolds, Working, Committing
  <2>6. CASE RecoverSyncRemoval(p)
    <3>1. pc[p] = "recSyncRemoval" /\ pc'[p] = "check"
      BY <1>3, <2>6 DEF RecoverSyncRemoval, Goto
    <3> QED BY <1>1, <1>2, <2>1, <2>4, <3>1, DirectoryStep
            DEF PhaseOK, HeadOK, ReadStillHolds, Working, Committing
  <2> QED BY <1>6, <2>5, <2>6
<1>7. CASE RecoverRemove(p)
  <2>1. pc[p] = "recRemove" /\ pc'[p] = "recSyncRemoval"
    BY <1>3, <1>7 DEF RecoverRemove, Goto
  <2>2. existing[p] = ChainOf(disk) /\ disk.pending # <<>> /\ Settled
    BY <1>2, <2>1 DEF PhaseOK, ReadStillHolds
  <2>3. RecordsKept /\ disk'.pending = <<>> /\ disk'.head = disk.head
    BY <1>1, <1>7, PendingSet
  <2>4. ChainOf(disk') = ChainOf(disk) /\ Settled'
    BY <2>2, <2>3, SameRecords, SettledKept DEF RecordsKept
  <2>5. AllDurable
    BY <1>1, <2>2, TouchedDurable
  <2>6. ordered => disk.head = ChainOf(disk)
    BY <1>1, <1>2, <2>1 DEF HeadOK, FilesOK, DirOK, HeadAgrees
  <2>7. FilesOK' /\ Durable' /\ ChainOf(disk)' = ChainOf(disk)
    BY <1>2, <2>3, <2>4, <2>5, <2>6, KeptSafe DEF HeadAgrees
  <2>8. PhaseOK(p)' /\ HeadOK(p)'
    BY <1>2, <2>1, <2>2, <2>3, <2>4, <2>6, <2>7
       DEF PhaseOK, HeadOK, ReadStillHolds, Working, Committing
  <2> QED BY <1>1, <2>7, <2>8, DirectoryStep
<1> QED BY <1>5, <1>6, <1>7

\* The commit, up to the record file and after it.
LEMMA CommitInv ==
    ASSUME IInv, CrashSafeInv, NEW p \in Procs,
           WritePending(p) \/ SyncPending(p) \/ SyncRecord(p) \/ WriteHead(p) \/ SyncHead(p)
             \/ RemovePending(p)
    PROVE  CrashSafeInv'
<1>1. FileSteps(p) /\ FilesOK /\ disk \in crashable
  BY DEF FileSteps, CrashSafeInv, FilesOK
<1>2. /\ Under(p) /\ PhaseOK(p) /\ HeadOK(p)
      /\ ordered' = ordered /\ path' = path /\ promised' = promised
      /\ op' = op /\ existing' = existing /\ want' = want
      /\ op[p] = "transact" => AllDurable
  BY <1>1, FileStepFrame
<1>3. pc \in [Procs -> PCs]
  BY DEF IInv, Types, TypeOK
<1>4. NewChain(p)' = NewChain(p)
  BY <1>2 DEF NewChain
<1>5. /\ pc[p] \in Committing
      /\ want[p].pred = existing[p] /\ Len(existing[p]) < MaxLen /\ op[p] = "transact"
      /\ AllDurable
  <2>1. pc[p] \in Committing
    BY DEF WritePending, SyncPending, SyncRecord, WriteHead, SyncHead, RemovePending,
           Committing
  <2> QED BY <1>2, <2>1 DEF PhaseOK
<1>6. CASE SyncPending(p) \/ SyncRecord(p) \/ SyncHead(p)
  <2>1. RecordsKept /\ disk' = disk /\ crashable' = {disk} /\ Settled'
    BY <1>1, <1>6, Synced DEF SyncStep
  <2>2. ordered => HeadAgrees(disk')
    BY <1>1, <2>1 DEF FilesOK, DirOK
  <2>3. FilesOK' /\ Durable' /\ ChainOf(disk)' = ChainOf(disk)
    BY <1>2, <1>5, <2>1, <2>2, KeptSafe
  <2>4. CASE SyncPending(p)
    <3>1. pc[p] = "sPending" /\ pc'[p] = "wRecord"
      BY <1>3, <2>4 DEF SyncPending, Goto
    <3> QED BY <1>1, <1>2, <1>4, <1>5, <2>1, <2>3, <3>1, DirectoryStep
            DEF PhaseOK, HeadOK, ReadStillHolds, Working, Committing
  <2>5. CASE SyncRecord(p)
    <3>1. pc[p] = "sRecord" /\ pc'[p] = "wHead"
      BY <1>3, <2>5 DEF SyncRecord, Goto
    <3> QED BY <1>1, <1>2, <1>4, <1>5, <2>1, <2>3, <3>1, DirectoryStep
            DEF PhaseOK, HeadOK, ReadStillHolds, Working, Committing
  <2>6. CASE SyncHead(p)
    <3>1. pc[p] = "sHead" /\ pc'[p] = "rmPending"
      BY <1>3, <2>6 DEF SyncHead, Goto
    <3> QED BY <1>1, <1>2, <1>4, <1>5, <2>1, <2>3, <3>1, DirectoryStep
            DEF PhaseOK, HeadOK, ReadStillHolds, Working, Committing
  <2> QED BY <1>6, <2>4, <2>5, <2>6
<1>7. CASE WritePending(p) \/ RemovePending(p)
  <2>1. RecordsKept /\ disk'.head = disk.head
    BY <1>1, <1>7, PendingSet
  <2>2. Settled /\ disk.head = ChainOf(disk)
    BY <1>2, <1>7 DEF WritePending, RemovePending, PhaseOK, HeadOK
  <2>3. ChainOf(disk') = ChainOf(disk) /\ Settled'
    BY <2>1, <2>2, SameRecords, SettledKept DEF RecordsKept
  <2>4. FilesOK' /\ Durable' /\ ChainOf(disk)' = ChainOf(disk)
    BY <1>2, <1>5, <2>1, <2>2, <2>3, KeptSafe DEF HeadAgrees
  <2>5. CASE WritePending(p)
    <3>1. pc[p] = "wPending" /\ pc'[p] = "sPending"
      BY <1>3, <2>5 DEF WritePending, Goto
    <3>2. disk'.pending = NewChain(p)
      BY <1>1, <2>5, PendingSet
    <3> QED BY <1>1, <1>2, <1>4, <1>5, <2>1, <2>2, <2>3, <2>4, <3>1, <3>2, DirectoryStep
            DEF PhaseOK, HeadOK, ReadStillHolds, Working, Committing
  <2>6. CASE RemovePending(p)
    <3>1. pc[p] = "rmPending" /\ pc'[p] = "sRemoval"
      BY <1>3, <2>6 DEF RemovePending, Goto
    <3> QED BY <1>1, <1>2, <1>4, <1>5, <2>1, <2>2, <2>3, <2>4, <3>1, DirectoryStep
            DEF PhaseOK, HeadOK, ReadStillHolds, Working, Committing
  <2> QED BY <1>7, <2>5, <2>6
<1>8. CASE WriteHead(p)
  <2>1. pc[p] = "wHead" /\ pc'[p] = "sHead"
    BY <1>3, <1>8 DEF WriteHead, Goto
  <2>2. Settled /\ ChainOf(disk) = NewChain(p)
    BY <1>2, <2>1 DEF PhaseOK
  <2>3. RecordsKept /\ disk'.head = NewChain(p)
    BY <1>1, <1>8, HeadSet
  <2>4. ChainOf(disk') = ChainOf(disk) /\ Settled'
    BY <2>2, <2>3, SameRecords, SettledKept DEF RecordsKept
  <2>5. FilesOK' /\ Durable' /\ ChainOf(disk)' = ChainOf(disk)
    BY <1>2, <1>5, <2>2, <2>3, <2>4, KeptSafe DEF HeadAgrees
  <2> QED BY <1>1, <1>2, <1>4, <1>5, <2>1, <2>2, <2>3, <2>4, <2>5, DirectoryStep
          DEF PhaseOK, HeadOK, ReadStillHolds, Working, Committing
<1> QED BY <1>6, <1>7, <1>8

\* The record file: the one step that lengthens the chain.  It finds the record
\* files synced and the pending anchor naming the chain it makes.
LEMMA RecordWritten ==
    ASSUME IInv, CrashSafeInv, NEW p \in Procs, WriteRecord(p)
    PROVE  /\ Settled /\ AllDurable /\ existing[p] = ChainOf(disk)
           /\ disk.pending = NewChain(p) /\ disk.head = ChainOf(disk)
           /\ \E r \in Records : NewChain(p) = Append(ChainOf(disk), r)
           /\ NewChain(p) \in Chains /\ NewChain(p) # <<>>
           /\ IsPrefix(ChainOf(disk), NewChain(p))
           /\ Linked(disk') /\ ChainOf(disk') = NewChain(p)
           /\ disk'.pending = disk.pending /\ disk'.head = disk.head
           /\ disk' \in crashable'
           /\ \A d \in crashable' : /\ d.rec \in {disk.rec, disk'.rec}
                                    /\ ordered => d \in crashable \/ d = disk'
<1>1. /\ FileSteps(p) /\ FilesOK /\ Types /\ disk \in crashable /\ disk \in Dirs
      /\ crashable \subseteq Dirs /\ pc[p] = "wRecord"
  BY DEF FileSteps, CrashSafeInv, FilesOK, IInv, Types, TypeOK, WriteRecord
<1>2. /\ PhaseOK(p) /\ HeadOK(p) /\ (op[p] = "transact" => AllDurable)
      /\ disk' \in Dirs
  BY <1>1, FileStepFrame
<1>3. /\ Settled /\ AllDurable /\ existing[p] = ChainOf(disk)
      /\ disk.pending = NewChain(p) /\ disk.head = ChainOf(disk)
      /\ want[p].pred = existing[p] /\ Len(existing[p]) < MaxLen
  BY <1>1, <1>2 DEF PhaseOK, HeadOK, ReadStillHolds, Committing
<1>4. PICK r \in Records : NewChain(p) = Append(ChainOf(disk), r)
  <2>1. want[p].val \in Vals /\ want[p].core \in CoreChains
    BY <1>1 DEF Types, TypeOK, Shape, Committing
  <2>2. [val |-> want[p].val, core |-> want[p].core] \in Records
    BY <2>1 DEF Records
  <2> QED BY <1>3, <2>2 DEF NewChain
<1>5. ChainOf(disk) \in Chains /\ Linked(disk)
  BY <1>1, LinkedChain DEF FilesOK, DirOK
<1>6. NewChain(p) \in Chains /\ NewChain(p) # <<>> /\ IsPrefix(ChainOf(disk), NewChain(p))
  BY <1>4, <1>5, PrefixAppend
<1> DEFINE n == Len(ChainOf(disk)) + 1
           c == NewChain(p)
<1>7. /\ disk' = [disk EXCEPT !.rec[n] = c]
      /\ crashable' = crashable \cup
            (IF ordered THEN {disk'} ELSE {[d EXCEPT !.rec[n] = c] : d \in crashable})
  BY <1>3 DEF WriteRecord, Change
<1> HIDE DEF n, c
<1>8. \A d \in Dirs : /\ [d EXCEPT !.rec[n] = c].rec = [d.rec EXCEPT ![n] = c]
                      /\ [d EXCEPT !.rec[n] = c].head = d.head
                      /\ [d EXCEPT !.rec[n] = c].pending = d.pending
  BY DEF Dirs
<1>9. /\ disk'.rec = [disk.rec EXCEPT ![n] = c]
      /\ disk'.pending = disk.pending /\ disk'.head = disk.head
  BY <1>1, <1>7, <1>8
<1>10. Linked(disk') /\ ChainOf(disk') = NewChain(p)
  BY <1>1, <1>2, <1>3, <1>4, <1>5, <1>9, LinkedExtend DEF n, c
<1>11. /\ disk' \in crashable'
       /\ \A d \in crashable' : /\ d.rec \in {disk.rec, disk'.rec}
                                /\ ordered => d \in crashable \/ d = disk'
  <2>1. \A d \in crashable : d.rec = disk.rec
    BY <1>3 DEF Settled
  <2>2. CASE ordered
    <3>1. crashable' = crashable \cup {disk'}
      BY <1>7, <2>2
    <3> QED BY <2>1, <3>1
  <2>3. CASE ~ordered
    <3>1. crashable' = crashable \cup {[d EXCEPT !.rec[n] = c] : d \in crashable}
      BY <1>7, <2>3
    <3>2. \A d \in crashable : [d EXCEPT !.rec[n] = c].rec = disk'.rec
      BY <1>1, <1>8, <1>9, <2>1
    <3> QED BY <1>1, <1>7, <2>1, <2>3, <3>1, <3>2
  <2> QED BY <2>2, <2>3
<1> QED BY <1>3, <1>4, <1>6, <1>9, <1>10, <1>11

LEMMA RecordInv ==
    ASSUME IInv, CrashSafeInv, NEW p \in Procs, WriteRecord(p)
    PROVE  CrashSafeInv'
<1>1. /\ Settled /\ AllDurable /\ disk.pending = NewChain(p) /\ disk.head = ChainOf(disk)
      /\ NewChain(p) \in Chains /\ NewChain(p) # <<>>
      /\ IsPrefix(ChainOf(disk), NewChain(p))
      /\ Linked(disk') /\ ChainOf(disk') = NewChain(p)
      /\ disk'.pending = disk.pending /\ disk'.head = disk.head
      /\ disk' \in crashable'
      /\ \A d \in crashable' : d.rec \in {disk.rec, disk'.rec}
      /\ ordered => \A d \in crashable' : d \in crashable \/ d = disk'
  BY RecordWritten
<1>2. /\ FileSteps(p) /\ FilesOK /\ Durable /\ disk \in Dirs /\ promised \in Chains
      /\ pc \in [Procs -> PCs]
  BY DEF FileSteps, CrashSafeInv, IInv, Types, TypeOK
<1>3. /\ PhaseOK(p) /\ ordered' = ordered /\ path' = path /\ promised' = promised
      /\ op' = op /\ existing' = existing /\ want' = want
  BY <1>2, FileStepFrame
<1>4. /\ Linked(disk) /\ ChainOf(disk) \in Chains /\ IsPrefix(promised, ChainOf(disk))
  BY <1>2, LinkedChain DEF FilesOK, DirOK, Durable
<1>5. IsPrefix(NewChain(p), NewChain(p)) /\ IsPrefix(promised, NewChain(p))
  <2>1. \A c \in Chains : IsPrefix(c, c)
    BY DEF IsPrefix, Chains
  <2> QED BY <1>1, <1>2, <1>4, <2>1, PrefixTransitive
<1>6. \A d \in crashable' : /\ Linked(d)
                            /\ ChainOf(d) \in {ChainOf(disk), NewChain(p)}
  <2> TAKE d \in crashable'
  <2>1. CASE d.rec = disk.rec
    BY <1>4, <2>1, SameRecords
  <2>2. CASE d.rec = disk'.rec
    BY <1>1, <2>2, SameRecords
  <2> QED BY <1>1, <2>1, <2>2
<1>7. \A d \in crashable' : ordered => HeadAgrees(d)
  BY <1>1, <1>2 DEF FilesOK, DirOK, HeadAgrees
<1>8. (\A d \in crashable : DirOK(d))'
  BY <1>1, <1>3, <1>5, <1>6, <1>7 DEF DirOK
<1>9. FilesOK'
  <2>1. PendingNamesUnsettled'
    BY <1>1 DEF PendingNamesUnsettled
  <2>2. AllDurable'
    BY <1>1, <1>3 DEF AllDurable
  <2> QED BY <1>1, <1>8, <2>1, <2>2 DEF FilesOK
<1>10. Durable'
  BY <1>2, <1>3, <1>4, <1>5, <1>6 DEF Durable
<1>11. PhaseOK(p)' /\ HeadOK(p)'
  <2>1. pc[p] = "wRecord" /\ pc'[p] = "sRecord" /\ NewChain(p)' = NewChain(p)
    BY <1>2, <1>3 DEF WriteRecord, Goto, NewChain
  <2> QED BY <1>1, <1>3, <2>1 DEF PhaseOK, HeadOK, ReadStillHolds, Working, Committing
<1> QED BY <1>2, <1>9, <1>10, <1>11, DirectoryStep

\* A run without files is an empty one.
LEMMA EmptyDirectory == Linked(NoFiles) /\ ChainOf(NoFiles) = <<>> /\ HeadAgrees(NoFiles)
<1>1. /\ NoFiles.rec = [n \in 1..MaxLen |-> <<>>]
      /\ NoFiles.head = <<>>
  BY DEF NoFiles
<1>2. \A i \in 1..MaxLen : NoFiles.rec[i] = <<>>
  BY <1>1
<1>3. {i \in 1..MaxLen : NoFiles.rec[i] # <<>>} = {}
  BY <1>2
<1>4. ChainOf(NoFiles) = <<>>
  BY <1>3 DEF ChainOf
<1>5. Linked(NoFiles)
  <2>1. 0 \in 0..MaxLen /\ \A i \in 1..MaxLen : ~(i <= 0)
    BY HostStoreAssumption
  <2>2. 1..0 = {} /\ 1..(0 - 1) = {}
    OBVIOUS
  <2> QED BY <1>2, <2>1, <2>2 DEF Linked
<1> QED BY <1>1, <1>4, <1>5 DEF HeadAgrees

\* Returning a chain keeps the invariant: by then no crash can take it back.
LEMMA ReportInv ==
    ASSUME IInv, CrashSafeInv, NEW p \in Procs, ProcStep(p), ~FileSteps(p)
    PROVE  CrashSafeInv' /\ promised' \in {promised, ChainOf(disk)}
<1>1. /\ FilesOK' /\ disk' = disk /\ crashable' \subseteq crashable
      /\ (AllDurable => AllDurable') /\ (Settled => Settled')
      /\ \A q \in Procs : ProcOK(q)'
  BY QuietFiles, QuietActor
<1>2. /\ FilesOK /\ Durable /\ ProcOK(p) /\ disk \in Dirs /\ promised \in Chains
      /\ disk \in crashable /\ Types
  BY DEF CrashSafeInv, FilesOK, IInv, Types, TypeOK
<1>3. Linked(disk) /\ ChainOf(disk) \in Chains /\ IsPrefix(promised, ChainOf(disk))
  BY <1>2, LinkedChain DEF FilesOK, DirOK, Durable
<1>4. Longer(ChainOf(disk), promised) = ChainOf(disk)
  BY <1>2, <1>3, LongerIsWhole
<1>5. promised # <<>> => AllDurable
  BY <1>2 DEF Durable, AllDurable
<1>6. ChainOf(disk) # <<>> => AllDurable
  <2>1. ASSUME crashable = {NoFiles} PROVE ChainOf(disk) = <<>>
    <3> QED BY <1>2, <2>1, EmptyDirectory
  <2> QED BY <1>2, <2>1 DEF FilesOK
<1>7. CASE promised' = promised
  <2>1. Durable'
    BY <1>1, <1>2, <1>5, <1>7 DEF Durable, AllDurable
  <2> QED BY <1>1, <1>7, <2>1 DEF CrashSafeInv
<1>8. CASE promised' # promised
  <2>1. promised' = ChainOf(disk) /\ Settled
    <3>1. CASE CheckHead(p)
      <4>1. pc[p] = "check" /\ promised' = Longer(existing[p], promised)
        BY <1>8, <3>1 DEF CheckHead, Report
      <4>2. existing[p] = ChainOf(disk) /\ Settled
        BY <1>2, <4>1 DEF ProcOK, Under, PhaseOK, ReadStillHolds, Holding, Reading
      <4> QED BY <1>4, <4>1, <4>2
    <3>2. CASE SyncRemoval(p)
      <4>1. pc[p] = "sRemoval" /\ promised' = Longer(NewChain(p), promised)
        BY <3>2 DEF SyncRemoval, Report
      <4>2. NewChain(p) = ChainOf(disk) /\ Settled
        BY <1>2, <4>1 DEF ProcOK, Under, PhaseOK, ReadStillHolds, Holding, Committing
      <4> QED BY <1>4, <4>1, <4>2
    <3> QED BY <1>8, <3>1, <3>2
            DEF ProcStep, Begin, BeginLoad, BeginCore, BeginWork, CallStep, Acquire, LockCore,
                IOError, Kill, StatDir, MakeDir, SyncParent, SyncAncestors, ReadChain,
                CallCore, LeaveCore, ExtendCore, SealCore, Commit, Refuse, FileSteps
  <2>2. IsPrefix(ChainOf(disk), ChainOf(disk))
    BY <1>3 DEF IsPrefix, Chains
  <2>3. \A d \in crashable' : ChainOf(d) = ChainOf(disk)
    <3> TAKE d \in crashable'
    <3>1. d.rec = disk.rec
      BY <1>1, <2>1 DEF Settled
    <3> QED BY <3>1, SameRecords
  <2>4. Durable'
    BY <1>1, <1>6, <2>1, <2>2, <2>3 DEF Durable, AllDurable
  <2> QED BY <1>1, <2>1, <2>4 DEF CrashSafeInv
<1> QED BY <1>7, <1>8

\* A machine crash keeps it: the directory becomes one of those it could leave,
\* and a run whose directories were not durable had none to lose.
LEMMA CrashKeeps ==
    ASSUME IInv, CrashSafeInv, MachineCrash
    PROVE  /\ CrashSafeInv'
           /\ promised' = promised
           /\ IsPrefix(promised, ChainOf(disk'))
           /\ IsPrefix(ChainOf(disk'), ChainOf(disk))
<1>1. /\ FilesOK /\ Durable /\ disk \in Dirs /\ promised \in Chains
      /\ crashable \subseteq Dirs
      /\ path \in [Levels -> {"absent", "fresh", "durable"}]
  BY DEF CrashSafeInv, IInv, Types, TypeOK
<1>2. /\ crashable' = {disk'} /\ pc' = [p \in Procs |-> "idle"]
      /\ ordered' = ordered /\ promised' = promised
      /\ \/ disk' \in crashable /\ path' = path
         \/ disk' = NoFiles /\ \E l \in Levels : path[l] = "fresh"
  BY DEF MachineCrash
<1>3. disk' \in crashable /\ (AllDurable' \/ disk' = NoFiles)
      /\ (promised # <<>> => AllDurable')
  <2>1. CASE disk' \in crashable /\ path' = path
    BY <1>1, <2>1 DEF FilesOK, Durable, AllDurable
  <2>2. CASE disk' = NoFiles /\ \E l \in Levels : path[l] = "fresh"
    <3>1. ~AllDurable
      BY <2>2 DEF AllDurable
    <3> QED BY <1>1, <2>2, <3>1 DEF FilesOK, Durable, AllDurable
  <2> QED BY <1>2, <2>1, <2>2
<1>4. /\ Linked(disk') /\ IsPrefix(ChainOf(disk'), ChainOf(disk))
      /\ ordered => HeadAgrees(disk')
      /\ IsPrefix(promised, ChainOf(disk'))
  BY <1>1, <1>3 DEF FilesOK, DirOK, Durable
<1>5. IsPrefix(ChainOf(disk'), ChainOf(disk'))
  <2>1. disk' \in Dirs
    BY <1>1, <1>3
  <2>2. ChainOf(disk') \in Chains
    BY <2>1, <1>4, LinkedChain
  <2> QED BY <2>2 DEF IsPrefix, Chains
<1>6. (\A d \in crashable : DirOK(d))'
  BY <1>2, <1>4, <1>5 DEF DirOK
<1>7. FilesOK'
  <2>1. Settled'
    BY <1>2 DEF Settled
  <2>2. (AllDurable \/ crashable = {NoFiles})'
    BY <1>2, <1>3
  <2> QED BY <1>2, <1>6, <2>1, <2>2 DEF FilesOK, PendingNamesUnsettled
<1>8. Durable'
  BY <1>2, <1>3, <1>4 DEF Durable, AllDurable
<1>9. \A p \in Procs : ProcOK(p)'
  <2> TAKE p \in Procs
  <2>1. pc'[p] = "idle"
    BY <1>2
  <2> QED BY <2>1, OutsideKnows DEF Holding, Reading, Working, Committing
<1> QED BY <1>2, <1>4, <1>7, <1>8, <1>9 DEF CrashSafeInv

\* A run no command has touched is safe from crashes.
LEMMA InitCrashSafe == Init => CrashSafeInv
<1> SUFFICES ASSUME Init PROVE CrashSafeInv
  OBVIOUS
<1>1. disk = NoFiles /\ crashable = {NoFiles} /\ promised = <<>>
      /\ pc = [p \in Procs |-> "idle"]
  BY DEF Init
<1>2. IsPrefix(<<>>, <<>>)
  BY EmptyPrefix, EmptyTyped
<1>3. FilesOK
  BY <1>1, <1>2, EmptyDirectory DEF FilesOK, DirOK, PendingNamesUnsettled, Settled
<1>4. Durable
  BY <1>1, <1>2, EmptyDirectory DEF Durable
<1>5. \A p \in Procs : ProcOK(p)
  BY <1>1 DEF ProcOK, Under, Holding, Reading, Working, Committing
<1> QED BY <1>3, <1>4, <1>5 DEF CrashSafeInv

\* Every step of the commands, and a machine crash at any point, keeps it.
LEMMA NextCrashSafe == IInv /\ CrashSafeInv /\ [Next]_vars => CrashSafeInv'
<1> SUFFICES ASSUME IInv, CrashSafeInv, [Next]_vars PROVE CrashSafeInv'
  OBVIOUS
<1>1. ASSUME NEW p \in Procs, ProcStep(p) PROVE CrashSafeInv'
  BY <1>1, RecoverInv, CommitInv, RecordInv, ReportInv DEF FileSteps
<1>2. CASE UNCHANGED vars
  BY <1>2 DEF vars, files, cores, locals, CrashSafeInv, FilesOK, DirOK, ProcOK, Durable,
              PendingNamesUnsettled, Settled, AllDurable, Under, PhaseOK, HeadOK, NewChain
<1> QED BY <1>1, <1>2, CrashKeeps DEF Next, ProcStep

\* Whatever a machine crash leaves of the host records, under any interleaving
\* of commands, failures and earlier crashes, can be read and lacks nothing
\* that was returned or acknowledged, the directories above it included.
THEOREM CrashSafeHolds == Spec => []CrashSafe
<1>1. CrashSafeInv => CrashSafe
  <2> SUFFICES ASSUME CrashSafeInv PROVE Readable /\ Durable
    BY DEF CrashSafe
  <2>1. Readable
    BY DEF CrashSafeInv, FilesOK, DirOK, HeadAgrees, Readable
  <2> QED BY <2>1 DEF CrashSafeInv
<1>2. IInv /\ [Next]_vars => IInv'
  BY ProcStepInv, CrashInv, StutterInv DEF Next, ProcStep
<1> QED BY InitInv, InitCrashSafe, NextCrashSafe, <1>1, <1>2, PTL DEF Spec

-----------------------------------------------------------------------------
(* The files implement the abstract log.                                   *)

\* Every step is a step of the log or leaves it alone.
LEMMA NextImplementsLog ==
    IInv /\ CrashSafeInv /\ [Next]_vars => [Log!LogNext]_(Log!logVars)
<1> SUFFICES ASSUME IInv, CrashSafeInv, [Next]_vars PROVE [Log!LogNext]_(Log!logVars)
  OBVIOUS
<1>1. ASSUME NEW p \in Procs, ProcStep(p), ~FileSteps(p)
      PROVE  [Log!LogNext]_(Log!logVars)
  <2>1. promised' \in {promised, ChainOf(disk)} /\ disk' = disk
    BY <1>1, ReportInv, QuietFiles
  <2> QED BY <2>1 DEF Log!LogNext, Log!Seal, Log!logVars
<1>2. ASSUME NEW p \in Procs, FileSteps(p), ~WriteRecord(p)
      PROVE  [Log!LogNext]_(Log!logVars)
  <2>1. RecordsKept
    BY <1>2, HeadSet, PendingSet, Synced DEF FileSteps, SyncStep, CrashSafeInv
  <2>2. ChainOf(disk') = ChainOf(disk) /\ promised' = promised
    BY <1>2, <2>1, SameRecords, FileStepFrame DEF RecordsKept
  <2> QED BY <2>2 DEF Log!logVars
<1>3. ASSUME NEW p \in Procs, WriteRecord(p)
      PROVE  [Log!LogNext]_(Log!logVars)
  <2>1. FileSteps(p)
    BY <1>3 DEF FileSteps
  <2>2. \E r \in Records : ChainOf(disk') = Append(ChainOf(disk), r)
    BY <1>3, RecordWritten
  <2>3. promised' = promised
    BY <2>1, FileStepFrame
  <2> QED BY <2>2, <2>3 DEF Log!LogNext, Log!Extend
<1>4. CASE MachineCrash
  BY <1>4, CrashKeeps DEF Log!LogNext, Log!Lose, Log!IsPrefix, IsPrefix
<1>5. CASE UNCHANGED vars
  BY <1>5 DEF vars, files, Log!logVars
<1> QED BY <1>1, <1>2, <1>3, <1>4, <1>5 DEF Next, ProcStep

\* The numbered record files, their anchors, the directories that lead to them
\* and the host run lock implement one append-only log whose reported part no
\* crash takes back.
THEOREM HostLogImplemented == Spec => ImplementsRunLog
<1>1. Init => Log!LogInit
  BY EmptyDirectory DEF Init, Log!LogInit
<1>2. IInv /\ [Next]_vars => IInv'
  BY ProcStepInv, CrashInv, StutterInv DEF Next, ProcStep
<1> QED BY InitInv, InitCrashSafe, NextCrashSafe, NextImplementsLog, <1>1, <1>2, PTL
        DEF Spec, ImplementsRunLog, Log!LogSpec
===============================================================================
