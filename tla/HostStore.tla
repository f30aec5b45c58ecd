------------------------------- MODULE HostStore -------------------------------
(***************************************************************************)
(* The host record store of src/internal/host/store.go: one run's numbered *)
(* record files, head anchor and pending anchor, the directories that lead *)
(* to them, the host run lock, and the commands that hold it while they    *)
(* read or extend the core chain.                                          *)
(*                                                                         *)
(* Abstractions, as in RunStore: an anchor identifies the chain up to its  *)
(* record and is represented by it; <<>> is "no such file"; a file's       *)
(* content is synced before it gets its name, so a machine crash only      *)
(* undoes directory changes: the latest ones where the file system commits *)
(* them in the order made (ordered), any unsynced ones elsewhere.  The core*)
(* store is taken at the level of RunLog: its chain, the part of it that   *)
(* was reported (coreSealed, which RunStore shows no crash takes back), and*)
(* its lock.  Every process runs one command after another:                *)
(*   hold      WithRunLock, around a read or append of the core chain; and *)
(*             Load, which is one that does nothing with the core chain    *)
(*   transact  Transact, whose callback reads or extends the core chain    *)
(*             and then commits a record naming the core head it saw       *)
(*   core      a command that appends to the core chain alone              *)
(***************************************************************************)
EXTENDS Naturals, Sequences, FiniteSets, SequencesExt

CONSTANTS
    Procs,       \* operating-system processes
    Vals,        \* what a record may carry
    None,        \* no process
    MaxLen,      \* bound: the longest host chain
    MaxCore      \* bound: the longest core chain

ASSUME HostStoreAssumption ==
    /\ None \notin Procs
    /\ MaxLen \in Nat
    /\ MaxCore \in Nat

VARIABLES
    disk,        \* the run's directory as every process sees it
    crashable,   \* what a machine crash could leave of it
    ordered,     \* whether directory changes reach the disk in the order made
    path,        \* a directory above the store root, the root, host/, the run's
    lock,        \* the holder of the host run lock
    core,        \* the core chain
    coreSealed,  \* the part of it ever reported
    coreLock,    \* the holder of the core run lock
    pc,          \* where each process is
    op,          \* its command
    level,       \* the directory it is creating or syncing
    existing,    \* the host chain it read under the lock
    seen,        \* the core chain it read under the core lock
    want,        \* the record it is committing
    promised     \* the longest host chain ever reported (auxiliary)

files == <<disk, crashable, ordered, path>>
cores == <<core, coreSealed, coreLock>>
locals == <<op, level, existing, seen, want>>
vars == <<files, lock, cores, pc, locals, promised>>

-----------------------------------------------------------------------------
CoreChains == UNION {[1..n -> Vals] : n \in 0..MaxCore}
Records == [val : Vals, core : CoreChains]
Chains == Seq(Records)
Dirs == [rec : [1..MaxLen -> Chains], head : Chains, pending : Chains]
NoFiles == [rec |-> [n \in 1..MaxLen |-> <<>>], head |-> <<>>, pending |-> <<>>]
NoRecord == [pred |-> <<>>, val |-> None, core |-> <<>>]

Levels == 1..4
Exists(l) == path[l] # "absent"

Reading == {"read", "recHead", "recSync", "recRemove", "recSyncRemoval", "check"}
Working == {"inTx", "wantCore", "inCore", "extended", "ready"}
Committing == {"wPending", "sPending", "wRecord", "sRecord", "wHead", "sHead",
               "rmPending", "sRemoval"}
Holding == Reading \cup Working \cup Committing
Making == {"stat", "mkdir", "syncParent", "ancestors"}
PCs == Holding \cup Making \cup {"idle", "lock"}

\* Mutant: the payload is lost.
UnfilledChain(p) == Append(want[p].pred, [val |-> None, core |-> want[p].core])

\* The chain that committing a process's record produces.
NewChain(p) == Append(want[p].pred, [val |-> want[p].val, core |-> want[p].core])

Longer(c, d) == IF Len(c) > Len(d) THEN c ELSE d

\* readChain: the record files are numbered from one without a gap, and each
\* names its predecessor.
Linked(d) ==
    \E n \in 0..MaxLen :
        /\ \A i \in 1..MaxLen : d.rec[i] # <<>> <=> i <= n
        /\ \A i \in 1..n : Len(d.rec[i]) = i
        /\ \A i \in 1..(n - 1) : IsPrefix(d.rec[i], d.rec[i + 1])

\* The chain the record files hold: the anchor of the last one.
ChainOf(d) ==
    LET present == {i \in 1..MaxLen : d.rec[i] # <<>>}
    IN  IF present = {} THEN <<>>
        ELSE d.rec[CHOOSE i \in present : \A j \in present : j <= i]

Init ==
    /\ disk = NoFiles
    /\ crashable = {NoFiles}
    /\ ordered \in BOOLEAN
    /\ path = [l \in Levels |-> "absent"]
    /\ lock = None
    /\ core = <<>> /\ coreSealed = <<>>
    /\ coreLock = None
    /\ pc = [p \in Procs |-> "idle"]
    /\ op = [p \in Procs |-> "hold"]
    /\ level = [p \in Procs |-> 1]
    /\ existing = [p \in Procs |-> <<>>]
    /\ seen = [p \in Procs |-> <<>>]
    /\ want = [p \in Procs |-> NoRecord]
    /\ promised = <<>>

-----------------------------------------------------------------------------
(* Directory operations.                                                   *)

\* A change of the directory's entries by Set, not yet synced.
Change(Set(_)) ==
    /\ disk' = Set(disk)
    /\ crashable' = crashable \cup (IF ordered THEN {disk'} ELSE {Set(d) : d \in crashable})
    /\ UNCHANGED <<ordered, path>>

\* syncDir on the run's directory.
SyncRunDir ==
    /\ crashable' = {disk}
    /\ UNCHANGED <<disk, ordered, path>>

Goto(p, l) == pc' = [pc EXCEPT ![p] = l]

\* The deferred unlocks, and the command's return.
Return(p) ==
    /\ Goto(p, "idle")
    /\ lock' = IF lock = p THEN None ELSE lock
    /\ coreLock' = IF coreLock = p THEN None ELSE coreLock
    /\ existing' = [existing EXCEPT ![p] = <<>>]
    /\ seen' = [seen EXCEPT ![p] = <<>>]
    /\ want' = [want EXCEPT ![p] = NoRecord]
    /\ level' = [level EXCEPT ![p] = 1]
    /\ op' = [op EXCEPT ![p] = "hold"]

\* The command reports host chain c to its caller.
Report(c) == promised' = Longer(c, promised)

-----------------------------------------------------------------------------
(* mkdirAllSynced and syncAncestors.                                       *)

\* A load creates nothing: a run without a directory is reported empty, and
\* the lock of any other is taken at once.
BeginLoad(p) ==
    /\ pc[p] = "idle"
    /\ Exists(4)
    /\ op' = [op EXCEPT ![p] = "hold"]
    /\ Goto(p, "lock")
    /\ UNCHANGED <<files, lock, cores, level, existing, seen, want, promised>>

\* Any other call creates the directories down to the run's (Transact) or the
\* one above it (WithRunLock).
BeginWork(p, o) ==
    /\ pc[p] = "idle"
    /\ op' = [op EXCEPT ![p] = o]
    /\ level' = [level EXCEPT ![p] = IF o = "hold" THEN 3 ELSE 4]
    /\ Goto(p, "stat")
    /\ UNCHANGED <<files, lock, cores, existing, seen, want, promised>>

\* Stat: a directory that exists needs its parent synced; one that does not
\* is created after its parents are.
StatDir(p) ==
    /\ pc[p] = "stat"
    /\ IF Exists(level[p])
       THEN Goto(p, "syncParent") /\ UNCHANGED level
       ELSE IF level[p] = 1
            THEN Goto(p, "mkdir") /\ UNCHANGED level
            ELSE level' = [level EXCEPT ![p] = @ - 1] /\ UNCHANGED pc
    /\ UNCHANGED <<files, lock, cores, op, existing, seen, want, promised>>

MakeDir(p) ==
    /\ pc[p] = "mkdir"
    /\ path' = [path EXCEPT ![level[p]] = IF @ = "absent" THEN "fresh" ELSE @]
    /\ Goto(p, "syncParent")
    /\ UNCHANGED <<disk, crashable, ordered, lock, cores, locals, promised>>

\* syncDir(parent), then back up towards the directory asked for.
SyncParent(p) ==
    LET asked == IF op[p] = "hold" THEN 3 ELSE 4 IN
    /\ pc[p] = "syncParent"
    /\ path' = [path EXCEPT ![level[p]] = "durable"]
    /\ IF level[p] = asked
       THEN /\ Goto(p, IF op[p] = "hold" THEN "lock" ELSE "ancestors")
            /\ level' = [level EXCEPT ![p] = 1]
       ELSE /\ Goto(p, "mkdir")
            /\ level' = [level EXCEPT ![p] = @ + 1]
    /\ UNCHANGED <<disk, crashable, ordered, lock, cores, op, existing, seen, want, promised>>

\* Mutant: only the run's own entry was synced.
AncestorsSkipped(p) ==
    /\ pc[p] = "ancestors"
    /\ Goto(p, "lock")
    /\ UNCHANGED <<files, lock, cores, locals, promised>>

\* Every directory on the way to the run's, one syncDir after another.
SyncAncestors(p) ==
    /\ pc[p] = "ancestors"
    /\ path' = [l \in Levels |-> "durable"]
    /\ Goto(p, "lock")
    /\ UNCHANGED <<disk, crashable, ordered, lock, cores, locals, promised>>

-----------------------------------------------------------------------------
(* The lock, and loadLocked.                                               *)

\* Mutant: a shared lock.
AcquireShared(p) ==
    /\ pc[p] = "lock"
    /\ lock' = p
    /\ Goto(p, "read")
    /\ UNCHANGED <<files, cores, locals, promised>>

Acquire(p) ==
    /\ pc[p] = "lock"
    /\ lock = None
    /\ lock' = p
    /\ Goto(p, "read")
    /\ UNCHANGED <<files, cores, locals, promised>>

\* Mutant: an interrupted commit is always discarded.
AfterReadDiscards(d) == IF d.pending = <<>> THEN "check" ELSE "recRemove"

AfterRead(d) ==
    IF d.pending = <<>> THEN "check"
    ELSE IF d.pending = ChainOf(d) THEN "recHead"
    ELSE "recRemove"

\* readChain fails on a gap or a broken link.
ReadChain(p) ==
    /\ pc[p] = "read"
    /\ IF Linked(disk)
       THEN /\ existing' = [existing EXCEPT ![p] = ChainOf(disk)]
            /\ Goto(p, AfterRead(disk))
            /\ UNCHANGED <<lock, coreLock, op, level, seen, want>>
       ELSE Return(p)
    /\ UNCHANGED <<files, core, coreSealed, promised>>

RecoverHead(p) ==
    LET Set(d) == [d EXCEPT !.head = existing[p]] IN
    /\ pc[p] = "recHead"
    /\ Change(Set)
    /\ Goto(p, "recSync")
    /\ UNCHANGED <<lock, cores, locals, promised>>

RecoverSync(p) ==
    /\ pc[p] = "recSync"
    /\ SyncRunDir
    /\ Goto(p, "recRemove")
    /\ UNCHANGED <<lock, cores, locals, promised>>

RecoverRemove(p) ==
    LET Set(d) == [d EXCEPT !.pending = <<>>] IN
    /\ pc[p] = "recRemove"
    /\ Change(Set)
    /\ Goto(p, "recSyncRemoval")
    /\ UNCHANGED <<lock, cores, locals, promised>>

RecoverSyncRemoval(p) ==
    /\ pc[p] = "recSyncRemoval"
    /\ SyncRunDir
    /\ Goto(p, "check")
    /\ UNCHANGED <<lock, cores, locals, promised>>

\* The head anchor must be the chain's tail.
CheckHead(p) ==
    /\ pc[p] = "check"
    /\ IF disk.head = existing[p]
       THEN /\ Report(existing[p])
            /\ Goto(p, "inTx")
            /\ UNCHANGED <<lock, coreLock, locals>>
       ELSE Return(p) /\ UNCHANGED promised
    /\ UNCHANGED <<files, core, coreSealed>>

-----------------------------------------------------------------------------
(* The core chain, under its own lock.                                     *)

\* Append to the core chain alone; its MkdirAll creates the store root and what
\* is missing above it, and syncs nothing.
BeginCore(p) ==
    /\ pc[p] = "idle"
    /\ op' = [op EXCEPT ![p] = "core"]
    /\ path' = [l \in Levels |->
                    IF l \in {1, 2} /\ ~Exists(l) THEN "fresh" ELSE path[l]]
    /\ Goto(p, "wantCore")
    /\ UNCHANGED <<disk, crashable, ordered, lock, cores, level, existing, seen, want, promised>>

\* The callback under the host lock calls the core store.  From here it waits
\* for the core lock, still holding its own, and can do nothing else.
CallCore(p) ==
    /\ pc[p] = "inTx"
    /\ Goto(p, "wantCore")
    /\ UNCHANGED <<files, lock, cores, locals, promised>>

\* lockRun and loadLocked of the core store.
LockCore(p) ==
    /\ pc[p] = "wantCore"
    /\ coreLock = None
    /\ coreLock' = p
    /\ coreSealed' = core
    /\ seen' = [seen EXCEPT ![p] = core]
    /\ Goto(p, "inCore")
    /\ UNCHANGED <<files, lock, core, op, level, existing, want, promised>>

\* A read of the core chain ends before the host commit; Transact keeps the
\* core lock only if it appends.
LeaveCore(p) ==
    /\ pc[p] = "inCore"
    /\ IF op[p] = "transact"
       THEN /\ coreLock' = None
            /\ Goto(p, "ready")
            /\ UNCHANGED <<lock, locals>>
       ELSE Return(p)
    /\ UNCHANGED <<files, core, coreSealed, promised>>

ExtendCore(p) ==
    /\ pc[p] = "inCore"
    /\ Len(core) < MaxCore
    /\ \E v \in Vals : core' = Append(core, v)
    /\ Goto(p, "extended")
    /\ UNCHANGED <<files, lock, coreSealed, coreLock, locals, promised>>

\* Mutant: the host record names a core record before it is durable.
SealCoreLate(p) ==
    /\ pc[p] = "extended"
    /\ seen' = [seen EXCEPT ![p] = core]
    /\ Goto(p, IF op[p] = "transact" THEN "ready" ELSE "inCore")
    /\ UNCHANGED <<files, lock, cores, op, level, existing, want, promised>>

\* Mutant: a command that extends the core chain alone takes the host lock as
\* well before it gives up the core lock.
SealCoreThenHost(p) ==
    /\ pc[p] = "extended"
    /\ op[p] = "core" => lock = None
    /\ coreSealed' = core
    /\ IF op[p] = "transact"
       THEN /\ seen' = [seen EXCEPT ![p] = core]
            /\ Goto(p, "ready")
            /\ UNCHANGED <<lock, coreLock, op, level, existing, want>>
       ELSE Return(p)
    /\ UNCHANGED <<files, core, promised>>

\* The core append is acknowledged; the core lock stays held to the commit.
SealCore(p) ==
    /\ pc[p] = "extended"
    /\ coreSealed' = core
    /\ IF op[p] = "transact"
       THEN /\ seen' = [seen EXCEPT ![p] = core]
            /\ Goto(p, "ready")
            /\ UNCHANGED <<lock, coreLock, op, level, existing, want>>
       ELSE Return(p)
    /\ UNCHANGED <<files, core, promised>>

-----------------------------------------------------------------------------
(* commitLocked.                                                           *)

\* The callback builds the record on the history it was given.
Commit(p) ==
    /\ pc[p] = "ready"
    /\ Len(existing[p]) < MaxLen
    /\ \E v \in Vals :
          want' = [want EXCEPT ![p] = [pred |-> existing[p], val |-> v, core |-> seen[p]]]
    /\ Goto(p, "wPending")
    /\ UNCHANGED <<files, lock, cores, op, level, existing, seen, promised>>

\* The callback refuses, before it calls the core store or after it has read or
\* extended the core chain.
Refuse(p) ==
    /\ pc[p] \in {"inTx", "ready"}
    /\ Return(p)
    /\ UNCHANGED <<files, core, coreSealed, promised>>

WritePending(p) ==
    LET Set(d) == [d EXCEPT !.pending = NewChain(p)] IN
    /\ pc[p] = "wPending"
    /\ Change(Set)
    /\ Goto(p, "sPending")
    /\ UNCHANGED <<lock, cores, locals, promised>>

SyncPending(p) ==
    /\ pc[p] = "sPending"
    /\ SyncRunDir
    /\ Goto(p, "wRecord")
    /\ UNCHANGED <<lock, cores, locals, promised>>

\* atomicCreate: a link under the next number, never over an existing file.
WriteRecord(p) ==
    LET n == Len(existing[p]) + 1
        Set(d) == [d EXCEPT !.rec[n] = NewChain(p)]
    IN  /\ pc[p] = "wRecord"
        /\ disk.rec[n] = <<>>
        /\ Change(Set)
        /\ Goto(p, "sRecord")
        /\ UNCHANGED <<lock, cores, locals, promised>>

SyncRecord(p) ==
    /\ pc[p] = "sRecord"
    /\ SyncRunDir
    /\ Goto(p, "wHead")
    /\ UNCHANGED <<lock, cores, locals, promised>>

WriteHead(p) ==
    LET Set(d) == [d EXCEPT !.head = NewChain(p)] IN
    /\ pc[p] = "wHead"
    /\ Change(Set)
    /\ Goto(p, "sHead")
    /\ UNCHANGED <<lock, cores, locals, promised>>

SyncHead(p) ==
    /\ pc[p] = "sHead"
    /\ SyncRunDir
    /\ Goto(p, "rmPending")
    /\ UNCHANGED <<lock, cores, locals, promised>>

RemovePending(p) ==
    LET Set(d) == [d EXCEPT !.pending = <<>>] IN
    /\ pc[p] = "rmPending"
    /\ Change(Set)
    /\ Goto(p, "sRemoval")
    /\ UNCHANGED <<lock, cores, locals, promised>>

\* The last sync, and success.
SyncRemoval(p) ==
    /\ pc[p] = "sRemoval"
    /\ SyncRunDir
    /\ Report(NewChain(p))
    /\ Return(p)
    /\ UNCHANGED <<core, coreSealed>>

-----------------------------------------------------------------------------
(* Faults.                                                                 *)

\* A system call fails: the error is returned, the deferred unlocks run, and
\* what was written so far stays.
IOError(p) ==
    /\ pc[p] \in Making \cup Reading \cup Committing \cup {"extended"}
    /\ Return(p)
    /\ UNCHANGED <<files, core, coreSealed, promised>>

\* The process dies anywhere; the kernel drops its locks.
Kill(p) ==
    /\ pc[p] # "idle"
    /\ Return(p)
    /\ UNCHANGED <<files, core, coreSealed, promised>>

\* The machine stops.  A directory whose entry was never synced may be lost
\* with all below it: the store root holds the core chain as well.
MachineCrash ==
    /\ \E n \in Len(coreSealed)..Len(core) :
          \/ /\ disk' \in crashable
             /\ core' = SubSeq(core, 1, n)
             /\ UNCHANGED path
          \/ \E l \in Levels :
                /\ path[l] = "fresh"
                /\ path' = [k \in Levels |-> IF k < l THEN path[k] ELSE "absent"]
                /\ disk' = NoFiles
                /\ core' = IF l \in {1, 2} THEN <<>> ELSE SubSeq(core, 1, n)
    /\ coreSealed' = IF Len(core') < Len(coreSealed) THEN core' ELSE coreSealed
    /\ crashable' = {disk'}
    /\ lock' = None
    /\ coreLock' = None
    /\ pc' = [p \in Procs |-> "idle"]
    /\ op' = [p \in Procs |-> "hold"]
    /\ level' = [p \in Procs |-> 1]
    /\ existing' = [p \in Procs |-> <<>>]
    /\ seen' = [p \in Procs |-> <<>>]
    /\ want' = [p \in Procs |-> NoRecord]
    /\ UNCHANGED <<ordered, promised>>

-----------------------------------------------------------------------------
CallStep(p) ==
    \/ StatDir(p) \/ MakeDir(p) \/ SyncParent(p) \/ SyncAncestors(p)
    \/ ReadChain(p) \/ RecoverHead(p) \/ RecoverSync(p)
    \/ RecoverRemove(p) \/ RecoverSyncRemoval(p) \/ CheckHead(p)
    \/ CallCore(p) \/ LeaveCore(p) \/ ExtendCore(p) \/ SealCore(p) \/ Commit(p) \/ Refuse(p)
    \/ WritePending(p) \/ SyncPending(p) \/ WriteRecord(p) \/ SyncRecord(p)
    \/ WriteHead(p) \/ SyncHead(p) \/ RemovePending(p) \/ SyncRemoval(p)

Begin(p) ==
    \/ BeginLoad(p) \/ BeginCore(p)
    \/ \E o \in {"hold", "transact"} : BeginWork(p, o)

Next ==
    \/ \E p \in Procs :
          Begin(p) \/ Acquire(p) \/ LockCore(p) \/ CallStep(p) \/ IOError(p) \/ Kill(p)
    \/ MachineCrash

Spec == Init /\ [][Next]_vars

\* As in RunStore: a running process is scheduled, and the kernel passes over
\* no waiter for a lock forever.  A process at either lock can do nothing but
\* take it (or be killed, which no fairness promises), so a process that can go
\* on again and again goes on.
Fairness ==
    \A p \in Procs : SF_vars(CallStep(p) \/ Acquire(p) \/ LockCore(p))

FairSpec == Spec /\ Fairness

-----------------------------------------------------------------------------
(* Properties.                                                             *)

\* Types, and which process holds which lock where.
TypeOK ==
    /\ disk \in Dirs
    /\ crashable \subseteq Dirs
    /\ ordered \in BOOLEAN
    /\ path \in [Levels -> {"absent", "fresh", "durable"}]
    /\ lock \in Procs \cup {None}
    /\ core \in CoreChains /\ coreSealed \in CoreChains
    /\ coreLock \in Procs \cup {None}
    /\ pc \in [Procs -> PCs]
    /\ op \in [Procs -> {"hold", "transact", "core"}]
    /\ level \in [Procs -> Levels]
    /\ existing \in [Procs -> Chains]
    /\ seen \in [Procs -> CoreChains]
    /\ want \in [Procs -> [pred : Chains, val : Vals \cup {None}, core : CoreChains]]
    /\ promised \in Chains
    /\ \A p \in Procs : pc[p] \in Holding /\ op[p] # "core" => lock = p
    /\ \A p \in Procs : pc[p] \in {"inCore", "extended"} => coreLock = p

\* Whatever a machine crash leaves, the record files are linked without a gap;
\* and on an ordered file system their tail is the head anchor, once the next
\* load has completed or discarded an interrupted append.
Readable ==
    \A d \in crashable :
        /\ Linked(d)
        /\ ordered /\ (d.pending = <<>> \/ d.pending # ChainOf(d)) => d.head = ChainOf(d)

\* A host chain that was loaded or acknowledged survives every machine crash,
\* the run's first record and the directories above it included.
Durable ==
    /\ \A d \in crashable : IsPrefix(promised, ChainOf(d))
    /\ promised # <<>> => \A l \in Levels : path[l] = "durable"

\* A machine crash leaves a host chain that can be read and lacks nothing.
CrashSafe == Readable /\ Durable

\* A host record never outlives the core record it names: whatever a crash
\* leaves of both chains, the core head each committed host record was built
\* on is still in the core chain, and later records name later heads.
HostNamesCore ==
    \A d \in crashable :
        LET c == ChainOf(d) IN
        \A i \in DOMAIN c :
            /\ IsPrefix(c[i].core, coreSealed)
            /\ \A j \in 1..(i - 1) : IsPrefix(c[j].core, c[i].core)

\* Every command returns, one that waits for the core lock while it holds the
\* host lock included: no path keeps a lock, and as both are taken host first,
\* nobody waits for one while holding what its holder needs.
CommandsReturn == \A p \in Procs : pc[p] # "idle" ~> pc[p] = "idle"

\* The files, directories and lock implement the abstract log.
Log == INSTANCE RunLog WITH Vals <- Records, log <- ChainOf(disk), sealed <- promised
ImplementsRunLog == Log!LogSpec
===============================================================================
