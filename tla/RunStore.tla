------------------------------- MODULE RunStore -------------------------------
(***************************************************************************)
(* The chained JSONL run store of src/internal/store: one run's stream,    *)
(* head anchor and pending anchor, the per-run advisory lock, and the      *)
(* processes that load and append, down to each rename and directory sync. *)
(*                                                                         *)
(* Abstractions.                                                           *)
(*  - A chain is the sequence of its records' payloads.  A head anchor is  *)
(*    the SHA-256 of a record that names its predecessor's anchor, so an   *)
(*    anchor identifies the whole chain up to its record: anchors are      *)
(*    represented by that chain (no collisions).  <<>> is "no such file":  *)
(*    a stream is never an empty file, and an anchor is never empty.       *)
(*  - A file's content is synced before the rename that installs it, so    *)
(*    only directory entries can be undone by a machine crash.  crashable  *)
(*    holds every directory content a machine crash could leave; syncing   *)
(*    the directory shrinks it to the present content.  Where ordered, the *)
(*    file system commits directory changes in the order they were made;   *)
(*    elsewhere, any subset of the unsynced ones may survive.              *)
(***************************************************************************)
EXTENDS Naturals, Sequences, FiniteSets, SequencesExt

CONSTANTS
    Procs,       \* operating-system processes that use the store
    Vals,        \* what a record may carry
    None,        \* no process
    MaxLen,      \* bound: the longest chain the processes try to build
    DirInit      \* the store directory at the start

ASSUME StoreAssumption ==
    /\ None \notin Procs
    /\ MaxLen \in Nat
    /\ DirInit \in {"absent", "durable"}

VARIABLES
    disk,       \* the store directory as every process sees it
    crashable,  \* what a machine crash could leave of it
    ordered,    \* whether directory changes reach the disk in the order made
    dir,        \* the store directory's own entry in its parent
    lock,       \* the holder of the run's flock
    pc,         \* where each process is
    op,         \* the store call each process is in
    known,      \* the chain each caller last learned from the store
    existing,   \* the chain a process read under the lock
    want,       \* the record a process is appending
    promised    \* the longest chain ever reported to a caller (auxiliary)

vars == <<disk, crashable, ordered, dir, lock, pc, op, known, existing, want, promised>>

-----------------------------------------------------------------------------
Chains == Seq(Vals)
Disks == [stream : Chains, head : Chains, pending : Chains]
NoFiles == [stream |-> <<>>, head |-> <<>>, pending |-> <<>>]
NoRecord == [pred |-> <<>>, val |-> None]

\* Points at which the run lock is held and a system call may fail.
Reading == {"read", "recHead", "recSync", "recRemove", "check"}
Committing == {"append", "wPending", "sPending", "wStream", "sStream",
               "wHead", "sHead", "rmPending"}
Holding == Reading \cup Committing \cup {"inTx"}
PCs == Holding \cup {"idle", "statHead", "statPending", "lock"}

\* The chain that appending a process's record would produce.
UnfilledChain(p) == Append(want[p].pred, None)   \* mutant: the payload is lost
NewChain(p) == Append(want[p].pred, want[p].val)

Longer(c, d) == IF Len(c) > Len(d) THEN c ELSE d

\* The anchor loadLocked compares with the chain tail, once recoverPending has
\* completed or discarded an interrupted commit found in directory content d.
AnchorAfterRecovery(d) ==
    IF d.pending # <<>> /\ d.pending = d.stream THEN d.stream ELSE d.head

Init ==
    /\ disk = NoFiles
    /\ crashable = {NoFiles}
    /\ ordered \in BOOLEAN
    /\ dir = DirInit
    /\ lock = None
    /\ pc = [p \in Procs |-> "idle"]
    /\ op = [p \in Procs |-> "load"]
    /\ known = [p \in Procs |-> <<>>]
    /\ existing = [p \in Procs |-> <<>>]
    /\ want = [p \in Procs |-> NoRecord]
    /\ promised = <<>>

-----------------------------------------------------------------------------
(* Directory operations.                                                   *)

\* os.Rename of a synced temporary file onto f, or os.Remove (c = <<>>).
SetFile(f, c) ==
    /\ disk' = [disk EXCEPT ![f] = c]
    /\ crashable' = IF ordered
                    THEN crashable \cup {disk'}
                    ELSE crashable \cup {[d EXCEPT ![f] = c] : d \in crashable}
    /\ UNCHANGED ordered

\* Mutant: a rename is never followed by a directory sync.
SyncDirSkipped == UNCHANGED <<disk, crashable, ordered>>

\* syncDir on the store directory: every entry in it is durable.
SyncDir ==
    /\ crashable' = {disk}
    /\ UNCHANGED <<disk, ordered>>

Goto(p, l) == pc' = [pc EXCEPT ![p] = l]

\* Mutant: the lock is not released when the call returns.
ReturnLocked(p) ==
    /\ Goto(p, "idle")
    /\ existing' = [existing EXCEPT ![p] = <<>>]
    /\ want' = [want EXCEPT ![p] = NoRecord]
    /\ UNCHANGED lock

\* The deferred unlockRun, and the call's return.
Return(p) ==
    /\ Goto(p, "idle")
    /\ lock' = None
    /\ existing' = [existing EXCEPT ![p] = <<>>]
    /\ want' = [want EXCEPT ![p] = NoRecord]

\* The call reports chain c to its caller.
Report(p, c) ==
    /\ known' = [known EXCEPT ![p] = c]
    /\ promised' = Longer(c, promised)

-----------------------------------------------------------------------------
(* Calls.                                                                  *)

\* Load, WithRunLock and Transact look for the run's files one after another,
\* outside the lock: any file found sends the call for the lock, and a run
\* none was found of is reported empty (Transact's callback cannot append).
StatStream(p) ==
    /\ pc[p] = "idle"
    /\ \E o \in {"load", "transact"} : op' = [op EXCEPT ![p] = o]
    /\ Goto(p, IF disk.stream = <<>> THEN "statHead" ELSE "lock")
    /\ UNCHANGED <<disk, crashable, ordered, dir, lock, known, existing, want, promised>>

StatHead(p) ==
    /\ pc[p] = "statHead"
    /\ Goto(p, IF disk.head = <<>> THEN "statPending" ELSE "lock")
    /\ UNCHANGED <<disk, crashable, ordered, dir, lock, op, known, existing, want, promised>>

StatPending(p) ==
    /\ pc[p] = "statPending"
    /\ IF disk.pending = <<>>
       THEN Goto(p, "idle") /\ known' = [known EXCEPT ![p] = <<>>]
       ELSE Goto(p, "lock") /\ UNCHANGED known
    /\ UNCHANGED <<disk, crashable, ordered, dir, lock, op, existing, want, promised>>

\* Append of a record built on the chain the caller last learned; MkdirAll
\* creates a missing store directory and syncs nothing.
AppendBegin(p) ==
    /\ pc[p] = "idle"
    /\ Len(known[p]) < MaxLen
    /\ \E v \in Vals :
          want' = [want EXCEPT ![p] = [pred |-> known[p], val |-> v]]
    /\ dir' = IF dir = "absent" THEN "fresh" ELSE dir
    /\ Goto(p, "lock")
    /\ op' = [op EXCEPT ![p] = "append"]
    /\ UNCHANGED <<disk, crashable, ordered, lock, known, existing, promised>>

\* Mutant: a shared lock.
AcquireShared(p) ==
    /\ pc[p] = "lock"
    /\ lock' = p
    /\ Goto(p, "read")
    /\ UNCHANGED <<disk, crashable, ordered, dir, op, known, existing, want, promised>>

\* lockRun: flock(LOCK_EX).
Acquire(p) ==
    /\ pc[p] = "lock"
    /\ lock = None
    /\ lock' = p
    /\ Goto(p, "read")
    /\ UNCHANGED <<disk, crashable, ordered, dir, op, known, existing, want, promised>>

-----------------------------------------------------------------------------
(* loadLocked: readChain, recoverPending, the head comparison.             *)

\* Mutant: an interrupted commit is always discarded.
AfterReadDiscards(d) ==
    IF d.pending = <<>> THEN "check" ELSE "recRemove"

\* recoverPending's decision on the pending anchor it found.
AfterRead(d) ==
    IF d.pending = <<>> THEN "check"
    ELSE IF d.pending = d.stream THEN "recHead"
    ELSE "recRemove"

ReadChain(p) ==
    /\ pc[p] = "read"
    /\ existing' = [existing EXCEPT ![p] = disk.stream]
    /\ Goto(p, AfterRead(disk))
    /\ UNCHANGED <<disk, crashable, ordered, dir, lock, op, known, want, promised>>

RecoverHead(p) ==
    /\ pc[p] = "recHead"
    /\ SetFile("head", existing[p])
    /\ Goto(p, "recSync")
    /\ UNCHANGED <<dir, lock, op, known, existing, want, promised>>

RecoverSync(p) ==
    /\ pc[p] = "recSync"
    /\ SyncDir
    /\ Goto(p, "recRemove")
    /\ UNCHANGED <<dir, lock, op, known, existing, want, promised>>

RecoverRemove(p) ==
    /\ pc[p] = "recRemove"
    /\ SetFile("pending", <<>>)
    /\ Goto(p, "check")
    /\ UNCHANGED <<dir, lock, op, known, existing, want, promised>>

\* "host head mismatch", or a head without a stream: the run is unreadable.
HeadMismatch(p) ==
    /\ pc[p] = "check"
    /\ disk.head # existing[p]
    /\ Return(p)
    /\ UNCHANGED <<disk, crashable, ordered, dir, op, known, promised>>

LoadReturn(p) ==
    /\ pc[p] = "check"
    /\ disk.head = existing[p]
    /\ op[p] = "load"
    /\ Report(p, existing[p])
    /\ Return(p)
    /\ UNCHANGED <<disk, crashable, ordered, dir, op>>

AppendLoaded(p) ==
    /\ pc[p] = "check"
    /\ disk.head = existing[p]
    /\ op[p] = "append"
    /\ Goto(p, "append")
    /\ UNCHANGED <<disk, crashable, ordered, dir, lock, op, known, existing, want, promised>>

TransactLoaded(p) ==
    /\ pc[p] = "check"
    /\ disk.head = existing[p]
    /\ op[p] = "transact"
    /\ Report(p, existing[p])
    /\ Goto(p, "inTx")
    /\ UNCHANGED <<disk, crashable, ordered, dir, lock, op, existing, want>>

\* The callback appends a record built on the chain it was given.
TransactAppend(p) ==
    /\ pc[p] = "inTx"
    /\ Len(existing[p]) < MaxLen
    /\ \E v \in Vals :
          want' = [want EXCEPT ![p] = [pred |-> existing[p], val |-> v]]
    /\ Goto(p, "append")
    /\ UNCHANGED <<disk, crashable, ordered, dir, lock, op, known, existing, promised>>

TransactEnd(p) ==
    /\ pc[p] = "inTx"
    /\ Return(p)
    /\ UNCHANGED <<disk, crashable, ordered, dir, op, known, promised>>

-----------------------------------------------------------------------------
(* appendLocked: the position check and the two-phase commit.              *)

\* The record's sequence and predecessor hash against the committed chain.
Discontinuous(p) == want[p].pred # existing[p]

AppendRefused(p) ==
    /\ pc[p] = "append"
    /\ Discontinuous(p)
    /\ Return(p)
    /\ UNCHANGED <<disk, crashable, ordered, dir, op, known, promised>>

AppendAccepted(p) ==
    /\ pc[p] = "append"
    /\ ~Discontinuous(p)
    /\ Goto(p, "wPending")
    /\ UNCHANGED <<disk, crashable, ordered, dir, lock, op, known, existing, want, promised>>

WritePending(p) ==
    /\ pc[p] = "wPending"
    /\ SetFile("pending", NewChain(p))
    /\ Goto(p, "sPending")
    /\ UNCHANGED <<dir, lock, op, known, existing, want, promised>>

SyncPending(p) ==
    /\ pc[p] = "sPending"
    /\ SyncDir
    /\ Goto(p, "wStream")
    /\ UNCHANGED <<dir, lock, op, known, existing, want, promised>>

\* The whole stream is rewritten: the chain read under the lock, then the
\* new record.
WriteStream(p) ==
    /\ pc[p] = "wStream"
    /\ SetFile("stream", Append(existing[p], want[p].val))
    /\ Goto(p, "sStream")
    /\ UNCHANGED <<dir, lock, op, known, existing, want, promised>>

SyncStream(p) ==
    /\ pc[p] = "sStream"
    /\ SyncDir
    /\ Goto(p, "wHead")
    /\ UNCHANGED <<dir, lock, op, known, existing, want, promised>>

WriteHead(p) ==
    /\ pc[p] = "wHead"
    /\ SetFile("head", NewChain(p))
    /\ Goto(p, "sHead")
    /\ UNCHANGED <<dir, lock, op, known, existing, want, promised>>

SyncHead(p) ==
    /\ pc[p] = "sHead"
    /\ SyncDir
    /\ Goto(p, "rmPending")
    /\ UNCHANGED <<dir, lock, op, known, existing, want, promised>>

\* os.Remove(pending), after which appendLocked returns success.  Append
\* releases the lock; Transact's callback goes on with the longer chain.
RemovePending(p) ==
    /\ pc[p] = "rmPending"
    /\ SetFile("pending", <<>>)
    /\ Report(p, NewChain(p))
    /\ \/ /\ op[p] = "append"
          /\ Return(p)
       \/ /\ op[p] = "transact"
          /\ Goto(p, "inTx")
          /\ existing' = [existing EXCEPT ![p] = NewChain(p)]
          /\ want' = [want EXCEPT ![p] = NoRecord]
          /\ UNCHANGED lock
    /\ UNCHANGED <<dir, op>>

-----------------------------------------------------------------------------
(* Faults.                                                                 *)

\* A system call under the lock fails: the call returns the error, the
\* deferred unlock runs, and whatever was renamed so far stays.
IOError(p) ==
    /\ pc[p] \in Holding \ {"inTx"}
    /\ Return(p)
    /\ UNCHANGED <<disk, crashable, ordered, dir, op, known, promised>>

\* The process dies; the kernel drops its lock, and its memory is gone.
Kill(p) ==
    /\ pc[p] # "idle"
    /\ Goto(p, "idle")
    /\ lock' = IF lock = p THEN None ELSE lock
    /\ known' = [known EXCEPT ![p] = <<>>]
    /\ existing' = [existing EXCEPT ![p] = <<>>]
    /\ want' = [want EXCEPT ![p] = NoRecord]
    /\ UNCHANGED <<disk, crashable, ordered, dir, op, promised>>

\* The machine stops: every process dies, and the directory comes back with
\* one of the contents its unsynced changes allow.  A store directory whose
\* own entry was never synced may not come back at all.
MachineCrash ==
    /\ \/ /\ disk' \in crashable
          /\ dir' = dir
       \/ /\ dir = "fresh"
          /\ disk' = NoFiles
          /\ dir' = "absent"
    /\ crashable' = {disk'}
    /\ lock' = None
    /\ pc' = [p \in Procs |-> "idle"]
    /\ known' = [p \in Procs |-> <<>>]
    /\ existing' = [p \in Procs |-> <<>>]
    /\ want' = [p \in Procs |-> NoRecord]
    /\ UNCHANGED <<ordered, op, promised>>

-----------------------------------------------------------------------------
\* Everything a process does inside a call, up to its return.
CallStep(p) ==
    \/ StatHead(p) \/ StatPending(p) \/ ReadChain(p) \/ RecoverHead(p) \/ RecoverSync(p) \/ RecoverRemove(p)
    \/ HeadMismatch(p) \/ LoadReturn(p) \/ AppendLoaded(p)
    \/ TransactLoaded(p) \/ TransactAppend(p) \/ TransactEnd(p)
    \/ AppendRefused(p) \/ AppendAccepted(p)
    \/ WritePending(p) \/ SyncPending(p) \/ WriteStream(p) \/ SyncStream(p)
    \/ WriteHead(p) \/ SyncHead(p) \/ RemovePending(p)

Begin(p) == StatStream(p) \/ AppendBegin(p)

Next ==
    \/ \E p \in Procs :
          Begin(p) \/ Acquire(p) \/ CallStep(p) \/ IOError(p) \/ Kill(p)
    \/ MachineCrash

Spec == Init /\ [][Next]_vars

\* A running process is scheduled; the kernel does not pass over one waiter
\* for the lock forever.  Nothing obliges anyone to start a call, or a fault
\* to happen.
Fairness ==
    \A p \in Procs : WF_vars(CallStep(p)) /\ SF_vars(Acquire(p))

FairSpec == Spec /\ Fairness

-----------------------------------------------------------------------------
(* Properties.                                                             *)

TypeOK ==
    /\ disk \in Disks
    /\ crashable \subseteq Disks
    /\ ordered \in BOOLEAN
    /\ dir \in {"absent", "fresh", "durable"}
    /\ lock \in Procs \cup {None}
    /\ pc \in [Procs -> PCs]
    /\ op \in [Procs -> {"load", "append", "transact"}]
    /\ known \in [Procs -> Chains]
    /\ existing \in [Procs -> Chains]
    /\ want \in [Procs -> [pred : Chains, val : Vals \cup {None}]]
    /\ promised \in Chains

\* Whatever the machine crashes into, the next load finds a head anchor that
\* agrees with the chain tail: an interrupted commit is completed or
\* discarded, never left unreadable (the package comment of jsonl.go).
Readable == \A d \in crashable : AnchorAfterRecovery(d) = d.stream

\* Where directory changes reach the disk in the order made, it does.
ReadableInOrder == ordered => Readable

\* A chain that a load returned or an append acknowledged is still there after
\* any machine crash: readers never see a record that can be taken back.
Durable == \A d \in crashable : IsPrefix(promised, d.stream)

\* Every call returns, whatever fails meanwhile: no error path or crash keeps
\* the lock, and no unfinished commit makes a later call wait.
CallsReturn == \A p \in Procs : pc[p] # "idle" ~> pc[p] = "idle"

\* The files, the lock and the two-phase commit implement the abstract log.
Log == INSTANCE RunLog WITH log <- disk.stream, sealed <- promised
ImplementsRunLog == Log!LogSpec
===============================================================================
