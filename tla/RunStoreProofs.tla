---------------------------- MODULE RunStoreProofs ----------------------------
(***************************************************************************)
(* Proofs about RunStore, for every set of processes, every set of record  *)
(* payloads and every chain length.                                        *)
(*                                                                         *)
(* Durable is not inductive: that a chain reported now survives a crash    *)
(* rests on the stream having been synced by then, and that rests on the   *)
(* pending anchor naming the stream for as long as it is not synced.       *)
(* Settled says the stream is synced; IInv says where in a call it must be.*)
(***************************************************************************)
EXTENDS RunStore, TLAPS

\* No machine crash can change the record stream.
Settled == \A d \in crashable : d.stream = disk.stream

\* An unsynced stream is named by the pending anchor.
PendingNamesUnsettled ==
    \/ Settled
    \/ disk.pending # <<>> /\ disk.pending = disk.stream

\* What process p, holding the lock, knows of the directory at each point.
PhaseOK(p) ==
    /\ pc[p] \in {"recHead", "recSync", "recRemove", "check", "append",
                  "wPending", "sPending", "wStream", "inTx"}
          => existing[p] = disk.stream
    /\ pc[p] \in {"recHead", "recSync"}
          => disk.pending # <<>> /\ disk.pending = disk.stream
    /\ pc[p] \in {"recRemove", "check", "append", "wPending", "sPending",
                  "wStream", "wHead", "sHead", "rmPending", "inTx"}
          => Settled
    /\ pc[p] \in {"wPending", "sPending", "wStream", "sStream", "wHead",
                  "sHead", "rmPending"}
          => want[p].pred = existing[p] /\ want[p].val \in Vals
    /\ pc[p] \in {"sPending", "wStream", "sStream"} => disk.pending = NewChain(p)
    /\ pc[p] \in {"sStream", "wHead", "sHead", "rmPending"}
          => disk.stream = NewChain(p)
    /\ op[p] = "append" /\ pc[p] \in {"lock", "read", "recHead", "recSync",
                                      "recRemove", "check", "append"}
          => want[p].val \in Vals
    /\ op[p] = "transact" /\ pc[p] = "append" => want[p].val \in Vals
    /\ pc[p] = "append" => op[p] \in {"append", "transact"}
    /\ pc[p] = "inTx" => op[p] = "transact"
    /\ pc[p] \in {"statHead", "statPending"} => op[p] # "append"

IInv ==
    /\ TypeOK
    /\ \A p \in Procs : pc[p] \in Holding => lock = p
    /\ disk \in crashable
    /\ DirInit = "durable" => dir = "durable"
    /\ PendingNamesUnsettled
    /\ \A d \in crashable : IsPrefix(d.stream, disk.stream)
    /\ \A p \in Procs : PhaseOK(p)
    /\ DirInit = "durable" => Durable

-----------------------------------------------------------------------------
(* Prefixes.                                                               *)

\* Loading an unchanged stream returns a chain that extends itself.
LEMMA PrefixReflexive ==
    ASSUME NEW c \in Chains
    PROVE  IsPrefix(c, c)
BY DEF IsPrefix, Chains

\* The chain a commit writes extends the one it read by its record.
LEMMA PrefixOfAppend ==
    ASSUME NEW c \in Chains, NEW v \in Vals
    PROVE  /\ Append(c, v) \in Chains
           /\ Append(c, v) # <<>>
           /\ IsPrefix(c, Append(c, v))
BY DEF IsPrefix, Chains

\* A chain that extends an extension of another extends that one too.
LEMMA PrefixTransitive ==
    ASSUME NEW c \in Chains, NEW d \in Chains, NEW e \in Chains,
           IsPrefix(c, d), IsPrefix(d, e)
    PROVE  IsPrefix(c, e)
<1>1. Len(c) <= Len(d) /\ Len(d) <= Len(e)
  BY DEF IsPrefix, Chains
<1>2. \A i \in 1..Len(c) : c[i] = d[i]
  <2>1. SubSeq(c, 1, Len(c)) = SubSeq(d, 1, Len(c))
    BY DEF IsPrefix
  <2>2. \A i \in 1..Len(c) : SubSeq(c, 1, Len(c))[i] = c[i]
                             /\ SubSeq(d, 1, Len(c))[i] = d[i]
    BY <1>1 DEF Chains
  <2> QED BY <2>1, <2>2
<1>3. \A i \in 1..Len(d) : d[i] = e[i]
  <2>1. SubSeq(d, 1, Len(d)) = SubSeq(e, 1, Len(d))
    BY DEF IsPrefix
  <2>2. \A i \in 1..Len(d) : SubSeq(d, 1, Len(d))[i] = d[i]
                             /\ SubSeq(e, 1, Len(d))[i] = e[i]
    BY <1>1 DEF Chains
  <2> QED BY <2>1, <2>2
<1>4. SubSeq(c, 1, Len(c)) = SubSeq(e, 1, Len(c))
  <2>1. \A i \in 1..Len(c) : c[i] = e[i]
    BY <1>1, <1>2, <1>3 DEF Chains
  <2> QED BY <1>1, <2>1 DEF Chains
<1> QED BY <1>1, <1>4 DEF IsPrefix, Chains

\* Reporting a chain that extends what was promised promises that chain's
\* prefixes only.
LEMMA LongerIsPrefix ==
    ASSUME NEW c \in Chains, NEW s \in Chains, IsPrefix(s, c)
    PROVE  Longer(c, s) \in Chains /\ IsPrefix(Longer(c, s), c)
BY PrefixReflexive DEF Longer

-----------------------------------------------------------------------------
(* What the directory operations do to the streams a crash could leave.    *)

StreamsKept ==
    /\ disk' \in Disks
    /\ crashable' \subseteq Disks
    /\ disk' \in crashable'
    /\ disk'.stream = disk.stream
    /\ \A d \in crashable' : \E e \in crashable : d.stream = e.stream
    /\ ordered' = ordered

\* Replacing or removing the head or the pending anchor changes no stream,
\* neither the visible one nor one a crash could leave.
LEMMA SetAnchorKeepsStreams ==
    ASSUME disk \in Disks, crashable \subseteq Disks, disk \in crashable,
           NEW f \in {"head", "pending"}, NEW c \in Chains, SetFile(f, c)
    PROVE  /\ StreamsKept
           /\ disk'[f] = c
           /\ \A g \in {"head", "pending"} \ {f} : disk'[g] = disk[g]
<1>1. \A d \in Disks : /\ [d EXCEPT ![f] = c] \in Disks
                       /\ [d EXCEPT ![f] = c].stream = d.stream
  BY DEF Disks
<1>2. disk' = [disk EXCEPT ![f] = c]
  BY DEF SetFile
<1>3. CASE ordered
  BY <1>1, <1>2, <1>3 DEF SetFile, StreamsKept, Disks
<1>4. CASE ~ordered
  <2>1. /\ crashable' = crashable \cup {[d EXCEPT ![f] = c] : d \in crashable}
        /\ ordered' = ordered
    BY <1>4 DEF SetFile
  <2> QED BY <1>1, <1>2, <2>1 DEF StreamsKept, Disks
<1> QED BY <1>3, <1>4

\* Syncing the directory changes nothing visible and settles the stream.
LEMMA SyncKeepsStreams ==
    ASSUME disk \in Disks, disk \in crashable, SyncDir
    PROVE  StreamsKept /\ disk' = disk /\ Settled'
BY DEF SyncDir, StreamsKept, Settled

\* A step that keeps the streams and promises nothing new.
LEMMA StreamsKeptSafe ==
    ASSUME StreamsKept, promised' = promised
    PROVE  /\ Settled => Settled'
           /\ (\A d \in crashable : IsPrefix(d.stream, disk.stream))
                => (\A d \in crashable : IsPrefix(d.stream, disk.stream))'
           /\ Durable => Durable'
BY DEF StreamsKept, Settled, Durable

-----------------------------------------------------------------------------
(* The invariant.                                                          *)

\* A store whose run has no files satisfies the invariant.
LEMMA InitIInv == Init => IInv
<1> SUFFICES ASSUME Init PROVE IInv
  OBVIOUS
<1>1. <<>> \in Chains
  BY DEF Chains
<1>2. TypeOK
  BY <1>1, StoreAssumption
     DEF Init, TypeOK, Disks, NoFiles, NoRecord, PCs, Holding
<1>3. Settled /\ Durable /\ (\A d \in crashable : IsPrefix(d.stream, disk.stream))
  BY <1>1, PrefixReflexive DEF Init, Settled, Durable, NoFiles
<1>4. \A p \in Procs : PhaseOK(p)
  BY DEF Init, PhaseOK
<1> QED
  BY <1>2, <1>3, <1>4
     DEF Init, IInv, PendingNamesUnsettled, Holding, Reading, Committing

\* A step inside process p's call that releases nothing and leaves the other
\* processes where they are keeps the lock discipline.
LockOK == \A p \in Procs : pc[p] \in Holding => lock = p

\* The facts about a process other than the lock holder are about its own
\* call alone, and survive any step that leaves it alone.
LEMMA OthersOK ==
    ASSUME IInv, NEW q \in Procs, pc'[q] = pc[q], pc[q] \notin Holding,
           op'[q] = op[q], want'[q] = want[q]
    PROVE  PhaseOK(q)'
BY DEF IInv, PhaseOK, Holding, Reading, Committing

\* Reporting the present stream when no crash can change it keeps Durable.
LEMMA ReportDurable ==
    ASSUME TypeOK, Durable, Settled, StreamsKept, disk \in crashable,
           promised' = Longer(disk.stream, promised)
    PROVE  Durable'
<1>1. disk.stream \in Chains /\ promised \in Chains
      /\ IsPrefix(promised, disk.stream)
  BY DEF TypeOK, Durable, Disks
<1>2. IsPrefix(promised', disk.stream)
  BY <1>1, LongerIsPrefix
<1> QED BY <1>2 DEF Durable, Settled, StreamsKept

\* Calls that touch neither the directory nor the promise.
QuietStep(p) ==
    \/ StatStream(p) \/ StatHead(p) \/ StatPending(p) \/ AppendBegin(p)
    \/ Acquire(p) \/ ReadChain(p) \/ HeadMismatch(p) \/ AppendLoaded(p)
    \/ TransactAppend(p) \/ TransactEnd(p) \/ AppendRefused(p)
    \/ AppendAccepted(p) \/ IOError(p) \/ Kill(p)

\* Reading, waiting for the lock and giving up keep the types.
LEMMA QuietStepType ==
    ASSUME TypeOK, NEW p \in Procs, QuietStep(p)
    PROVE  TypeOK'
<1>1. <<>> \in Chains
  BY DEF Chains
<1> USE <1>1, StoreAssumption
    DEF TypeOK, Disks, NoRecord, PCs, Holding, Reading, Committing, Goto, Return
<1>2. CASE StatStream(p) \/ StatHead(p) \/ StatPending(p)
  BY <1>2 DEF StatStream, StatHead, StatPending
<1>3. CASE AppendBegin(p)
  <2>1. PICK v \in Vals :
          want' = [want EXCEPT ![p] = [pred |-> known[p], val |-> v]]
    BY <1>3 DEF AppendBegin
  <2>2. [pred |-> known[p], val |-> v] \in [pred : Chains, val : Vals \cup {None}]
    OBVIOUS
  <2>3. want' \in [Procs -> [pred : Chains, val : Vals \cup {None}]]
    BY <2>1, <2>2
  <2> QED BY <1>3, <2>3 DEF AppendBegin
<1>8. CASE TransactAppend(p)
  <2>1. PICK v \in Vals :
          want' = [want EXCEPT ![p] = [pred |-> existing[p], val |-> v]]
    BY <1>8 DEF TransactAppend
  <2>2. [pred |-> existing[p], val |-> v] \in [pred : Chains, val : Vals \cup {None}]
    OBVIOUS
  <2>3. want' \in [Procs -> [pred : Chains, val : Vals \cup {None}]]
    BY <2>1, <2>2
  <2> QED BY <1>8, <2>3 DEF TransactAppend
<1>4. CASE Acquire(p) \/ ReadChain(p)
  BY <1>4 DEF Acquire, ReadChain, AfterRead
<1>5. CASE HeadMismatch(p) \/ TransactEnd(p) \/ AppendRefused(p) \/ IOError(p)
  <2>1. Return(p) /\ UNCHANGED <<disk, crashable, ordered, dir, op, known, promised>>
    BY <1>5 DEF HeadMismatch, TransactEnd, AppendRefused, IOError
  <2>2. [pred |-> <<>>, val |-> None] \in [pred : Chains, val : Vals \cup {None}]
    OBVIOUS
  <2>3. want' \in [Procs -> [pred : Chains, val : Vals \cup {None}]]
    BY <2>1, <2>2
  <2>4. existing' \in [Procs -> Chains] /\ pc' \in [Procs -> PCs]
    BY <2>1
  <2> QED BY <2>1, <2>3, <2>4
<1>6. CASE AppendLoaded(p) \/ AppendAccepted(p)
  BY <1>6 DEF AppendLoaded, AppendAccepted
<1>7. CASE Kill(p)
  <2>1. [pred |-> <<>>, val |-> None] \in [pred : Chains, val : Vals \cup {None}]
    OBVIOUS
  <2>2. want' \in [Procs -> [pred : Chains, val : Vals \cup {None}]]
    BY <1>7, <2>1 DEF Kill
  <2> QED BY <1>7, <2>2 DEF Kill
<1> QED BY <1>2, <1>3, <1>4, <1>5, <1>6, <1>7, <1>8 DEF QuietStep

\* Reading, waiting for the lock, giving up and being killed keep the
\* invariant: what a dead process left half done stays recoverable.
LEMMA QuietStepIInv ==
    ASSUME IInv, NEW p \in Procs, QuietStep(p)
    PROVE  IInv'
<1>1. TypeOK'
  BY QuietStepType DEF IInv
<1>2. /\ disk' = disk /\ crashable' = crashable /\ promised' = promised
      /\ dir = "durable" => dir' = "durable"
  BY DEF QuietStep, StatStream, StatHead, StatPending, AppendBegin, Acquire,
         ReadChain, HeadMismatch, AppendLoaded, TransactAppend, TransactEnd,
         AppendRefused, AppendAccepted, IOError, Kill
<1>3. LockOK'
  BY StoreAssumption
     DEF IInv, TypeOK, LockOK, QuietStep, StatStream, StatHead, StatPending,
         AppendBegin, Acquire, ReadChain, AfterRead, HeadMismatch,
         AppendLoaded, TransactAppend, TransactEnd, AppendRefused,
         AppendAccepted, IOError, Kill, Goto, Return, Holding, Reading,
         Committing
<1>4. ASSUME NEW q \in Procs, q # p PROVE PhaseOK(q)'
  <2>1. pc'[q] = pc[q] /\ op'[q] = op[q] /\ want'[q] = want[q]
        /\ existing'[q] = existing[q]
    BY <1>4
       DEF IInv, TypeOK, QuietStep, StatStream, StatHead, StatPending,
           AppendBegin, Acquire, ReadChain, HeadMismatch, AppendLoaded,
           TransactAppend, TransactEnd, AppendRefused, AppendAccepted,
           IOError, Kill, Goto, Return
  <2> QED BY <1>2, <2>1 DEF IInv, PhaseOK, NewChain, Settled
<1>5. PhaseOK(p)'
  <2> USE DEF IInv, TypeOK, PhaseOK, Goto, Return
  <2>1. CASE StatStream(p) \/ StatHead(p) \/ StatPending(p)
    <3>1. pc'[p] \notin Holding /\ (pc'[p] # "idle" => op'[p] # "append")
      BY <2>1 DEF StatStream, StatHead, StatPending, Holding, Reading,
                  Committing
    <3> QED BY <2>1, <3>1 DEF StatStream, StatHead, StatPending, Holding,
                              Reading, Committing
  <2>9. CASE AppendBegin(p)
    <3>1. PICK v \in Vals :
            want' = [want EXCEPT ![p] = [pred |-> known[p], val |-> v]]
      BY <2>9 DEF AppendBegin
    <3>2. want'[p].val \in Vals
      BY <3>1
    <3> QED BY <2>9, <3>2 DEF AppendBegin
  <2>2. CASE Acquire(p)
    BY <2>2 DEF Acquire
  <2>3. CASE ReadChain(p)
    BY <2>3, <1>2 DEF ReadChain, AfterRead, PendingNamesUnsettled, Settled
  <2>4. CASE HeadMismatch(p) \/ TransactEnd(p) \/ AppendRefused(p) \/ IOError(p)
    BY <2>4 DEF HeadMismatch, TransactEnd, AppendRefused, IOError
  <2>5. CASE AppendLoaded(p)
    BY <2>5 DEF AppendLoaded, Settled
  <2>6. CASE TransactAppend(p)
    <3>1. PICK v \in Vals :
            want' = [want EXCEPT ![p] = [pred |-> existing[p], val |-> v]]
      BY <2>6 DEF TransactAppend
    <3>2. want'[p].val \in Vals
      BY <3>1
    <3> QED BY <2>6, <3>2 DEF TransactAppend, Settled
  <2>7. CASE AppendAccepted(p)
    BY <2>7 DEF AppendAccepted, Discontinuous, Settled
  <2>8. CASE Kill(p)
    BY <2>8 DEF Kill
  <2> QED BY <2>1, <2>2, <2>3, <2>4, <2>5, <2>6, <2>7, <2>8, <2>9 DEF QuietStep
<1> QED
  BY <1>1, <1>2, <1>3, <1>4, <1>5
     DEF IInv, LockOK, PendingNamesUnsettled, Settled, Durable

-----------------------------------------------------------------------------
(* Steps that change the directory or the promise.                         *)

\* The lock holder's own steps leave every other process, none of which is
\* Holding, where it was.
OthersLeft(p) ==
    \A q \in Procs \ {p} :
        pc'[q] = pc[q] /\ op'[q] = op[q] /\ want'[q] = want[q]

\* What a step of the lock holder has to establish for the invariant to
\* survive it: the facts of every other process follow.
LEMMA HolderIInv ==
    ASSUME IInv, NEW p \in Procs, pc[p] \in Holding, OthersLeft(p),
           TypeOK', disk' \in crashable', dir' = dir,
           PendingNamesUnsettled',
           (\A d \in crashable : IsPrefix(d.stream, disk.stream))',
           pc'[p] \in Holding => lock' = p,
           PhaseOK(p)',
           Durable => Durable'
    PROVE  IInv'
<1>1. \A q \in Procs \ {p} : pc[q] \notin Holding
  BY DEF IInv
<1>2. \A q \in Procs \ {p} : PhaseOK(q)'
  BY <1>1, OthersOK DEF OthersLeft
<1>3. LockOK'
  BY <1>1 DEF OthersLeft, LockOK
<1> QED BY <1>2, <1>3 DEF IInv, LockOK

\* The same for a step that leaves the streams alone.
LEMMA AnchorIInv ==
    ASSUME IInv, NEW p \in Procs, pc[p] \in Holding, OthersLeft(p),
           TypeOK', StreamsKept, dir' = dir,
           Settled' \/ (disk'.pending # <<>> /\ disk'.pending = disk'.stream),
           pc'[p] \in Holding => lock' = p,
           PhaseOK(p)',
           Durable => Durable'
    PROVE  IInv'
<1>1. (\A d \in crashable : IsPrefix(d.stream, disk.stream))'
  BY DEF StreamsKept, IInv
<1>2. disk' \in crashable'
  BY DEF StreamsKept
<1>3. PendingNamesUnsettled'
  BY DEF PendingNamesUnsettled
<1> QED BY <1>1, <1>2, <1>3, HolderIInv

\* Promoting the head anchor, syncing and removing the pending one keep the
\* invariant: recovery settles the stream before it forgets the commit.
LEMMA RecoverStepIInv ==
    ASSUME IInv, NEW p \in Procs,
           RecoverHead(p) \/ RecoverSync(p) \/ RecoverRemove(p)
    PROVE  IInv'
<1>1. /\ TypeOK /\ disk \in Disks /\ crashable \subseteq Disks
      /\ disk \in crashable /\ existing[p] \in Chains /\ <<>> \in Chains
      /\ PhaseOK(p) /\ PendingNamesUnsettled
  BY DEF IInv, TypeOK, Chains
<1>2. /\ pc[p] \in Holding /\ lock' = lock /\ lock = p /\ OthersLeft(p)
      /\ dir' = dir /\ promised' = promised
  BY DEF IInv, TypeOK, RecoverHead, RecoverSync, RecoverRemove, Goto,
         OthersLeft, Holding, Reading
<1>3. StreamsKept
  BY <1>1, SetAnchorKeepsStreams, SyncKeepsStreams
     DEF RecoverHead, RecoverSync, RecoverRemove
<1>4. TypeOK'
  BY <1>1, <1>3
     DEF TypeOK, StreamsKept, RecoverHead, RecoverSync, RecoverRemove, Goto,
         PCs, Holding, Reading
<1>5. (Settled => Settled') /\ (Durable => Durable')
  BY <1>2, <1>3, StreamsKeptSafe
<1>6. CASE RecoverHead(p)
  <2>1. disk'.pending = disk.pending /\ disk'.stream = disk.stream
    BY <1>1, <1>3, <1>6, SetAnchorKeepsStreams DEF RecoverHead, StreamsKept
  <2>2. PhaseOK(p)'
    BY <1>1, <1>6, <2>1 DEF RecoverHead, PhaseOK, Goto, TypeOK
  <2>3. disk'.pending # <<>> /\ disk'.pending = disk'.stream
    BY <1>1, <1>6, <2>1 DEF RecoverHead, PhaseOK
  <2> QED BY <1>2, <1>3, <1>4, <1>5, <2>2, <2>3, AnchorIInv
<1>7. CASE RecoverSync(p)
  <2>1. disk' = disk /\ Settled'
    BY <1>1, <1>7, SyncKeepsStreams DEF RecoverSync
  <2>2. PhaseOK(p)'
    BY <1>1, <1>7, <2>1 DEF RecoverSync, PhaseOK, Goto, TypeOK
  <2> QED BY <1>2, <1>3, <1>4, <1>5, <2>1, <2>2, AnchorIInv
<1>8. CASE RecoverRemove(p)
  <2>1. Settled' /\ disk'.stream = disk.stream
    BY <1>1, <1>3, <1>5, <1>8 DEF RecoverRemove, PhaseOK, StreamsKept
  <2>2. PhaseOK(p)'
    BY <1>1, <1>8, <2>1 DEF RecoverRemove, PhaseOK, Goto, TypeOK
  <2> QED BY <1>2, <1>3, <1>4, <1>5, <2>1, <2>2, AnchorIInv
<1> QED BY <1>6, <1>7, <1>8

\* Returning a chain keeps the invariant: by then no crash can take it back.
LEMMA ReportStepIInv ==
    ASSUME IInv, NEW p \in Procs, LoadReturn(p) \/ TransactLoaded(p)
    PROVE  IInv'
<1>1. /\ TypeOK /\ disk \in Disks /\ crashable \subseteq Disks
      /\ disk \in crashable /\ existing[p] \in Chains /\ <<>> \in Chains
      /\ PhaseOK(p) /\ promised \in Chains
  BY DEF IInv, TypeOK, Chains
<1>2. /\ pc[p] = "check" /\ pc[p] \in Holding /\ lock = p
      /\ disk' = disk /\ crashable' = crashable /\ dir' = dir
      /\ ordered' = ordered /\ promised' = Longer(existing[p], promised)
  BY DEF IInv, LoadReturn, TransactLoaded, Report, Holding, Reading
<1>3. OthersLeft(p) /\ (pc'[p] \in Holding => lock' = p)
  BY <1>2 DEF TypeOK, IInv, LoadReturn, TransactLoaded, Report, Return, Goto,
              OthersLeft, Holding, Reading, Committing
<1>4. existing[p] = disk.stream /\ Settled
  BY <1>1, <1>2 DEF PhaseOK
<1>5. StreamsKept /\ Settled'
  BY <1>1, <1>2, <1>4 DEF StreamsKept, Settled
<1>6. promised' \in Chains
  BY <1>1, <1>2 DEF Longer
<1>7. TypeOK'
  <2>1. NoRecord \in [pred : Chains, val : Vals \cup {None}]
    BY <1>1 DEF NoRecord
  <2>2. want' \in [Procs -> [pred : Chains, val : Vals \cup {None}]]
    BY <2>1 DEF TypeOK, IInv, LoadReturn, TransactLoaded, Return
  <2>3. pc' \in [Procs -> PCs] /\ lock' \in Procs \cup {None}
    BY DEF IInv, TypeOK, LoadReturn, TransactLoaded, Return, Goto, PCs, Holding
  <2>4. known' \in [Procs -> Chains]
    BY <1>1 DEF TypeOK, LoadReturn, TransactLoaded, Report
  <2>5. existing' \in [Procs -> Chains] /\ op' = op
    BY <1>1 DEF TypeOK, LoadReturn, TransactLoaded, Return
  <2> QED BY <1>1, <1>2, <1>6, <2>2, <2>3, <2>4, <2>5 DEF TypeOK
<1>8. PhaseOK(p)'
  BY <1>1, <1>2, <1>4, <1>5
     DEF TypeOK, PhaseOK, LoadReturn, TransactLoaded, Return, Goto
<1>9. Durable => Durable'
  BY <1>1, <1>2, <1>4, <1>5, ReportDurable
<1> QED BY <1>2, <1>3, <1>5, <1>7, <1>8, <1>9, AnchorIInv

\* The two-phase commit.  Until the stream is replaced the pending anchor is
\* ahead of it; from then until the stream is synced it names it.
CommitStep(p) ==
    \/ WritePending(p) \/ SyncPending(p) \/ WriteStream(p) \/ SyncStream(p)
    \/ WriteHead(p) \/ SyncHead(p)

\* What holds whenever a commit is about to take a step.
LEMMA CommitFacts ==
    ASSUME IInv, NEW p \in Procs, CommitStep(p)
    PROVE  /\ TypeOK /\ disk \in Disks /\ crashable \subseteq Disks
           /\ disk \in crashable /\ existing[p] \in Chains
           /\ NewChain(p) \in Chains /\ NewChain(p) # <<>>
           /\ NewChain(p) = Append(existing[p], want[p].val)
           /\ IsPrefix(existing[p], NewChain(p))
           /\ pc[p] \in Holding /\ lock' = lock /\ lock = p
           /\ OthersLeft(p) /\ dir' = dir /\ promised' = promised
           /\ PhaseOK(p)
<1>1. pc[p] \in {"wPending", "sPending", "wStream", "sStream", "wHead", "sHead"}
  BY DEF CommitStep, WritePending, SyncPending, WriteStream, SyncStream,
         WriteHead, SyncHead
<1>2. TypeOK /\ disk \in crashable /\ PhaseOK(p)
      /\ (pc[p] \in Holding => lock = p)
  BY DEF IInv
<1>3. pc[p] \in Holding /\ lock = p
  BY <1>1, <1>2 DEF Holding, Committing
<1>4. want[p].pred = existing[p] /\ want[p].val \in Vals
      /\ existing[p] \in Chains
  BY <1>1, <1>2 DEF PhaseOK, TypeOK
<1>5. /\ NewChain(p) \in Chains /\ NewChain(p) # <<>>
      /\ NewChain(p) = Append(existing[p], want[p].val)
      /\ IsPrefix(existing[p], NewChain(p))
  BY <1>4, PrefixOfAppend DEF NewChain
<1>6. OthersLeft(p) /\ lock' = lock /\ dir' = dir /\ promised' = promised
  BY <1>2 DEF TypeOK, OthersLeft, CommitStep, WritePending, SyncPending,
              WriteStream, SyncStream, WriteHead, SyncHead, Goto
<1> QED BY <1>2, <1>3, <1>4, <1>5, <1>6 DEF TypeOK

\* The steps of a commit that write an anchor or sync keep the invariant.
LEMMA CommitAnchorIInv ==
    ASSUME IInv, NEW p \in Procs,
           WritePending(p) \/ SyncPending(p) \/ SyncStream(p) \/ WriteHead(p)
             \/ SyncHead(p)
    PROVE  IInv'
<1>1. CommitStep(p)
  BY DEF CommitStep
<1>2. /\ TypeOK /\ disk \in Disks /\ crashable \subseteq Disks
      /\ disk \in crashable /\ NewChain(p) \in Chains
      /\ pc[p] \in Holding /\ lock' = lock /\ lock = p
      /\ OthersLeft(p) /\ dir' = dir /\ promised' = promised
      /\ PhaseOK(p)
  BY <1>1, CommitFacts
<1>3. StreamsKept
  BY <1>2, SetAnchorKeepsStreams, SyncKeepsStreams
     DEF WritePending, SyncPending, SyncStream, WriteHead, SyncHead
<1>4. TypeOK'
  BY <1>2, <1>3
     DEF TypeOK, StreamsKept, WritePending, SyncPending, SyncStream,
         WriteHead, SyncHead, Goto, PCs, Holding, Committing
<1>5. (Settled => Settled') /\ (Durable => Durable')
  BY <1>2, <1>3, StreamsKeptSafe
<1>6. NewChain(p)' = NewChain(p) /\ disk'.stream = disk.stream
  BY <1>3 DEF NewChain, StreamsKept, WritePending, SyncPending, SyncStream,
              WriteHead, SyncHead
<1>7. Settled'
  <2>1. CASE SyncStream(p)
    BY <1>2, <2>1, SyncKeepsStreams DEF SyncStream
  <2>2. CASE ~SyncStream(p)
    BY <1>2, <1>5, <2>2
       DEF PhaseOK, WritePending, SyncPending, WriteHead, SyncHead
  <2> QED BY <2>1, <2>2
<1>8. WritePending(p) => disk'.pending = NewChain(p)
  BY <1>2, SetAnchorKeepsStreams DEF WritePending
<1>9. SyncPending(p) => disk' = disk
  BY DEF SyncPending, SyncDir
<1>10. PhaseOK(p)'
  BY <1>2, <1>6, <1>7, <1>8, <1>9
     DEF TypeOK, PhaseOK, WritePending, SyncPending, SyncStream, WriteHead,
         SyncHead, Goto
<1> QED BY <1>2, <1>3, <1>4, <1>5, <1>7, <1>10, AnchorIInv

\* What a crash could leave while the stream is unsynced: the old chain or
\* the new one, which extends it by one record.
LEMMA WriteStreamIInv ==
    ASSUME IInv, NEW p \in Procs, WriteStream(p)
    PROVE  IInv'
<1> DEFINE new == NewChain(p)
<1>1. CommitStep(p)
  BY DEF CommitStep
<1>2. /\ TypeOK /\ disk \in Disks /\ crashable \subseteq Disks
      /\ disk \in crashable /\ new \in Chains /\ new # <<>>
      /\ new = Append(existing[p], want[p].val)
      /\ IsPrefix(existing[p], new)
      /\ pc[p] \in Holding /\ lock' = lock /\ lock = p
      /\ OthersLeft(p) /\ dir' = dir /\ promised' = promised
      /\ PhaseOK(p)
  BY <1>1, CommitFacts
<1>3. Settled /\ existing[p] = disk.stream /\ disk.pending = new
  BY <1>2 DEF PhaseOK, WriteStream
<1>4. /\ disk' = [disk EXCEPT !.stream = new]
      /\ crashable' = IF ordered
                      THEN crashable \cup {disk'}
                      ELSE crashable \cup {[d EXCEPT !.stream = new] : d \in crashable}
      /\ ordered' = ordered
  BY <1>2 DEF WriteStream, SetFile
<1>5. disk' \in Disks /\ disk'.stream = new /\ disk'.pending = new
  BY <1>2, <1>3, <1>4 DEF Disks
<1>6. disk' \in crashable' /\ crashable' \subseteq Disks
  <2>1. CASE ordered
    BY <1>2, <1>4, <1>5, <2>1
  <2>2. CASE ~ordered
    <3>1. crashable' = crashable \cup {[d EXCEPT !.stream = new] : d \in crashable}
      BY <1>4, <2>2
    <3>2. \A d \in crashable : [d EXCEPT !.stream = new] \in Disks
      BY <1>2 DEF Disks
    <3> QED BY <1>2, <1>4, <3>1, <3>2
  <2> QED BY <2>1, <2>2
<1>7. \A d \in crashable' : d.stream = disk.stream \/ d.stream = new
  <2>1. \A d \in crashable : d.stream = disk.stream
    BY <1>3 DEF Settled
  <2>2. \A d \in crashable : [d EXCEPT !.stream = new].stream = new
    BY <1>2 DEF Disks
  <2>3. CASE ordered
    BY <1>4, <1>5, <2>1, <2>3
  <2>4. CASE ~ordered
    <3>1. crashable' = crashable \cup {[d EXCEPT !.stream = new] : d \in crashable}
      BY <1>4, <2>4
    <3> QED BY <2>1, <2>2, <3>1
  <2> QED BY <2>3, <2>4
<1>8. IsPrefix(disk.stream, new) /\ IsPrefix(new, new)
  BY <1>2, <1>3, PrefixReflexive
<1>9. (\A d \in crashable : IsPrefix(d.stream, disk.stream))'
  BY <1>5, <1>7, <1>8
<1>10. Durable => Durable'
  <2> SUFFICES ASSUME Durable PROVE Durable'
    OBVIOUS
  <2>1. promised \in Chains /\ disk.stream \in Chains
        /\ IsPrefix(promised, disk.stream)
    BY <1>2 DEF Durable, TypeOK, Disks
  <2>2. IsPrefix(promised, new)
    BY <1>2, <1>8, <2>1, PrefixTransitive
  <2> QED BY <1>2, <1>7, <2>1, <2>2 DEF Durable
<1>11. PendingNamesUnsettled'
  BY <1>2, <1>5 DEF PendingNamesUnsettled
<1>12. TypeOK'
  BY <1>2, <1>4, <1>5, <1>6 DEF TypeOK, WriteStream, Goto, PCs, Holding, Committing
<1>13. PhaseOK(p)'
  <2>1. new' = new
    BY DEF WriteStream, NewChain
  <2> QED BY <1>2, <1>5, <2>1 DEF TypeOK, PhaseOK, WriteStream, Goto
<1> QED
  BY <1>2, <1>6, <1>9, <1>10, <1>11, <1>12, <1>13, HolderIInv

\* The end of a commit, where its record is acknowledged, keeps it.
LEMMA RemovePendingIInv ==
    ASSUME IInv, NEW p \in Procs, RemovePending(p)
    PROVE  IInv'
<1> DEFINE new == NewChain(p)
<1>1. /\ TypeOK /\ disk \in Disks /\ crashable \subseteq Disks
      /\ disk \in crashable /\ <<>> \in Chains /\ promised \in Chains
      /\ PhaseOK(p) /\ existing[p] \in Chains
      /\ pc[p] = "rmPending" /\ pc[p] \in Holding /\ lock = p
  BY DEF IInv, TypeOK, Chains, RemovePending, Holding, Committing
<1>2. disk.stream = new /\ Settled /\ new \in Chains
  BY <1>1 DEF PhaseOK, TypeOK, Disks
<1>3. StreamsKept
  BY <1>1, SetAnchorKeepsStreams DEF RemovePending
<1>4. Settled'
  BY <1>2, <1>3 DEF Settled, StreamsKept
<1>5. promised' = Longer(new, promised) /\ promised' \in Chains /\ dir' = dir
  BY <1>1, <1>2 DEF RemovePending, Report, Longer
<1>6. Durable => Durable'
  BY <1>1, <1>2, <1>3, <1>5, ReportDurable
<1>7. want' = [want EXCEPT ![p] = NoRecord] /\ op' = op
  BY DEF RemovePending, Return
<1>8. OthersLeft(p) /\ (pc'[p] \in Holding => lock' = p)
  BY <1>1, <1>7 DEF TypeOK, OthersLeft, RemovePending, Return, Goto, Holding,
                    Reading, Committing
<1>9. TypeOK'
  <2>1. NoRecord \in [pred : Chains, val : Vals \cup {None}]
    BY <1>1 DEF NoRecord
  <2>2. want' \in [Procs -> [pred : Chains, val : Vals \cup {None}]]
    BY <1>7, <2>1 DEF IInv, TypeOK
  <2>3. pc' \in [Procs -> PCs] /\ lock' \in Procs \cup {None}
    BY <1>1 DEF TypeOK, RemovePending, Return, Goto, PCs, Holding
  <2>4. known' \in [Procs -> Chains]
    BY <1>1, <1>2 DEF TypeOK, RemovePending, Report
  <2>5. existing' \in [Procs -> Chains]
    BY <1>1, <1>2 DEF TypeOK, RemovePending, Return
  <2> QED BY <1>1, <1>3, <1>5, <1>7, <2>2, <2>3, <2>4, <2>5
             DEF TypeOK, StreamsKept
<1>10. PhaseOK(p)'
  <2>1. disk'.stream = new
    BY <1>2, <1>3 DEF StreamsKept
  <2>2. CASE op[p] = "append" /\ Return(p)
    BY <1>1, <2>2 DEF TypeOK, PhaseOK, Return, Goto
  <2>3. CASE /\ op[p] = "transact" /\ Goto(p, "inTx")
             /\ existing' = [existing EXCEPT ![p] = NewChain(p)]
    BY <1>1, <1>4, <1>7, <2>1, <2>3 DEF TypeOK, PhaseOK, Goto
  <2> QED BY <2>2, <2>3 DEF RemovePending
<1> QED
  BY <1>1, <1>3, <1>4, <1>5, <1>6, <1>8, <1>9, <1>10, AnchorIInv

\* A machine crash keeps it: the directory becomes one of those it could
\* leave, and every call in progress is gone.
LEMMA MachineCrashIInv ==
    ASSUME IInv, MachineCrash
    PROVE  IInv'
<1>1. /\ TypeOK /\ crashable \subseteq Disks /\ <<>> \in Chains
      /\ NoFiles \in Disks
      /\ NoRecord \in [pred : Chains, val : Vals \cup {None}]
  BY DEF IInv, TypeOK, Chains, NoFiles, Disks, NoRecord
<1>2. crashable' = {disk'} /\ disk' \in Disks
  BY <1>1 DEF MachineCrash
<1>3. TypeOK'
  BY <1>1, <1>2 DEF TypeOK, MachineCrash, PCs
<1>4. /\ disk' \in crashable' /\ Settled'
      /\ (\A d \in crashable : IsPrefix(d.stream, disk.stream))'
  <2>1. disk'.stream \in Chains
    BY <1>2 DEF Disks
  <2> QED BY <1>2, <2>1, PrefixReflexive DEF Settled
<1>5. DirInit = "durable" => dir' = "durable" /\ Durable'
  BY <1>2 DEF IInv, MachineCrash, Durable
<1>6. LockOK' /\ \A p \in Procs : PhaseOK(p)'
  BY DEF MachineCrash, LockOK, PhaseOK, Holding, Reading, Committing
<1> QED
  BY <1>3, <1>4, <1>5, <1>6 DEF IInv, LockOK, PendingNamesUnsettled

\* Every step of the store keeps the invariant.
LEMMA NextIInv == IInv /\ [Next]_vars => IInv'
<1> SUFFICES ASSUME IInv, [Next]_vars PROVE IInv'
  OBVIOUS
<1>1. ASSUME NEW p \in Procs,
             Begin(p) \/ Acquire(p) \/ CallStep(p) \/ IOError(p) \/ Kill(p)
      PROVE  IInv'
  <2>1. CASE QuietStep(p)
    BY <2>1, QuietStepIInv
  <2>2. CASE RecoverHead(p) \/ RecoverSync(p) \/ RecoverRemove(p)
    BY <2>2, RecoverStepIInv
  <2>3. CASE LoadReturn(p) \/ TransactLoaded(p)
    BY <2>3, ReportStepIInv
  <2>4. CASE WritePending(p) \/ SyncPending(p) \/ SyncStream(p)
               \/ WriteHead(p) \/ SyncHead(p)
    BY <2>4, CommitAnchorIInv
  <2>5. CASE WriteStream(p)
    BY <2>5, WriteStreamIInv
  <2>6. CASE RemovePending(p)
    BY <2>6, RemovePendingIInv
  <2> QED BY <1>1, <2>1, <2>2, <2>3, <2>4, <2>5, <2>6
             DEF Begin, CallStep, QuietStep
<1>2. CASE UNCHANGED vars
  BY <1>2 DEF vars, IInv, TypeOK, PendingNamesUnsettled, Settled, PhaseOK,
              NewChain, Durable
<1> QED BY <1>1, <1>2, MachineCrashIInv DEF Next

\* Every variable keeps its type.
THEOREM TypeCorrect == Spec => []TypeOK
<1>1. IInv => TypeOK
  BY DEF IInv
<1> QED BY InitIInv, NextIInv, <1>1, PTL DEF Spec

\* A record once acknowledged or returned survives every machine crash, in
\* whatever order the file system commits unsynced directory changes, when
\* the store directory itself is durable.
THEOREM AcknowledgedIsDurable == DirInit = "durable" => (Spec => []Durable)
<1> SUFFICES ASSUME DirInit = "durable" PROVE Spec => []Durable
  OBVIOUS
<1>1. IInv => Durable
  BY DEF IInv
<1> QED BY InitIInv, NextIInv, <1>1, PTL DEF Spec

-----------------------------------------------------------------------------
(* A run stays readable where directory changes reach the disk in order.   *)

\* What recovery and the commit know of the head anchor: it names the stream
\* whenever the pending anchor is about to go or to be replaced.
HeadOK(p) ==
    /\ pc[p] \in {"recSync", "append", "wPending", "sPending", "wStream",
                  "sHead", "rmPending", "inTx"}
          => disk.head = disk.stream
    /\ pc[p] = "recRemove" /\ disk.pending = disk.stream
          => disk.head = disk.stream

AnchorInv ==
    /\ IInv
    /\ ReadableInOrder
    /\ \A p \in Procs : HeadOK(p)

\* A run with no files reads as an empty one.
LEMMA InitAnchors == Init => AnchorInv
<1>1. Init => ReadableInOrder /\ \A p \in Procs : HeadOK(p)
  BY DEF Init, ReadableInOrder, Readable, AnchorAfterRecovery, NoFiles, HeadOK
<1> QED BY <1>1, InitIInv DEF AnchorInv

\* Of the processes only the lock holder has anything to say of the head.
LEMMA OthersHeadOK ==
    ASSUME IInv, NEW p \in Procs, pc[p] \in Holding, OthersLeft(p)
    PROVE  \A q \in Procs \ {p} : HeadOK(q)'
BY DEF IInv, OthersLeft, HeadOK, Holding, Reading, Committing

\* Replacing one file keeps the run readable in order if the directory it
\* leaves is.
LEMMA SetFileReadable ==
    ASSUME ReadableInOrder, NEW f, NEW c, SetFile(f, c),
           ordered => (AnchorAfterRecovery(disk) = disk.stream)'
    PROVE  ReadableInOrder'
BY DEF ReadableInOrder, Readable, SetFile, AnchorAfterRecovery

\* Syncing the directory keeps it so too.
LEMMA SyncReadable ==
    ASSUME ReadableInOrder, disk \in crashable, SyncDir
    PROVE  ReadableInOrder'
BY DEF ReadableInOrder, Readable, SyncDir, AnchorAfterRecovery

\* Steps that change no file.
LEMMA QuietAnchors ==
    ASSUME AnchorInv, NEW p \in Procs,
           QuietStep(p) \/ LoadReturn(p) \/ TransactLoaded(p)
    PROVE  ReadableInOrder' /\ \A q \in Procs : HeadOK(q)'
<1>1. disk' = disk /\ crashable' = crashable /\ ordered' = ordered
  BY DEF QuietStep, StatStream, StatHead, StatPending, AppendBegin, Acquire,
         ReadChain, HeadMismatch, AppendLoaded, TransactAppend, TransactEnd,
         AppendRefused, AppendAccepted, IOError, Kill, LoadReturn, TransactLoaded
<1>2. ReadableInOrder'
  BY <1>1 DEF AnchorInv, ReadableInOrder, Readable, AnchorAfterRecovery
<1>3. \A q \in Procs \ {p} : HeadOK(q)'
  <2>1. \A q \in Procs \ {p} : pc'[q] = pc[q]
    BY DEF AnchorInv, IInv, TypeOK, QuietStep, StatStream, StatHead, StatPending,
           AppendBegin, Acquire, ReadChain, HeadMismatch, AppendLoaded,
           TransactAppend, TransactEnd, AppendRefused, AppendAccepted, IOError,
           Kill, LoadReturn, TransactLoaded, Goto, Return
  <2> QED BY <1>1, <2>1 DEF AnchorInv, HeadOK
<1>4. HeadOK(p)'
  <2> USE DEF AnchorInv, IInv, TypeOK, HeadOK, Goto, Return
  <2>1. CASE ReadChain(p)
    BY <1>1, <2>1 DEF ReadChain, AfterRead
  <2>2. CASE AppendLoaded(p) \/ TransactLoaded(p)
    BY <1>1, <2>2 DEF AppendLoaded, TransactLoaded, PhaseOK
  <2>3. CASE TransactAppend(p) \/ AppendAccepted(p)
    BY <1>1, <2>3 DEF TransactAppend, AppendAccepted
  <2>4. CASE \/ StatStream(p) \/ StatHead(p) \/ StatPending(p) \/ AppendBegin(p)
             \/ Acquire(p) \/ HeadMismatch(p) \/ TransactEnd(p)
             \/ AppendRefused(p) \/ IOError(p) \/ Kill(p) \/ LoadReturn(p)
    <3>1. pc'[p] \in {"idle", "statHead", "statPending", "lock", "read"}
      BY <2>4 DEF StatStream, StatHead, StatPending, AppendBegin, Acquire,
         HeadMismatch, TransactEnd, AppendRefused, IOError, Kill, LoadReturn
    <3> QED BY <3>1
  <2> QED BY <2>1, <2>2, <2>3, <2>4 DEF QuietStep
<1> QED BY <1>2, <1>3, <1>4

\* Recovery: the head anchor is promoted, and only then the pending anchor is
\* forgotten.
LEMMA RecoverAnchors ==
    ASSUME AnchorInv, NEW p \in Procs,
           RecoverHead(p) \/ RecoverSync(p) \/ RecoverRemove(p)
    PROVE  ReadableInOrder' /\ \A q \in Procs : HeadOK(q)'
<1>1. /\ IInv /\ TypeOK /\ disk \in Disks /\ crashable \subseteq Disks
      /\ disk \in crashable /\ PhaseOK(p) /\ HeadOK(p) /\ ReadableInOrder
      /\ existing[p] \in Chains /\ <<>> \in Chains
  BY DEF AnchorInv, IInv, TypeOK, Chains
<1>2. pc[p] \in Holding /\ OthersLeft(p)
  BY <1>1 DEF TypeOK, RecoverHead, RecoverSync, RecoverRemove, Goto, OthersLeft,
              Holding, Reading
<1>3. CASE RecoverHead(p)
  <2>1. /\ disk' = [disk EXCEPT !.head = existing[p]]
        /\ existing[p] = disk.stream /\ disk.pending = disk.stream
        /\ SetFile("head", existing[p]) /\ pc'[p] = "recSync"
    BY <1>1, <1>3 DEF RecoverHead, SetFile, PhaseOK, Goto, TypeOK
  <2>2. disk'.head = disk'.stream
    BY <1>1, <2>1 DEF Disks
  <2>3. (AnchorAfterRecovery(disk) = disk.stream)'
    BY <2>2 DEF AnchorAfterRecovery
  <2> QED BY <1>1, <1>2, <2>1, <2>2, <2>3, SetFileReadable, OthersHeadOK DEF HeadOK
<1>4. CASE RecoverSync(p)
  <2>1. disk' = disk /\ disk.head = disk.stream /\ SyncDir /\ pc'[p] = "recRemove"
    BY <1>1, <1>4 DEF RecoverSync, SyncDir, HeadOK, Goto, TypeOK
  <2> QED BY <1>1, <1>2, <2>1, SyncReadable, OthersHeadOK DEF HeadOK
<1>5. CASE RecoverRemove(p)
  <2>1. /\ disk' = [disk EXCEPT !.pending = <<>>]
        /\ SetFile("pending", <<>>) /\ pc'[p] = "check"
    BY <1>1, <1>5 DEF RecoverRemove, SetFile, Goto, TypeOK
  <2>2. ordered => disk.head = disk.stream
    BY <1>1, <1>5 DEF RecoverRemove, HeadOK, ReadableInOrder, Readable,
                      AnchorAfterRecovery
  <2>3. disk'.pending = <<>> /\ disk'.head = disk.head /\ disk'.stream = disk.stream
    BY <1>1, <2>1 DEF Disks
  <2>4. ordered => (AnchorAfterRecovery(disk) = disk.stream)'
    BY <2>2, <2>3 DEF AnchorAfterRecovery
  <2> QED BY <1>1, <1>2, <2>1, <2>4, SetFileReadable, OthersHeadOK DEF HeadOK
<1> QED BY <1>3, <1>4, <1>5

\* The commit: while the pending anchor is ahead of the stream the head names
\* the stream, and while the head is behind it the pending anchor does.
LEMMA CommitAnchors ==
    ASSUME AnchorInv, NEW p \in Procs, CommitStep(p) \/ RemovePending(p)
    PROVE  ReadableInOrder' /\ \A q \in Procs : HeadOK(q)'
<1>1. /\ IInv /\ TypeOK /\ disk \in Disks /\ crashable \subseteq Disks
      /\ disk \in crashable /\ PhaseOK(p) /\ HeadOK(p) /\ ReadableInOrder
      /\ <<>> \in Chains
  BY DEF AnchorInv, IInv, TypeOK, Chains
<1>2. pc[p] \in Holding /\ OthersLeft(p)
  <2>1. CASE CommitStep(p)
    BY <1>1, <2>1, CommitFacts
  <2>2. CASE RemovePending(p)
    BY <1>1, <2>2 DEF TypeOK, OthersLeft, RemovePending, Return, Goto, Holding,
                      Committing
  <2> QED BY <2>1, <2>2
<1>3. CASE SyncPending(p) \/ SyncStream(p) \/ SyncHead(p)
  <2>1. SyncDir /\ disk' = disk
    BY <1>3 DEF SyncPending, SyncStream, SyncHead, SyncDir
  <2>2. HeadOK(p)'
    BY <1>1, <1>3, <2>1 DEF SyncPending, SyncStream, SyncHead, Goto, TypeOK, HeadOK
  <2> QED BY <1>1, <1>2, <2>1, <2>2, SyncReadable, OthersHeadOK
<1>4. CASE WritePending(p)
  <2>1. /\ SetFile("pending", NewChain(p)) /\ pc'[p] = "sPending"
        /\ disk' = [disk EXCEPT !.pending = NewChain(p)]
        /\ disk.head = disk.stream
    BY <1>1, <1>4 DEF WritePending, SetFile, Goto, TypeOK, HeadOK
  <2>2. disk'.head = disk'.stream
    BY <1>1, <2>1 DEF Disks
  <2>3. (AnchorAfterRecovery(disk) = disk.stream)'
    BY <2>2 DEF AnchorAfterRecovery
  <2> QED BY <1>1, <1>2, <2>1, <2>2, <2>3, SetFileReadable, OthersHeadOK DEF HeadOK
<1>5. CASE WriteStream(p)
  <2>1. CommitStep(p)
    BY <1>5 DEF CommitStep
  <2>2. /\ NewChain(p) \in Chains /\ NewChain(p) # <<>>
        /\ NewChain(p) = Append(existing[p], want[p].val)
    BY <1>1, <2>1, CommitFacts
  <2>3. /\ SetFile("stream", NewChain(p)) /\ pc'[p] = "sStream"
        /\ disk' = [disk EXCEPT !.stream = NewChain(p)]
        /\ disk.pending = NewChain(p)
    BY <1>1, <1>5, <2>2 DEF WriteStream, SetFile, Goto, TypeOK, PhaseOK
  <2>4. disk'.stream = NewChain(p) /\ disk'.pending = NewChain(p)
    BY <1>1, <2>2, <2>3 DEF Disks
  <2>5. (AnchorAfterRecovery(disk) = disk.stream)'
    BY <2>2, <2>4 DEF AnchorAfterRecovery
  <2> QED BY <1>1, <1>2, <2>3, <2>5, SetFileReadable, OthersHeadOK DEF HeadOK
<1>6. CASE WriteHead(p)
  <2>1. /\ SetFile("head", NewChain(p)) /\ pc'[p] = "sHead"
        /\ disk' = [disk EXCEPT !.head = NewChain(p)]
        /\ disk.stream = NewChain(p)
    BY <1>1, <1>6 DEF WriteHead, SetFile, Goto, TypeOK, PhaseOK
  <2>2. disk'.head = disk'.stream
    BY <1>1, <2>1 DEF Disks
  <2>3. (AnchorAfterRecovery(disk) = disk.stream)'
    BY <2>2 DEF AnchorAfterRecovery
  <2> QED BY <1>1, <1>2, <2>1, <2>2, <2>3, SetFileReadable, OthersHeadOK DEF HeadOK
<1>7. CASE RemovePending(p)
  <2>1. /\ SetFile("pending", <<>>) /\ pc'[p] \in {"idle", "inTx"}
        /\ disk' = [disk EXCEPT !.pending = <<>>]
        /\ disk.head = disk.stream
    BY <1>1, <1>7 DEF RemovePending, SetFile, Goto, Return, TypeOK, HeadOK
  <2>2. disk'.head = disk'.stream
    BY <1>1, <2>1 DEF Disks
  <2>3. (AnchorAfterRecovery(disk) = disk.stream)'
    BY <2>2 DEF AnchorAfterRecovery
  <2> QED BY <1>1, <1>2, <2>1, <2>2, <2>3, SetFileReadable, OthersHeadOK DEF HeadOK
<1> QED BY <1>3, <1>4, <1>5, <1>6, <1>7 DEF CommitStep

\* Every step of the store keeps the anchors in order.
LEMMA NextAnchors == AnchorInv /\ [Next]_vars => AnchorInv'
<1> SUFFICES ASSUME AnchorInv, [Next]_vars PROVE AnchorInv'
  OBVIOUS
<1>1. IInv'
  BY NextIInv DEF AnchorInv
<1>2. ASSUME NEW p \in Procs,
             Begin(p) \/ Acquire(p) \/ CallStep(p) \/ IOError(p) \/ Kill(p)
      PROVE  ReadableInOrder' /\ \A q \in Procs : HeadOK(q)'
  BY <1>2, QuietAnchors, RecoverAnchors, CommitAnchors
     DEF Begin, CallStep, QuietStep, CommitStep
<1>3. CASE MachineCrash
  <2>1. ReadableInOrder'
    BY <1>3 DEF AnchorInv, MachineCrash, ReadableInOrder, Readable,
                AnchorAfterRecovery, NoFiles
  <2>2. \A q \in Procs : HeadOK(q)'
    BY <1>3 DEF MachineCrash, HeadOK
  <2> QED BY <1>1, <2>1, <2>2 DEF AnchorInv
<1>4. CASE UNCHANGED vars
  BY <1>1, <1>4 DEF vars, AnchorInv, ReadableInOrder, Readable,
                    AnchorAfterRecovery, HeadOK
<1> QED BY <1>1, <1>2, <1>3, <1>4 DEF Next, AnchorInv

\* Where directory changes reach the disk in the order they were made, a
\* crash at any point of any commit or recovery, under any interleaving of
\* calls, leaves a run the next load can read.
THEOREM ReadableWhenOrdered == Spec => []ReadableInOrder
<1>1. AnchorInv => ReadableInOrder
  BY DEF AnchorInv
<1> QED BY InitAnchors, NextAnchors, <1>1, PTL DEF Spec

-----------------------------------------------------------------------------
(* The store implements the abstract log.                                  *)

\* Of two chains of one length, a prefix of the other is the other.
LEMMA PrefixOfSameLength ==
    ASSUME NEW c \in Chains, NEW s \in Chains, IsPrefix(s, c), Len(c) <= Len(s)
    PROVE  s = c
<1>1. Len(s) = Len(c) /\ s = SubSeq(s, 1, Len(s)) /\ c = SubSeq(c, 1, Len(c))
  BY DEF IsPrefix, Chains
<1>2. SubSeq(s, 1, Len(s)) = SubSeq(c, 1, Len(s))
  BY DEF IsPrefix
<1> QED BY <1>1, <1>2

\* Reporting a chain that extends all that was promised promises it.
LEMMA LongerIsWhole ==
    ASSUME NEW c \in Chains, NEW s \in Chains, IsPrefix(s, c)
    PROVE  Longer(c, s) = c
<1>1. Len(c) \in Nat /\ Len(s) \in Nat
  BY DEF Chains
<1> QED BY <1>1, PrefixOfSameLength DEF Longer

\* Calls that neither write nor report the stream leave the log alone.
LEMMA LogLeftAlone ==
    ASSUME IInv, NEW p \in Procs,
           \/ QuietStep(p)
           \/ RecoverHead(p) \/ RecoverSync(p) \/ RecoverRemove(p)
           \/ WritePending(p) \/ SyncPending(p) \/ SyncStream(p)
           \/ WriteHead(p) \/ SyncHead(p)
    PROVE  disk'.stream = disk.stream /\ promised' = promised
<1>1. disk \in Disks
  BY DEF IInv, TypeOK
<1>2. \A f \in {"head", "pending"} : \A c : SetFile(f, c) => disk'.stream = disk.stream
  BY <1>1 DEF SetFile, Disks
<1>3. SyncDir => disk' = disk
  BY DEF SyncDir
<1>4. CASE QuietStep(p)
  BY <1>4 DEF QuietStep, StatStream, StatHead, StatPending, AppendBegin, Acquire,
     ReadChain, HeadMismatch, AppendLoaded, TransactAppend, TransactEnd,
     AppendRefused, AppendAccepted, IOError, Kill
<1> QED BY <1>2, <1>3, <1>4
        DEF RecoverHead, RecoverSync, RecoverRemove, WritePending, SyncPending,
            SyncStream, WriteHead, SyncHead

\* Replacing the stream extends the log by the one record being appended.
LEMMA WriteStreamExtends ==
    ASSUME IInv, NEW p \in Procs, WriteStream(p)
    PROVE  Log!Extend
<1>1. /\ disk \in Disks /\ PhaseOK(p) /\ promised' = promised
      /\ SetFile("stream", Append(existing[p], want[p].val))
      /\ existing[p] = disk.stream /\ want[p].val \in Vals
  BY DEF IInv, TypeOK, PhaseOK, WriteStream
<1>2. disk'.stream = Append(disk.stream, want[p].val)
  BY <1>1 DEF SetFile, Disks
<1> QED BY <1>1, <1>2 DEF Log!Extend

\* Reporting a chain seals the whole log: what was promised is part of it.
LEMMA ReportSeals ==
    ASSUME IInv, Durable, NEW p \in Procs,
           LoadReturn(p) \/ TransactLoaded(p) \/ RemovePending(p)
    PROVE  Log!Seal
<1>1. /\ disk \in Disks /\ disk.stream \in Chains /\ promised \in Chains
      /\ disk \in crashable /\ PhaseOK(p)
  BY DEF IInv, TypeOK, Disks
<1>2. IsPrefix(promised, disk.stream)
  BY <1>1 DEF Durable
<1>3. Longer(disk.stream, promised) = disk.stream
  BY <1>1, <1>2, LongerIsWhole
<1>4. CASE LoadReturn(p) \/ TransactLoaded(p)
  <2>1. disk' = disk /\ promised' = Longer(existing[p], promised)
        /\ existing[p] = disk.stream
    BY <1>1, <1>4 DEF LoadReturn, TransactLoaded, Report, PhaseOK
  <2> QED BY <1>3, <2>1 DEF Log!Seal
<1>5. CASE RemovePending(p)
  <2>1. /\ SetFile("pending", <<>>) /\ promised' = Longer(NewChain(p), promised)
        /\ NewChain(p) = disk.stream
    BY <1>1, <1>5 DEF RemovePending, Report, PhaseOK
  <2>2. disk'.stream = disk.stream
    BY <1>1, <2>1 DEF SetFile, Disks
  <2> QED BY <1>3, <2>1, <2>2 DEF Log!Seal
<1> QED BY <1>4, <1>5

\* A machine crash drops records no caller was told of.
LEMMA CrashLoses ==
    ASSUME IInv, DirInit = "durable", MachineCrash
    PROVE  Log!Lose
<1>1. disk' \in crashable /\ promised' = promised
  BY DEF IInv, MachineCrash
<1>2. IsPrefix(promised, disk'.stream) /\ IsPrefix(disk'.stream, disk.stream)
  BY <1>1 DEF IInv, Durable
<1> QED BY <1>1, <1>2 DEF Log!Lose, Log!IsPrefix, IsPrefix

\* Every step of the store is a step of the log or leaves it alone.
LEMMA NextImplementsLog ==
    ASSUME DirInit = "durable"
    PROVE  IInv /\ [Next]_vars => [Log!LogNext]_(Log!logVars)
<1> SUFFICES ASSUME IInv, [Next]_vars PROVE [Log!LogNext]_(Log!logVars)
  OBVIOUS
<1>1. Durable
  BY DEF IInv
<1>2. ASSUME NEW p \in Procs,
             Begin(p) \/ Acquire(p) \/ CallStep(p) \/ IOError(p) \/ Kill(p)
      PROVE  [Log!LogNext]_(Log!logVars)
  <2>1. CASE WriteStream(p)
    BY <2>1, WriteStreamExtends DEF Log!LogNext
  <2>2. CASE LoadReturn(p) \/ TransactLoaded(p) \/ RemovePending(p)
    BY <1>1, <2>2, ReportSeals DEF Log!LogNext
  <2>3. CASE \/ QuietStep(p)
             \/ RecoverHead(p) \/ RecoverSync(p) \/ RecoverRemove(p)
             \/ WritePending(p) \/ SyncPending(p) \/ SyncStream(p)
             \/ WriteHead(p) \/ SyncHead(p)
    BY <2>3, LogLeftAlone DEF Log!logVars
  <2> QED BY <1>2, <2>1, <2>2, <2>3 DEF Begin, CallStep, QuietStep
<1>3. CASE MachineCrash
  BY <1>3, CrashLoses DEF Log!LogNext
<1>4. CASE UNCHANGED vars
  BY <1>4 DEF vars, Log!logVars
<1> QED BY <1>2, <1>3, <1>4 DEF Next

\* The stream file, its anchors, the run lock and the two-phase commit
\* implement one append-only log whose reported part no crash takes back,
\* when the store directory itself is durable.
THEOREM LogImplemented == DirInit = "durable" => (Spec => ImplementsRunLog)
<1> SUFFICES ASSUME DirInit = "durable" PROVE Spec => ImplementsRunLog
  OBVIOUS
<1>1. Init => Log!LogInit
  BY DEF Init, NoFiles, Log!LogInit
<1>2. IInv /\ [Next]_vars => [Log!LogNext]_(Log!logVars)
  BY NextImplementsLog
<1> QED BY InitIInv, NextIInv, <1>1, <1>2, PTL
        DEF Spec, ImplementsRunLog, Log!LogSpec
===============================================================================
