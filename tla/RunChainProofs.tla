---------------------------- MODULE RunChainProofs ----------------------------
(***************************************************************************)
(* Proofs about RunChain, for any processes, commands, challenges, packets *)
(* and seeds.                                                              *)
(*                                                                         *)
(* NoncesSpentOnce is not inductive: a command looks for its challenge in  *)
(* a chain it loaded and appends later.  What carries it over is the       *)
(* position its records were built for: while the chain has not grown past *)
(* it the challenge is still unspent, and once it has the append is        *)
(* refused.                                                                *)
(*                                                                         *)
(* LegalHistory follows the same way: a decision holds of the chain it was *)
(* evaluated on, and lands only if that is still the chain.  The commands  *)
(* that replay the chain under the lock and write it back may change       *)
(* findings in it, but nothing control depends on.                         *)
(***************************************************************************)
EXTENDS RunChain, TLAPS, FiniteSetTheorems, WellFoundedInduction

\* The records rs may follow c: at most the first spends a challenge, one
\* that c has not spent.
Spendable(c, rs) ==
    /\ Nonce(rs[1]) \notin UsedNonces(c)
    /\ \A i \in 2..Len(rs) : Nonce(rs[i]) = None

JobOK(p) ==
    /\ DOMAIN job[p] = {"packet", "at", "seen", "want"}
    /\ job[p].at \in Nat
    /\ job[p].at <= Len(chain) + 1
    /\ pc[p] = "append" =>
          /\ IsChain(job[p].want)
          /\ Len(job[p].want) >= 1
          /\ job[p].at = Len(chain) + 1 => Spendable(chain, job[p].want)
    /\ pc[p] = "pilotCapture" /\ job[p].at = Len(chain) + 1 =>
          job[p].packet.nonce \notin UsedNonces(chain)

IInv ==
    /\ IsChain(chain)
    /\ NoncesSpentOnce
    /\ DOMAIN pc = Procs
    /\ DOMAIN job = Procs
    /\ \A p \in Procs : JobOK(p)

-----------------------------------------------------------------------------
(* Chains and the challenges they spend.                                   *)

\* What is in a sequence is its elements.
LEMMA ChainOver ==
    ASSUME NEW S, NEW c \in Seq(S), \A i \in 1..Len(c) : DOMAIN c[i] = DOMAIN Blank
    PROVE  IsChain(c)
<1> DEFINE T == {c[j] : j \in DOMAIN c}
<1>1. DOMAIN c = 1..Len(c) /\ Len(c) \in Nat /\ c = [i \in 1..Len(c) |-> c[i]]
  OBVIOUS
<1>2. \A i \in 1..Len(c) : c[i] \in T
  BY <1>1
<1>3. c \in Seq(T)
  <2> HIDE DEF T
  <2> QED BY <1>1, <1>2
<1> QED BY <1>1, <1>3 DEF IsChain

\* Appending a record that spends nothing, or a challenge the chain has not
\* spent, spends no challenge twice.
LEMMA AppendSpendsOnce ==
    ASSUME NEW c, IsChain(c), SpendsOnce(c), NEW r, DOMAIN r = DOMAIN Blank,
           Nonce(r) \notin UsedNonces(c)
    PROVE  /\ IsChain(Append(c, r))
           /\ SpendsOnce(Append(c, r))
           /\ Len(Append(c, r)) = Len(c) + 1
           /\ Len(c) \in Nat
           /\ \A n : Nonce(r) = None /\ n \notin UsedNonces(c)
                        => n \notin UsedNonces(Append(c, r))
<1> DEFINE S == {c[i] : i \in DOMAIN c} \cup {r}
           d == Append(c, r)
<1>1. c \in Seq(S) /\ r \in S
  BY DEF IsChain
<1>2. /\ d \in Seq(S) /\ Len(d) = Len(c) + 1 /\ Len(c) \in Nat
      /\ \A i \in 1..Len(c) : d[i] = c[i]
      /\ d[Len(c) + 1] = r
      /\ DOMAIN d = 1..(Len(c) + 1) /\ DOMAIN c = 1..Len(c)
  BY <1>1
<1>3. \A i \in 1..Len(d) : DOMAIN d[i] = DOMAIN Blank
  BY <1>2 DEF IsChain
<1>4. IsChain(d)
  BY <1>2, <1>3, ChainOver
<1>5. \A i \in 1..Len(c) : Nonce(c[i]) # None => Nonce(c[i]) # Nonce(r)
  BY <1>2 DEF UsedNonces
<1>6. SpendsOnce(d)
  BY <1>2, <1>5 DEF SpendsOnce
<1>7. ASSUME NEW n, Nonce(r) = None, n \notin UsedNonces(c)
      PROVE  n \notin UsedNonces(d)
  BY <1>2, <1>7 DEF UsedNonces
<1> QED BY <1>2, <1>4, <1>6, <1>7

\* Replaying a chain changes dispositions only.
LEMMA ReplayedSpends ==
    ASSUME NEW c, IsChain(c), SpendsOnce(c)
    PROVE  /\ IsChain(Replayed(c))
           /\ SpendsOnce(Replayed(c))
           /\ Len(Replayed(c)) = Len(c)
           /\ Len(c) \in Nat
<1> DEFINE d == Replayed(c)
<1>1. Len(c) \in Nat /\ DOMAIN c = 1..Len(c)
  BY DEF IsChain
<1>2. DOMAIN d = 1..Len(c)
  BY <1>1 DEF Replayed
<1>3. \A i \in 1..Len(c) : DOMAIN d[i] = DOMAIN Blank /\ Nonce(d[i]) = Nonce(c[i])
  <2> TAKE i \in 1..Len(c)
  <2>1. DOMAIN c[i] = DOMAIN Blank
    BY <1>1 DEF IsChain
  <2>2. "approval" \in DOMAIN c[i] /\ "resolution" \in DOMAIN c[i]
    BY <2>1 DEF Blank
  <2>3. d[i] = c[i] \/ \E f : d[i] = [c[i] EXCEPT !.findings = f]
    BY <1>1 DEF Replayed
  <2> QED BY <2>1, <2>2, <2>3 DEF Nonce
<1>4. d \in [1..Len(c) -> {d[i] : i \in 1..Len(c)}]
  BY <1>2 DEF Replayed
<1>5. d \in Seq({d[i] : i \in 1..Len(c)}) /\ Len(d) = Len(c)
  BY <1>1, <1>4
<1>6. IsChain(d)
  BY <1>3, <1>5, ChainOver
<1>7. SpendsOnce(d)
  BY <1>1, <1>2, <1>3 DEF SpendsOnce
<1> QED BY <1>1, <1>5, <1>6, <1>7

\* Appending records that spend nothing.
LEMMA ConcatSpendsOnce ==
    ASSUME NEW c, IsChain(c), SpendsOnce(c), NEW e, IsChain(e),
           \A i \in 1..Len(e) : Nonce(e[i]) = None
    PROVE  /\ IsChain(c \o e)
           /\ SpendsOnce(c \o e)
           /\ Len(c \o e) = Len(c) + Len(e)
           /\ Len(c) \in Nat /\ Len(e) \in Nat
<1> DEFINE S == {c[i] : i \in DOMAIN c} \cup {e[i] : i \in DOMAIN e}
           d == c \o e
<1>1. c \in Seq(S) /\ e \in Seq(S)
  BY DEF IsChain
<1>2. /\ d \in Seq(S) /\ Len(d) = Len(c) + Len(e)
      /\ Len(c) \in Nat /\ Len(e) \in Nat
      /\ \A i \in 1..Len(d) : d[i] = IF i <= Len(c) THEN c[i] ELSE e[i - Len(c)]
      /\ DOMAIN c = 1..Len(c) /\ DOMAIN d = 1..Len(d) /\ DOMAIN e = 1..Len(e)
  <2> HIDE DEF S
  <2> QED BY <1>1
<1>3. \A i \in 1..Len(d) :
          \/ i \in 1..Len(c) /\ d[i] = c[i]
          \/ i - Len(c) \in 1..Len(e) /\ i > Len(c) /\ d[i] = e[i - Len(c)]
  BY <1>2
<1>4. \A i \in 1..Len(d) : DOMAIN d[i] = DOMAIN Blank
  BY <1>2, <1>3 DEF IsChain
<1>5. IsChain(d)
  BY <1>2, <1>4, ChainOver
<1>6. SpendsOnce(d)
  <2>1. \A i \in 1..Len(d) :
            (i \in 1..Len(c) /\ d[i] = c[i]) \/ Nonce(d[i]) = None
    BY <1>3
  <2> HIDE DEF d
  <2> QED BY <1>2, <2>1 DEF SpendsOnce
<1> QED BY <1>2, <1>5, <1>6

\* The records of a command that appends one.
LEMMA OneRecord ==
    ASSUME NEW r, DOMAIN r = DOMAIN Blank
    PROVE  IsChain(<<r>>) /\ Len(<<r>>) = 1 /\ <<r>>[1] = r
<1>1. <<r>> \in Seq({r}) /\ Len(<<r>>) = 1 /\ <<r>>[1] = r
  OBVIOUS
<1>2. \A i \in 1..Len(<<r>>) : DOMAIN <<r>>[i] = DOMAIN Blank
  BY <1>1
<1>3. IsChain(<<r>>)
  BY <1>1, <1>2, ChainOver
<1> QED BY <1>1, <1>3

\* Evidence, criteria and findings spend no challenge.
LEMMA EvidenceSpendsNothing ==
    ASSUME NEW unit, NEW base, NEW d
    PROVE  /\ DOMAIN EvidenceFor(unit, base, d) = DOMAIN Blank
           /\ Nonce(EvidenceFor(unit, base, d)) = None
BY DEF EvidenceFor, Blank, Nonce

\* What a transition, a resolution and a pilot append spend the challenge
\* they were given, or nothing.
LEMMA RecordsSpend ==
    ASSUME NEW c, NEW a, a.nonce \notin UsedNonces(c)
    PROVE  /\ IsChain(<<AppliedRecord(c, a)>>)
           /\ Len(<<AppliedRecord(c, a)>>) = 1
           /\ Spendable(c, <<AppliedRecord(c, a)>>)
           /\ IsChain(<<ResolutionRecord(a)>>)
           /\ Len(<<ResolutionRecord(a)>>) = 1
           /\ Spendable(c, <<ResolutionRecord(a)>>)
<1>1. None \notin UsedNonces(c)
  BY DEF UsedNonces
<1>2. /\ DOMAIN AppliedRecord(c, a) = DOMAIN Blank
      /\ Nonce(AppliedRecord(c, a)) \in {a.nonce, None}
  BY DEF AppliedRecord, Blank, Nonce
<1>3. /\ DOMAIN ResolutionRecord(a) = DOMAIN Blank
      /\ Nonce(ResolutionRecord(a)) \in {a.nonce, None}
  BY DEF ResolutionRecord, Blank, Nonce
<1> QED BY <1>1, <1>2, <1>3, OneRecord DEF Spendable

\* The two records of a pilot approval spend its challenge once.
LEMMA PilotRecordsSpend ==
    ASSUME NEW c, NEW a, NEW d, NEW seen
    PROVE  /\ IsChain(PilotRecords(a, d, seen))
           /\ Len(PilotRecords(a, d, seen)) = 2
           /\ a.nonce \notin UsedNonces(c) => Spendable(c, PilotRecords(a, d, seen))
<1> DEFINE rs == PilotRecords(a, d, seen)
<1>1. /\ DOMAIN rs[1] = DOMAIN Blank /\ Nonce(rs[1]) \in {a.nonce, None}
      /\ DOMAIN rs[2] = DOMAIN Blank /\ Nonce(rs[2]) = None
  BY DEF PilotRecords, Blank, Nonce
<1>2. rs \in Seq({rs[1], rs[2]}) /\ Len(rs) = 2
  BY DEF PilotRecords
<1>3. IsChain(rs)
  BY <1>1, <1>2, ChainOver
<1>4. None \notin UsedNonces(c)
  BY DEF UsedNonces
<1> QED BY <1>1, <1>2, <1>3, <1>4 DEF Spendable

-----------------------------------------------------------------------------
(* The invariant.                                                          *)

\* The run starts with a chain that spends no challenge twice and no command
\* in progress.
LEMMA InitIInv == Init => IInv
<1> SUFFICES ASSUME Init PROVE IInv
  OBVIOUS
<1>1. IsChain(chain) /\ NoncesSpentOnce
  BY SeedsAssumption DEF Init, NoncesSpentOnce
<1>2. Len(chain) \in Nat
  BY <1>1 DEF IsChain
<1>3. \A p \in Procs : JobOK(p)
  BY <1>2 DEF Init, JobOK, NoJob
<1> QED BY <1>1, <1>3 DEF Init, IInv

\* A command whose position the chain has grown past cannot append, whatever
\* it decided: nothing is left to be true of its challenge.
LEMMA JobPassed ==
    ASSUME NEW p \in Procs, JobOK(p), pc'[p] = pc[p], job'[p] = job[p],
           Len(chain) \in Nat, Len(chain') \in Nat, Len(chain') > Len(chain)
    PROVE  JobOK(p)'
BY DEF JobOK

\* A step of one command that appends nothing.
LEMMA JobStepIInv ==
    ASSUME IInv, NEW p \in Procs, chain' = chain,
           DOMAIN pc' = Procs, DOMAIN job' = Procs,
           \A q \in Procs \ {p} : pc'[q] = pc[q] /\ job'[q] = job[q],
           JobOK(p)'
    PROVE  IInv'
<1>1. ASSUME NEW q \in Procs PROVE JobOK(q)'
  <2>1. CASE q = p
    BY <2>1
  <2>2. CASE q # p
    BY <2>2 DEF IInv, JobOK
  <2> QED BY <2>1, <2>2
<1> QED BY <1>1 DEF IInv, NoncesSpentOnce

\* A step that lengthens the chain under every command in progress.
LEMMA GrowthIInv ==
    ASSUME IInv, pc' = pc, job' = job,
           IsChain(chain'), SpendsOnce(chain'), Len(chain') > Len(chain)
    PROVE  IInv'
<1>1. Len(chain) \in Nat /\ Len(chain') \in Nat
  BY DEF IInv, IsChain
<1>2. \A p \in Procs : JobOK(p)'
  BY <1>1, JobPassed DEF IInv
<1> QED BY <1>2 DEF IInv, NoncesSpentOnce

\* Starting on a packet, for the next position.
LEMMA TakeIInv ==
    ASSUME IInv, NEW p \in Procs, NEW l, l \notin {"append", "pilotCapture"},
           Goto(p, l), chain' = chain,
           NEW packet, NEW seen,
           job' = [job EXCEPT ![p] = [NoJob EXCEPT !.packet = packet,
                                                   !.at = Len(chain) + 1,
                                                   !.seen = seen]]
    PROVE  IInv'
<1> DEFINE j == [NoJob EXCEPT !.packet = packet, !.at = Len(chain) + 1,
                              !.seen = seen]
<1>1. Len(chain) \in Nat /\ DOMAIN pc = Procs /\ DOMAIN job = Procs
  BY DEF IInv, IsChain
<1>2. /\ DOMAIN j = {"packet", "at", "seen", "want"} /\ j.at = Len(chain) + 1
      /\ job' = [job EXCEPT ![p] = j] /\ pc' = [pc EXCEPT ![p] = l]
  BY DEF NoJob, Goto
<1> HIDE DEF j
<1>3. JobOK(p)'
  <2>1. job'[p] = j /\ pc'[p] = l /\ chain' = chain
    BY <1>1, <1>2
  <2> QED BY <1>1, <1>2, <2>1 DEF JobOK
<1>4. \A q \in Procs \ {p} : pc'[q] = pc[q] /\ job'[q] = job[q]
  BY <1>1, <1>2
<1> QED BY <1>1, <1>2, <1>3, <1>4, JobStepIInv

\* Presenting a packet.
LEMMA PresentIInv ==
    ASSUME IInv, NEW p \in Procs, NEW l, l \notin {"append", "pilotCapture"},
           Present(p, l), chain' = chain
    PROVE  IInv'
<1>1. PICK k \in Packets, n \in Nonces :
          job' = [job EXCEPT ![p] = [NoJob EXCEPT !.packet = Approval(k, n, repo),
                                                  !.at = Len(chain) + 1,
                                                  !.seen = repo]]
  BY DEF Present
<1>2. Goto(p, l)
  BY DEF Present
<1> QED BY <1>1, <1>2, TakeIInv

\* Deciding to append records that may follow the chain as it is.
LEMMA IntendIInv ==
    ASSUME IInv, NEW p \in Procs, NEW rs, Intend(p, rs), chain' = chain,
           IsChain(rs), Len(rs) >= 1, Spendable(chain, rs)
    PROVE  IInv'
<1>1. Len(chain) \in Nat /\ DOMAIN pc = Procs /\ DOMAIN job = Procs /\ JobOK(p)
  BY DEF IInv, IsChain
<1>2. /\ job' = [job EXCEPT ![p].at = Len(chain) + 1, ![p].want = rs]
      /\ pc' = [pc EXCEPT ![p] = "append"]
  BY DEF Intend, Goto
<1>3. /\ DOMAIN job'[p] = {"packet", "at", "seen", "want"}
      /\ job'[p].at = Len(chain) + 1
      /\ job'[p].want = rs
  BY <1>1, <1>2 DEF JobOK
<1>4. JobOK(p)'
  BY <1>1, <1>2, <1>3 DEF JobOK
<1>5. \A q \in Procs \ {p} : pc'[q] = pc[q] /\ job'[q] = job[q]
  BY <1>1, <1>2
<1> QED BY <1>1, <1>2, <1>4, <1>5, JobStepIInv

\* Moving on without deciding anything.
LEMMA GotoIInv ==
    ASSUME IInv, NEW p \in Procs, NEW l, l # "append", Goto(p, l),
           chain' = chain, job' = job,
           l = "pilotCapture" /\ job[p].at = Len(chain) + 1 =>
               job[p].packet.nonce \notin UsedNonces(chain)
    PROVE  IInv'
<1>1. DOMAIN pc = Procs /\ DOMAIN job = Procs /\ JobOK(p)
  BY DEF IInv
<1>2. JobOK(p)'
  BY <1>1 DEF Goto, JobOK
<1> QED BY <1>1, <1>2, JobStepIInv DEF Goto

\* A command ends.
LEMMA FinishIInv ==
    ASSUME IInv, NEW p \in Procs, Finish(p), chain' = chain
    PROVE  IInv'
<1>1. Len(chain) \in Nat /\ DOMAIN pc = Procs /\ DOMAIN job = Procs
  BY DEF IInv, IsChain
<1>2. JobOK(p)'
  BY <1>1 DEF Finish, Goto, JobOK, NoJob
<1> QED BY <1>1, <1>2, JobStepIInv DEF Finish, Goto

\* hma transition, up to its append.
LEMMA TransitionIInv ==
    ASSUME IInv, NEW p \in Procs,
           TransitionBegin(p) \/ TransitionGate(p) \/ TransitionEvaluate(p)
    PROVE  IInv'
<1>1. CASE TransitionBegin(p)
  BY <1>1, PresentIInv DEF TransitionBegin
<1>2. CASE TransitionGate(p)
  BY <1>2, GotoIInv DEF TransitionGate
<1>3. CASE TransitionEvaluate(p)
  <2> DEFINE a == job[p].packet
  <2>1. a.nonce \notin UsedNonces(chain)
    BY <1>3 DEF TransitionEvaluate, AdmitsTransition, AdmitsApproval
  <2>2. Intend(p, <<AppliedRecord(chain, a)>>) /\ chain' = chain
    BY <1>3 DEF TransitionEvaluate
  <2>3. /\ IsChain(<<AppliedRecord(chain, a)>>)
        /\ Len(<<AppliedRecord(chain, a)>>) = 1
        /\ Spendable(chain, <<AppliedRecord(chain, a)>>)
    BY <2>1, RecordsSpend
  <2> HIDE DEF a
  <2> QED BY <2>2, <2>3, IntendIInv
<1> QED BY <1>1, <1>2, <1>3

\* Deciding what to append for the position the command already holds.
LEMMA WantIInv ==
    ASSUME IInv, NEW p \in Procs, NEW rs, Goto(p, "append"), chain' = chain,
           job' = [job EXCEPT ![p].want = rs],
           IsChain(rs), Len(rs) >= 1,
           job[p].at = Len(chain) + 1 => Spendable(chain, rs)
    PROVE  IInv'
<1>1. DOMAIN pc = Procs /\ DOMAIN job = Procs /\ JobOK(p)
  BY DEF IInv
<1>2. pc' = [pc EXCEPT ![p] = "append"]
  BY DEF Goto
<1>3. /\ DOMAIN job'[p] = DOMAIN job[p] /\ job'[p].at = job[p].at
      /\ job'[p].want = rs
  BY <1>1 DEF JobOK
<1>4. JobOK(p)'
  BY <1>1, <1>2, <1>3 DEF JobOK
<1>5. \A q \in Procs \ {p} : pc'[q] = pc[q] /\ job'[q] = job[q]
  BY <1>1, <1>2
<1> QED BY <1>1, <1>2, <1>4, <1>5, JobStepIInv

\* One record that spends nothing may always follow.
LEMMA NothingSpent ==
    ASSUME NEW c, NEW r, DOMAIN r = DOMAIN Blank, Nonce(r) = None
    PROVE  IsChain(<<r>>) /\ Len(<<r>>) >= 1 /\ Spendable(c, <<r>>)
BY OneRecord DEF Spendable, UsedNonces

\* hma pilot, up to its appends.
LEMMA PilotIInv ==
    ASSUME IInv, NEW p \in Procs,
           PilotBegin(p) \/ PilotEvaluate(p) \/ PilotCapture(p)
    PROVE  IInv'
<1>1. CASE PilotBegin(p)
  BY <1>1, PresentIInv DEF PilotBegin
<1>2. CASE PilotEvaluate(p)
  BY <1>2, GotoIInv DEF PilotEvaluate, AdmitsApproval
<1>3. CASE PilotCapture(p)
  <2>1. JobOK(p) /\ pc[p] = "pilotCapture" /\ chain' = chain /\ Goto(p, "append")
    BY <1>3 DEF IInv, PilotCapture
  <2>2. PICK d \in Digests :
            job' = [job EXCEPT ![p].want = PilotRecords(job[p].packet, d, repo)]
    BY <1>3 DEF PilotCapture
  <2> DEFINE rs == PilotRecords(job[p].packet, d, repo)
  <2>3. /\ IsChain(rs) /\ Len(rs) >= 1
        /\ job[p].at = Len(chain) + 1 => Spendable(chain, rs)
    <3>1. IsChain(rs) /\ Len(rs) = 2
      BY PilotRecordsSpend
    <3>2. job[p].packet.nonce \notin UsedNonces(chain) => Spendable(chain, rs)
      BY PilotRecordsSpend
    <3> HIDE DEF rs
    <3> QED BY <2>1, <3>1, <3>2 DEF JobOK
  <2>4. job' = [job EXCEPT ![p].want = rs]
    BY <2>2
  <2> HIDE DEF rs
  <2> QED BY <2>1, <2>3, <2>4, WantIInv
<1> QED BY <1>1, <1>2, <1>3

\* hma ci github, up to its append.
LEMMA CIIInv ==
    ASSUME IInv, NEW p \in Procs, CIBegin(p) \/ CICapture(p)
    PROVE  IInv'
<1>1. CASE CIBegin(p)
  BY <1>1, TakeIInv DEF CIBegin
<1>2. CASE CICapture(p)
  <2>1. chain' = chain /\ Goto(p, "append")
    BY <1>2 DEF CICapture
  <2>2. PICK d \in Digests :
            job' = [job EXCEPT ![p].want =
              <<[Blank EXCEPT !.kind = "evidence", !.stage = job[p].packet.from,
                    !.evidence = [digest |-> d, base |-> job[p].packet.base,
                                  head |-> repo.head]]>>]
    BY <1>2 DEF CICapture
  <2> DEFINE r == [Blank EXCEPT !.kind = "evidence", !.stage = job[p].packet.from,
                      !.evidence = [digest |-> d, base |-> job[p].packet.base,
                                    head |-> repo.head]]
  <2>3. DOMAIN r = DOMAIN Blank /\ Nonce(r) = None
    BY DEF Blank, Nonce
  <2>4. job' = [job EXCEPT ![p].want = <<r>>]
    BY <2>2
  <2> HIDE DEF r
  <2>5. IsChain(<<r>>) /\ Len(<<r>>) >= 1 /\ Spendable(chain, <<r>>)
    BY <2>3, NothingSpent
  <2> QED BY <2>1, <2>4, <2>5, WantIInv
<1> QED BY <1>1, <1>2

\* hma resolve: the operation's challenge is looked for in the chain its
\* record is built for.
LEMMA ResolveIInv ==
    ASSUME IInv, NEW p \in Procs, Resolve(p)
    PROVE  IInv'
<1>1. PICK r : AdmitsResolution(chain, r) /\ Intend(p, <<ResolutionRecord(r)>>)
  BY DEF Resolve
<1>2. r.nonce \notin UsedNonces(chain) /\ chain' = chain
  BY <1>1 DEF AdmitsResolution, Resolve
<1>3. /\ IsChain(<<ResolutionRecord(r)>>) /\ Len(<<ResolutionRecord(r)>>) = 1
      /\ Spendable(chain, <<ResolutionRecord(r)>>)
  BY <1>2, RecordsSpend
<1> QED BY <1>1, <1>2, <1>3, IntendIInv

\* hmarun's criterion baseline.
LEMMA CriteriaBaselineIInv ==
    ASSUME IInv, NEW p \in Procs, CriteriaBaseline(p)
    PROVE  IInv'
<1>1. PICK k \in Contracts :
          Intend(p, <<[Blank EXCEPT !.kind = "criterion", !.stage = "ACCEPTANCE_CRITERIA",
                          !.criteria = [c \in CriteriaOf[k] |-> "PENDING"]]>>)
  BY DEF CriteriaBaseline
<1> DEFINE r == [Blank EXCEPT !.kind = "criterion", !.stage = "ACCEPTANCE_CRITERIA",
                    !.criteria = [c \in CriteriaOf[k] |-> "PENDING"]]
<1>2. DOMAIN r = DOMAIN Blank /\ Nonce(r) = None
  BY DEF Blank, Nonce
<1>3. Intend(p, <<r>>) /\ chain' = chain
  BY <1>1 DEF CriteriaBaseline
<1> HIDE DEF r
<1>4. IsChain(<<r>>) /\ Len(<<r>>) >= 1 /\ Spendable(chain, <<r>>)
  BY <1>2, NothingSpent
<1> QED BY <1>3, <1>4, IntendIInv

\* hma host findings-import, up to its append.
LEMMA FindingsImportIInv ==
    ASSUME IInv, NEW p \in Procs, FindingsImport(p)
    PROVE  IInv'
<1>1. PICK rep \in Reports : Intend(p, <<SnapshotRecord(chain, rep)>>)
  BY DEF FindingsImport
<1> DEFINE r == SnapshotRecord(chain, rep)
<1>2. DOMAIN r = DOMAIN Blank /\ Nonce(r) = None
  BY DEF SnapshotRecord, Blank, Nonce
<1>3. Intend(p, <<r>>) /\ chain' = chain
  BY <1>1 DEF FindingsImport
<1> HIDE DEF r
<1>4. IsChain(<<r>>) /\ Len(<<r>>) >= 1 /\ Spendable(chain, <<r>>)
  BY <1>2, NothingSpent
<1> QED BY <1>3, <1>4, IntendIInv

-----------------------------------------------------------------------------
(* Steps that append.                                                      *)

\* What is left of a job after its first record spends nothing.
LEMMA RestSpendsNothing ==
    ASSUME NEW rs, IsChain(rs), Len(rs) > 1, NEW c, NEW d, Spendable(c, rs)
    PROVE  /\ IsChain(Tail(rs))
           /\ Len(Tail(rs)) >= 1
           /\ Spendable(d, Tail(rs))
<1> DEFINE S == {rs[i] : i \in DOMAIN rs}
<1>1. /\ Tail(rs) \in Seq(S)
      /\ Len(Tail(rs)) = Len(rs) - 1
      /\ Len(rs) \in Nat
      /\ DOMAIN rs = 1..Len(rs)
      /\ \A i \in 1..Len(Tail(rs)) : Tail(rs)[i] = rs[i + 1]
  <2>1. rs \in Seq(S)
    BY DEF IsChain
  <2> HIDE DEF S
  <2> QED BY <2>1
<1>2. \A i \in 1..Len(Tail(rs)) : DOMAIN Tail(rs)[i] = DOMAIN Blank
  BY <1>1 DEF IsChain
<1>3. \A i \in 1..Len(Tail(rs)) : Nonce(Tail(rs)[i]) = None
  BY <1>1 DEF Spendable
<1>4. IsChain(Tail(rs))
  BY <1>1, <1>2, ChainOver
<1> QED BY <1>1, <1>3, <1>4 DEF Spendable, UsedNonces

\* Store.Append: a record lands only where it was built for, so the chain is
\* still the one its challenge was looked for in; every other command in
\* progress is left behind.
LEMMA AppendNextIInv ==
    ASSUME IInv, NEW p \in Procs, AppendNext(p)
    PROVE  IInv'
<1> DEFINE rs == job[p].want
           r == Head(rs)
<1>1. /\ IsChain(chain) /\ SpendsOnce(chain)
      /\ DOMAIN pc = Procs /\ DOMAIN job = Procs /\ JobOK(p)
      /\ pc[p] = "append" /\ job[p].at = Len(chain) + 1
      /\ chain' = Append(chain, r)
  BY DEF IInv, NoncesSpentOnce, AppendNext, ExtendsChain
<1>2. IsChain(rs) /\ Len(rs) >= 1 /\ Spendable(chain, rs)
  BY <1>1 DEF JobOK
<1>3. Len(rs) \in Nat /\ DOMAIN rs = 1..Len(rs) /\ r = rs[1]
  BY <1>2 DEF IsChain
<1>4. DOMAIN r = DOMAIN Blank /\ Nonce(r) \notin UsedNonces(chain)
  BY <1>2, <1>3 DEF IsChain, Spendable
<1> HIDE DEF rs, r
<1>5. /\ IsChain(chain') /\ SpendsOnce(chain')
      /\ Len(chain') = Len(chain) + 1 /\ Len(chain) \in Nat
  BY <1>1, <1>4, AppendSpendsOnce
<1>6. /\ DOMAIN pc' = Procs /\ DOMAIN job' = Procs
      /\ \A q \in Procs \ {p} : pc'[q] = pc[q] /\ job'[q] = job[q]
  BY <1>1 DEF AppendNext, Finish, Goto
<1>7. \A q \in Procs \ {p} : JobOK(q)'
  BY <1>5, <1>6, JobPassed DEF IInv
<1>8. JobOK(p)'
  <2>1. CASE Len(rs) > 1
    <3>1. /\ job' = [job EXCEPT ![p].want = Tail(rs), ![p].at = job[p].at + 1]
          /\ pc' = pc
      BY <1>1, <2>1 DEF AppendNext, rs, JobOK
    <3>2. /\ DOMAIN job'[p] = DOMAIN job[p] /\ job'[p].at = job[p].at + 1
          /\ job'[p].want = Tail(rs)
      BY <1>1, <3>1 DEF JobOK
    <3>3. IsChain(Tail(rs)) /\ Len(Tail(rs)) >= 1 /\ Spendable(chain', Tail(rs))
      BY <1>2, <2>1, RestSpendsNothing
    <3> QED BY <1>1, <1>5, <3>1, <3>2, <3>3 DEF JobOK
  <2>2. CASE ~(Len(rs) > 1)
    <3>1. Finish(p)
      BY <2>2 DEF AppendNext, rs
    <3> QED BY <1>1, <1>5, <3>1 DEF Finish, Goto, JobOK, NoJob
  <2> QED BY <2>1, <2>2
<1>9. \A q \in Procs : JobOK(q)'
  BY <1>7, <1>8
<1> QED BY <1>5, <1>6, <1>9 DEF IInv, NoncesSpentOnce

\* hma host reconcile.
LEMMA ReconcileIInv ==
    ASSUME IInv, Reconcile
    PROVE  IInv'
<1>1. PICK fs : chain' = Append(Replayed(chain),
                  [Blank EXCEPT !.kind = "finding", !.stage = CurrentStage(chain),
                                !.findings = fs, !.sealed = fs])
  BY DEF Reconcile
<1> DEFINE r == [Blank EXCEPT !.kind = "finding", !.stage = CurrentStage(chain),
                              !.findings = fs, !.sealed = fs]
<1>2. DOMAIN r = DOMAIN Blank /\ Nonce(r) = None
  BY DEF Blank, Nonce
<1>3. chain' = Append(Replayed(chain), r)
  BY <1>1
<1> HIDE DEF r
<1>4. /\ IsChain(Replayed(chain)) /\ SpendsOnce(Replayed(chain))
      /\ Len(Replayed(chain)) = Len(chain) /\ Len(chain) \in Nat
  BY ReplayedSpends DEF IInv, NoncesSpentOnce
<1>5. Nonce(r) \notin UsedNonces(Replayed(chain))
  BY <1>2 DEF UsedNonces
<1>6. IsChain(chain') /\ SpendsOnce(chain') /\ Len(chain') = Len(chain) + 1
  BY <1>2, <1>3, <1>4, <1>5, AppendSpendsOnce
<1> QED BY <1>4, <1>6, GrowthIInv DEF Reconcile

\* The evidence of a credit's checks spends nothing.
LEMMA CheckedSpendsOnce ==
    ASSUME IInv, NEW unit, NEW base, NEW d, NEW n \in Nat
    PROVE  LET f == Checked(unit, base, d, n)
           IN  IsChain(f) /\ SpendsOnce(f) /\ Len(f) = Len(chain) + n
<1> DEFINE e == [i \in 1..n |-> EvidenceFor(unit, base, d)]
<1>1. e \in Seq({EvidenceFor(unit, base, d)}) /\ Len(e) = n
  OBVIOUS
<1>2. \A i \in 1..Len(e) : DOMAIN e[i] = DOMAIN Blank /\ Nonce(e[i]) = None
  BY <1>1, EvidenceSpendsNothing
<1>3. Checked(unit, base, d, n) = Replayed(chain) \o e
  BY DEF Checked
<1> HIDE DEF e
<1>4. /\ IsChain(Replayed(chain)) /\ SpendsOnce(Replayed(chain))
      /\ Len(Replayed(chain)) = Len(chain) /\ Len(chain) \in Nat
  BY ReplayedSpends DEF IInv, NoncesSpentOnce
<1>5. IsChain(e)
  BY <1>1, <1>2, ChainOver
<1> QED BY <1>1, <1>2, <1>3, <1>4, <1>5, ConcatSpendsOnce

\* hma host credit, however far it got.
LEMMA CreditIInv ==
    ASSUME IInv, Credit
    PROVE  IInv'
<1>1. PICK unit, base, d, m : \E n \in 1..m :
          \/ chain' = Checked(unit, base, d, n)
          \/ \E results : chain' = Append(Checked(unit, base, d, n),
                                          CreditRecord(unit, results))
  BY DEF Credit
<1>2. PICK n \in 1..m :
          \/ chain' = Checked(unit, base, d, n)
          \/ \E results : chain' = Append(Checked(unit, base, d, n),
                                          CreditRecord(unit, results))
  BY <1>1
<1> DEFINE f == Checked(unit, base, d, n)
<1>3. n \in Nat /\ n > 0 /\ Len(chain) \in Nat
  BY DEF IInv, IsChain
<1>4. IsChain(f) /\ SpendsOnce(f) /\ Len(f) = Len(chain) + n
  BY <1>3, CheckedSpendsOnce
<1>5. IsChain(chain') /\ SpendsOnce(chain') /\ Len(chain') > Len(chain)
  <2>1. CASE chain' = f
    BY <1>3, <1>4, <2>1
  <2>2. ASSUME NEW results, chain' = Append(f, CreditRecord(unit, results))
        PROVE  IsChain(chain') /\ SpendsOnce(chain') /\ Len(chain') > Len(chain)
    <3> DEFINE r == CreditRecord(unit, results)
    <3>1. DOMAIN r = DOMAIN Blank /\ Nonce(r) = None
      BY DEF CreditRecord, Blank, Nonce
    <3>2. Nonce(r) \notin UsedNonces(f)
      BY <3>1 DEF UsedNonces
    <3> HIDE DEF f, r
    <3>3. /\ IsChain(Append(f, r)) /\ SpendsOnce(Append(f, r))
          /\ Len(Append(f, r)) = Len(f) + 1
      BY <1>4, <3>1, <3>2, AppendSpendsOnce
    <3> QED BY <1>3, <1>4, <2>2, <3>3 DEF r
  <2> QED BY <1>2, <2>1, <2>2
<1> QED BY <1>5, GrowthIInv DEF Credit

\* hma host loop evidence.
LEMMA LoopEvidenceIInv ==
    ASSUME IInv, LoopEvidence
    PROVE  IInv'
<1>1. PICK unit, base, d : chain' = Append(chain, EvidenceFor(unit, base, d))
  BY DEF LoopEvidence
<1>2. Nonce(EvidenceFor(unit, base, d)) \notin UsedNonces(chain)
  BY EvidenceSpendsNothing DEF UsedNonces
<1>3. /\ IsChain(chain') /\ SpendsOnce(chain')
      /\ Len(chain') = Len(chain) + 1 /\ Len(chain) \in Nat
  BY <1>1, <1>2, EvidenceSpendsNothing, AppendSpendsOnce DEF IInv, NoncesSpentOnce
<1> QED BY <1>3, GrowthIInv DEF LoopEvidence

\* Every step of the commands and of the repository keeps the invariant.
LEMMA NextIInv == IInv /\ [Next]_vars => IInv'
<1> SUFFICES ASSUME IInv, [Next]_vars PROVE IInv'
  OBVIOUS
<1>1. ASSUME NEW p \in Procs, Abandon(p) PROVE IInv'
  BY <1>1, FinishIInv DEF Abandon
<1>2. CASE RepositoryChange \/ UNCHANGED vars
  BY <1>2 DEF RepositoryChange, vars, IInv, NoncesSpentOnce, JobOK
<1>3. ASSUME NEW p \in Procs,
             \/ TransitionBegin(p) \/ TransitionGate(p) \/ TransitionEvaluate(p)
             \/ PilotBegin(p) \/ PilotEvaluate(p) \/ PilotCapture(p)
             \/ CIBegin(p) \/ CICapture(p)
             \/ Resolve(p) \/ CriteriaBaseline(p) \/ FindingsImport(p)
             \/ AppendNext(p)
      PROVE  IInv'
  BY <1>3, TransitionIInv, PilotIInv, CIIInv, ResolveIInv, CriteriaBaselineIInv,
     FindingsImportIInv, AppendNextIInv
<1> QED
  BY <1>1, <1>2, <1>3, ReconcileIInv, CreditIInv, LoopEvidenceIInv DEF Next

\* A challenge is answered once in a run: no two records of its chain, of
\* whatever families, spend the same one, however the commands interleave,
\* fail or die between their reads and their appends.
THEOREM ChallengesSpentOnce == Spec => []NoncesSpentOnce
<1>1. IInv => NoncesSpentOnce
  BY DEF IInv
<1> QED BY InitIInv, NextIInv, <1>1, PTL DEF Spec

-----------------------------------------------------------------------------
(* Legal decisions.                                                        *)

\* The record r is a legal decision about a run with chain c, or none.
LegalNext(c, r) ==
    Applied(r) =>
        /\ r.stage = CurrentStage(c)
        /\ r.approval.to # None => IsLegalEdge(r.stage, r.approval.to)
        /\ \A j \in 1..Len(c) : c[j].outcome = None

\* Records a command may append: at most the first is a decision.
OneDecision(rs) ==
    /\ OutcomesEnd(rs)
    /\ \A i \in 2..Len(rs) : ~Applied(rs[i])

JobLegal(p) ==
    pc[p] = "append" =>
        /\ OneDecision(job[p].want)
        /\ job[p].at = Len(chain) + 1 => LegalNext(chain, job[p].want[1])

LegalInv ==
    /\ IInv
    /\ LegalHistory
    /\ OutcomesEnd(chain)
    /\ \A p \in Procs : JobLegal(p)

-----------------------------------------------------------------------------
(* Greatest elements.                                                      *)

\* The order of the natural numbers is well founded, as a relation.
LEMMA LessThan ==
    \E R : IsWellFoundedOn(R, Nat) /\ \A x, y \in Nat : <<y, x>> \in R <=> y < x
<1> WITNESS OpToRel(<, Nat)
<1>1. \A x, y \in Nat : <<y, x>> \in OpToRel(<, Nat) <=> y < x
  BY DEF OpToRel
<1> QED BY <1>1, NatLessThanWellFounded

\* A set of natural numbers has a least element.
LEMMA LeastOf ==
    ASSUME NEW T, T \subseteq Nat, T # {}
    PROVE  \E x \in T : \A y \in T : x <= y
<1>1. PICK R : IsWellFoundedOn(R, Nat) /\ \A x, y \in Nat : <<y, x>> \in R <=> y < x
  BY LessThan
<1>2. PICK x \in T : \A y \in T : ~ (<<y, x>> \in R)
  BY <1>1, WFMin
<1>3. \A y \in T : ~(y < x)
  BY <1>1, <1>2
<1> QED BY <1>3

\* A set of positions in a chain has a last one.
LEMMA MaxOf ==
    ASSUME NEW n \in Nat, NEW T, T \subseteq 1..n, T # {}
    PROVE  Max(T) \in T /\ \A y \in T : Max(T) >= y
<1> DEFINE U == {n - x : x \in T}
<1>1. PICK t \in T : TRUE
  OBVIOUS
<1>2. U \subseteq Nat /\ n - t \in U
  OBVIOUS
<1>3. PICK u \in U : \A v \in U : u <= v
  <2> HIDE DEF U
  <2> QED BY <1>2, LeastOf
<1>4. PICK x \in T : u = n - x
  OBVIOUS
<1>5. \A y \in T : n - y \in U
  OBVIOUS
<1> HIDE DEF U
<1>6. \E z \in T : \A y \in T : z >= y
  BY <1>3, <1>4, <1>5
<1> QED BY <1>6 DEF Max

-----------------------------------------------------------------------------
(* What the current stage depends on.                                      *)

\* c and d are alike in all that control depends on.
SameControl(c, d) ==
    /\ Len(c) = Len(d)
    /\ \A i \in 1..Len(c) :
          /\ c[i].kind = d[i].kind
          /\ c[i].control = d[i].control
          /\ c[i].stage = d[i].stage
          /\ c[i].approval = d[i].approval
          /\ c[i].outcome = d[i].outcome

\* The current stage depends on nothing else.
LEMMA SameStage ==
    ASSUME NEW c, NEW d, SameControl(c, d), Len(c) \in Nat
    PROVE  CurrentStage(c) = CurrentStage(d)
<1> DEFINE I == {i \in 1..Len(c) : ApprovedMove(c[i])}
<1>1. I = {i \in 1..Len(d) : ApprovedMove(d[i])}
  BY DEF SameControl, ApprovedMove
<1>2. /\ SelectLastInSeq(c, ApprovedMove) = IF I # {} THEN Max(I) ELSE 0
      /\ SelectLastInSeq(d, ApprovedMove) = IF I # {} THEN Max(I) ELSE 0
  BY <1>1 DEF SelectLastInSeq
<1>3. I # {} => Max(I) \in 1..Len(c)
  <2>1. I \subseteq 1..Len(c)
    OBVIOUS
  <2> HIDE DEF I
  <2> QED BY <2>1, MaxOf
<1> HIDE DEF I
<1> QED BY <1>2, <1>3 DEF CurrentStage, SameControl

\* The records before the i-th.
LEMMA BeforeRecord ==
    ASSUME NEW c, IsChain(c), NEW i \in 1..(Len(c) + 1)
    PROVE  /\ Len(c) \in Nat /\ DOMAIN c = 1..Len(c)
           /\ Len(Before(c, i)) = i - 1
           /\ \A j \in 1..(i - 1) : Before(c, i)[j] = c[j]
<1> DEFINE S == {c[j] : j \in DOMAIN c}
<1>1. c \in Seq(S)
  BY DEF IsChain
<1> HIDE DEF S
<1> QED BY <1>1 DEF Before

\* A chain that continues one of legal decisions, as far as control depends on
\* it, with at most one decision, legal about that one, is such a chain.
LEMMA ContinuedLegally ==
    ASSUME NEW c, IsChain(c), DecidesLegally(c), OutcomesEnd(c),
           NEW d, IsChain(d), Len(d) >= Len(c),
           \A i \in 1..Len(c) :
               /\ c[i].kind = d[i].kind
               /\ c[i].control = d[i].control
               /\ c[i].stage = d[i].stage
               /\ c[i].approval = d[i].approval
               /\ c[i].outcome = d[i].outcome,
           \A i \in (Len(c) + 1)..Len(d) :
               /\ d[i].outcome # None => d[i].kind = "outcome"
               /\ ~Applied(d[i]) \/ (i = Len(c) + 1 /\ LegalNext(c, d[i]))
    PROVE  DecidesLegally(d) /\ OutcomesEnd(d)
<1>1. /\ Len(c) \in Nat /\ DOMAIN c = 1..Len(c)
      /\ Len(d) \in Nat /\ DOMAIN d = 1..Len(d)
  BY DEF IsChain
<1>2. ASSUME NEW i \in 1..(Len(c) + 1), i <= Len(d) + 1
      PROVE  CurrentStage(Before(c, i)) = CurrentStage(Before(d, i))
  <2>1. /\ Len(Before(c, i)) = i - 1 /\ Len(Before(d, i)) = i - 1
        /\ \A j \in 1..(i - 1) : Before(c, i)[j] = c[j] /\ Before(d, i)[j] = d[j]
    <3>1. i \in 1..(Len(d) + 1)
      BY <1>1, <1>2
    <3>2. Len(Before(c, i)) = i - 1 /\ \A j \in 1..(i - 1) : Before(c, i)[j] = c[j]
      BY BeforeRecord
    <3>3. Len(Before(d, i)) = i - 1 /\ \A j \in 1..(i - 1) : Before(d, i)[j] = d[j]
      BY <3>1, BeforeRecord
    <3> QED BY <3>2, <3>3
  <2>2. SameControl(Before(c, i), Before(d, i))
    BY <1>1, <2>1 DEF SameControl
  <2>3. Len(Before(c, i)) \in Nat
    BY <1>1, <2>1
  <2> QED BY <2>2, <2>3, SameStage
<1>3. CurrentStage(Before(c, Len(c) + 1)) = CurrentStage(c)
  <2> DEFINE i == Len(c) + 1
  <2>1. i \in 1..(Len(c) + 1) /\ i - 1 = Len(c)
    BY <1>1
  <2>2. Len(Before(c, i)) = i - 1 /\ \A j \in 1..(i - 1) : Before(c, i)[j] = c[j]
    BY <2>1, BeforeRecord
  <2>3. SameControl(Before(c, i), c) /\ Len(Before(c, i)) \in Nat
    BY <1>1, <2>1, <2>2 DEF SameControl
  <2> QED BY <2>3, SameStage
<1>4. ASSUME NEW i \in 1..Len(d), Applied(d[i])
      PROVE  /\ d[i].stage = CurrentStage(Before(d, i))
             /\ d[i].approval.to # None => IsLegalEdge(d[i].stage, d[i].approval.to)
             /\ \A j \in 1..(i - 1) : d[j].outcome = None
  <2>1. CASE i <= Len(c)
    <3>0. i \in 1..Len(c)
      BY <1>1, <2>1
    <3>1. Applied(c[i])
      BY <1>4, <3>0 DEF Applied
    <3>2. CurrentStage(Before(c, i)) = CurrentStage(Before(d, i))
      BY <1>1, <1>2, <2>1
    <3>3. /\ c[i].stage = CurrentStage(Before(c, i))
          /\ c[i].approval.to # None => IsLegalEdge(c[i].stage, c[i].approval.to)
          /\ \A j \in 1..(i - 1) : c[j].outcome = None
      BY <1>1, <3>0, <3>1 DEF DecidesLegally
    <3>4. \A j \in 1..(i - 1) : c[j].outcome = d[j].outcome
      BY <1>1, <3>0
    <3> QED BY <3>0, <3>2, <3>3, <3>4
  <2>2. CASE i > Len(c)
    <3>1. i = Len(c) + 1 /\ LegalNext(c, d[i])
      BY <1>1, <1>4, <2>2
    <3>2. CurrentStage(Before(c, i)) = CurrentStage(Before(d, i))
      BY <1>1, <1>2, <3>1
    <3>3. \A j \in 1..Len(c) : c[j].outcome = None /\ c[j].outcome = d[j].outcome
      BY <1>4, <3>1 DEF LegalNext
    <3> QED BY <1>1, <1>3, <1>4, <3>1, <3>2, <3>3 DEF LegalNext
  <2> QED BY <1>1, <2>1, <2>2
<1>5. DecidesLegally(d)
  BY <1>1, <1>4 DEF DecidesLegally
<1>6. OutcomesEnd(d)
  <2>1. \A i \in 1..Len(d) : i \in 1..Len(c) \/ i \in (Len(c) + 1)..Len(d)
    BY <1>1
  <2> QED BY <1>1, <2>1 DEF OutcomesEnd
<1> QED BY <1>5, <1>6

-----------------------------------------------------------------------------
(* Steps that append nothing.                                              *)

\* A step of one command that appends nothing.
LEMMA JobStepLegal ==
    ASSUME LegalInv, IInv', NEW p \in Procs, chain' = chain,
           \A q \in Procs \ {p} : pc'[q] = pc[q] /\ job'[q] = job[q],
           JobLegal(p)'
    PROVE  LegalInv'
<1>1. ASSUME NEW q \in Procs PROVE JobLegal(q)'
  <2>1. CASE q = p
    BY <2>1
  <2>2. CASE q # p
    <3>1. JobLegal(q) /\ pc'[q] = pc[q] /\ job'[q] = job[q]
      BY <2>2 DEF LegalInv
    <3> QED BY <3>1 DEF JobLegal
  <2> QED BY <2>1, <2>2
<1>2. LegalHistory' /\ OutcomesEnd(chain')
  BY DEF LegalInv, LegalHistory
<1> QED BY <1>1, <1>2 DEF LegalInv

\* One that does not yet decide what to append.
LEMMA GotoLegal ==
    ASSUME LegalInv, IInv', NEW p \in Procs, NEW l, l # "append", Goto(p, l),
           chain' = chain, \A q \in Procs \ {p} : job'[q] = job[q]
    PROVE  LegalInv'
<1>1. DOMAIN pc = Procs
  BY DEF LegalInv, IInv
<1>2. JobLegal(p)' /\ \A q \in Procs \ {p} : pc'[q] = pc[q]
  BY <1>1 DEF Goto, JobLegal
<1> QED BY <1>2, JobStepLegal

\* One that decides to append rs.
LEMMA DecideLegal ==
    ASSUME LegalInv, IInv', NEW p \in Procs, Goto(p, "append"),
           chain' = chain, \A q \in Procs \ {p} : job'[q] = job[q],
           NEW rs, job'[p].want = rs, OneDecision(rs),
           job'[p].at = Len(chain) + 1 => LegalNext(chain, rs[1])
    PROVE  LegalInv'
<1>1. DOMAIN pc = Procs
  BY DEF LegalInv, IInv
<1>2. \A q \in Procs \ {p} : pc'[q] = pc[q]
  BY <1>1 DEF Goto
<1>3. JobLegal(p)'
  BY DEF JobLegal
<1> QED BY <1>2, <1>3, JobStepLegal

\* Intend, and the choice of records for a position already held.
LEMMA IntendLegal ==
    ASSUME LegalInv, IInv', NEW p \in Procs, NEW rs, Intend(p, rs),
           chain' = chain, OneDecision(rs), LegalNext(chain, rs[1])
    PROVE  LegalInv'
<1>1. DOMAIN job = Procs /\ JobOK(p)
  BY DEF LegalInv, IInv
<1>2. job' = [job EXCEPT ![p].at = Len(chain) + 1, ![p].want = rs]
      /\ Goto(p, "append")
  BY DEF Intend
<1>3. job'[p].want = rs /\ \A q \in Procs \ {p} : job'[q] = job[q]
  BY <1>1, <1>2 DEF JobOK
<1> QED BY <1>2, <1>3, DecideLegal

\* A command that reads its position and its decision in the same load.
LEMMA WantLegal ==
    ASSUME LegalInv, IInv', NEW p \in Procs, NEW rs, Goto(p, "append"),
           job' = [job EXCEPT ![p].want = rs],
           chain' = chain, OneDecision(rs), LegalNext(chain, rs[1])
    PROVE  LegalInv'
<1>1. DOMAIN job = Procs /\ JobOK(p)
  BY DEF LegalInv, IInv
<1>2. job'[p].want = rs /\ \A q \in Procs \ {p} : job'[q] = job[q]
  BY <1>1 DEF JobOK
<1> QED BY <1>2, DecideLegal

\* A record without an approval decides nothing.
LEMMA Undecided ==
    ASSUME NEW c, NEW r, r.approval = None, r.outcome = None
    PROVE  OneDecision(<<r>>) /\ LegalNext(c, <<r>>[1])
BY DEF OneDecision, OutcomesEnd, LegalNext, Applied

\* What EvaluateStageTransition admits is legal for the chain it saw.
LEMMA AdmittedIsLegal ==
    ASSUME NEW c, OutcomesEnd(c), DOMAIN c = 1..Len(c),
           NEW a, NEW at, NEW wt, AdmitsTransition(c, a, at, wt)
    PROVE  /\ OneDecision(<<AppliedRecord(c, a)>>)
           /\ LegalNext(c, <<AppliedRecord(c, a)>>[1])
<1> DEFINE r == AppliedRecord(c, a)
<1>1. /\ r.stage = a.from /\ r.approval = a
      /\ r.outcome # None => r.kind = "outcome"
  BY DEF AppliedRecord, Blank
<1>2. a.from = CurrentStage(c)
      /\ (a.to # None => IsLegalEdge(a.from, a.to))
  BY DEF AdmitsTransition, AdmitsApproval, ValidApprovalTarget, LegalTarget
<1>3. \A j \in 1..Len(c) : c[j].outcome = None
  BY DEF AdmitsTransition, Terminal, OutcomesEnd
<1> HIDE DEF r
<1>4. OneDecision(<<r>>)
  BY <1>1 DEF OneDecision, OutcomesEnd
<1>5. LegalNext(c, <<r>>[1])
  BY <1>1, <1>2, <1>3 DEF LegalNext
<1> QED BY <1>4, <1>5 DEF r

\* hma transition, up to its append.
LEMMA TransitionLegal ==
    ASSUME LegalInv, IInv', NEW p \in Procs,
           TransitionBegin(p) \/ TransitionGate(p) \/ TransitionEvaluate(p)
    PROVE  LegalInv'
<1>1. CASE TransitionBegin(p)
  BY <1>1, GotoLegal DEF TransitionBegin, Present, LegalInv, IInv
<1>2. CASE TransitionGate(p)
  BY <1>2, GotoLegal DEF TransitionGate
<1>3. CASE TransitionEvaluate(p)
  <2> DEFINE a == job[p].packet
  <2>1. /\ AdmitsTransition(chain, a, job[p].at, job[p].seen.wt)
        /\ Intend(p, <<AppliedRecord(chain, a)>>) /\ chain' = chain
    BY <1>3 DEF TransitionEvaluate
  <2>2. OutcomesEnd(chain) /\ DOMAIN chain = 1..Len(chain)
    BY DEF LegalInv, IInv, IsChain
  <2>3. /\ OneDecision(<<AppliedRecord(chain, a)>>)
        /\ LegalNext(chain, <<AppliedRecord(chain, a)>>[1])
    BY <2>1, <2>2, AdmittedIsLegal
  <2> HIDE DEF a
  <2> QED BY <2>1, <2>3, IntendLegal
<1> QED BY <1>1, <1>2, <1>3

\* hma pilot, up to its appends: neither record is a decision.
LEMMA PilotLegal ==
    ASSUME LegalInv, IInv', NEW p \in Procs,
           PilotBegin(p) \/ PilotEvaluate(p) \/ PilotCapture(p)
    PROVE  LegalInv'
<1>1. CASE PilotBegin(p)
  BY <1>1, GotoLegal DEF PilotBegin, Present, LegalInv, IInv
<1>2. CASE PilotEvaluate(p)
  BY <1>2, GotoLegal DEF PilotEvaluate
<1>3. CASE PilotCapture(p)
  <2>1. chain' = chain /\ Goto(p, "append")
    BY <1>3 DEF PilotCapture
  <2>2. PICK d \in Digests :
            job' = [job EXCEPT ![p].want = PilotRecords(job[p].packet, d, repo)]
    BY <1>3 DEF PilotCapture
  <2> DEFINE rs == PilotRecords(job[p].packet, d, repo)
  <2>3. /\ Len(rs) = 2 /\ DOMAIN rs = 1..2
        /\ ~Applied(rs[1]) /\ rs[1].outcome = None
        /\ ~Applied(rs[2]) /\ rs[2].outcome = None
    <3>1. rs[1].control = "READY_FOR_REVIEW" /\ rs[1].outcome = None
      BY DEF PilotRecords, Blank
    <3>2. rs[2].control = "READY_FOR_REVIEW" /\ rs[2].outcome = None
      BY DEF PilotRecords, Blank
    <3>3. IsChain(rs) /\ Len(rs) = 2
      BY PilotRecordsSpend
    <3>4. DOMAIN rs = 1..2
      BY <3>3 DEF IsChain
    <3> HIDE DEF rs
    <3> QED BY <3>1, <3>2, <3>3, <3>4 DEF Applied
  <2>4. job' = [job EXCEPT ![p].want = rs]
    BY <2>2
  <2> HIDE DEF rs
  <2>5. OneDecision(rs) /\ LegalNext(chain, rs[1])
    BY <2>3 DEF OneDecision, OutcomesEnd, LegalNext
  <2> QED BY <2>1, <2>4, <2>5, WantLegal
<1> QED BY <1>1, <1>2, <1>3

\* hma ci github, up to its append.
LEMMA CILegal ==
    ASSUME LegalInv, IInv', NEW p \in Procs, CIBegin(p) \/ CICapture(p)
    PROVE  LegalInv'
<1>1. CASE CIBegin(p)
  <2>1. /\ Goto(p, "ciCapture") /\ chain' = chain
        /\ \A q \in Procs \ {p} : job'[q] = job[q]
    BY <1>1 DEF CIBegin, LegalInv, IInv
  <2> QED BY <2>1, GotoLegal
<1>2. CASE CICapture(p)
  <2>1. chain' = chain /\ Goto(p, "append")
    BY <1>2 DEF CICapture
  <2>2. PICK d \in Digests :
            job' = [job EXCEPT ![p].want =
              <<[Blank EXCEPT !.kind = "evidence", !.stage = job[p].packet.from,
                    !.evidence = [digest |-> d, base |-> job[p].packet.base,
                                  head |-> repo.head]]>>]
    BY <1>2 DEF CICapture
  <2> DEFINE r == [Blank EXCEPT !.kind = "evidence", !.stage = job[p].packet.from,
                      !.evidence = [digest |-> d, base |-> job[p].packet.base,
                                    head |-> repo.head]]
  <2>3. r.approval = None /\ r.outcome = None
    BY DEF Blank
  <2>4. job' = [job EXCEPT ![p].want = <<r>>]
    BY <2>2
  <2> HIDE DEF r
  <2>5. OneDecision(<<r>>) /\ LegalNext(chain, <<r>>[1])
    BY <2>3, Undecided
  <2> QED BY <2>1, <2>4, <2>5, WantLegal
<1> QED BY <1>1, <1>2

\* hma resolve, hmarun's baseline and hma host findings-import.
LEMMA UndecidedLegal ==
    ASSUME LegalInv, IInv', NEW p \in Procs,
           Resolve(p) \/ CriteriaBaseline(p) \/ FindingsImport(p)
    PROVE  LegalInv'
<1>1. PICK r : Intend(p, <<r>>) /\ r.approval = None /\ r.outcome = None
  <2>1. CASE Resolve(p)
    <3>1. PICK r : Intend(p, <<ResolutionRecord(r)>>)
      BY <2>1 DEF Resolve
    <3>2. ResolutionRecord(r).approval = None /\ ResolutionRecord(r).outcome = None
      BY DEF ResolutionRecord, Blank
    <3> QED BY <3>1, <3>2
  <2>2. CASE CriteriaBaseline(p)
    <3>1. PICK k \in Contracts :
            Intend(p, <<[Blank EXCEPT !.kind = "criterion", !.stage = "ACCEPTANCE_CRITERIA",
                            !.criteria = [c \in CriteriaOf[k] |-> "PENDING"]]>>)
      BY <2>2 DEF CriteriaBaseline
    <3> DEFINE r == [Blank EXCEPT !.kind = "criterion", !.stage = "ACCEPTANCE_CRITERIA",
                        !.criteria = [c \in CriteriaOf[k] |-> "PENDING"]]
    <3>2. Intend(p, <<r>>) /\ r.approval = None /\ r.outcome = None
      BY <3>1 DEF Blank
    <3> QED BY <3>2
  <2>3. CASE FindingsImport(p)
    <3>1. PICK rep \in Reports : Intend(p, <<SnapshotRecord(chain, rep)>>)
      BY <2>3 DEF FindingsImport
    <3> DEFINE r == SnapshotRecord(chain, rep)
    <3>2. r.approval = None /\ r.outcome = None
      BY DEF SnapshotRecord, Blank
    <3> QED BY <3>1, <3>2
  <2> QED BY <2>1, <2>2, <2>3
<1>2. OneDecision(<<r>>) /\ LegalNext(chain, <<r>>[1])
  BY <1>1, Undecided
<1>3. chain' = chain
  BY DEF Resolve, CriteriaBaseline, FindingsImport
<1> QED BY <1>1, <1>2, <1>3, IntendLegal

-----------------------------------------------------------------------------
(* Steps that append.                                                      *)

\* A command left behind by a longer chain decides nothing any more.
LEMMA LeftBehind ==
    ASSUME LegalInv, NEW q \in Procs, pc'[q] = pc[q], job'[q] = job[q],
           Len(chain) \in Nat, Len(chain') \in Nat, Len(chain') > Len(chain)
    PROVE  JobLegal(q)'
<1>1. JobLegal(q) /\ job[q].at \in Nat /\ job[q].at <= Len(chain) + 1
  BY DEF LegalInv, IInv, JobOK
<1>2. job'[q].at # Len(chain') + 1
  BY <1>1
<1> QED BY <1>1, <1>2 DEF JobLegal

\* Store.Append: the decision lands on the chain it is legal for.
LEMMA AppendNextLegal ==
    ASSUME LegalInv, IInv', NEW p \in Procs, AppendNext(p)
    PROVE  LegalInv'
<1> DEFINE rs == job[p].want
           r == Head(rs)
           d == Append(chain, r)
<1>1. /\ IsChain(chain) /\ DecidesLegally(chain) /\ OutcomesEnd(chain)
      /\ DOMAIN pc = Procs /\ DOMAIN job = Procs /\ JobOK(p) /\ JobLegal(p)
      /\ pc[p] = "append" /\ job[p].at = Len(chain) + 1
      /\ chain' = d
  BY DEF LegalInv, IInv, LegalHistory, AppendNext, ExtendsChain
<1>2. /\ IsChain(rs) /\ Len(rs) >= 1 /\ OneDecision(rs)
      /\ LegalNext(chain, rs[1])
  BY <1>1 DEF JobOK, JobLegal
<1>3. Len(rs) \in Nat /\ DOMAIN rs = 1..Len(rs) /\ r = rs[1]
  BY <1>2 DEF IsChain
<1>4. LegalNext(chain, r) /\ (r.outcome # None => r.kind = "outcome")
  BY <1>2, <1>3 DEF OneDecision, OutcomesEnd
<1>5. /\ Len(chain) \in Nat /\ Len(d) = Len(chain) + 1
      /\ d[Len(chain) + 1] = r
      /\ \A i \in 1..Len(chain) : d[i] = chain[i]
  <2> DEFINE S == {chain[i] : i \in DOMAIN chain} \cup {r}
  <2>1. chain \in Seq(S) /\ r \in S
    BY <1>1 DEF IsChain
  <2> HIDE DEF S, r
  <2> QED BY <2>1
<1>6. IsChain(chain')
  BY DEF IInv
<1> HIDE DEF rs, r, d
<1>7. DecidesLegally(d) /\ OutcomesEnd(d)
  <2>1. IsChain(d) /\ Len(d) >= Len(chain)
    BY <1>1, <1>5, <1>6
  <2>2. \A i \in (Len(chain) + 1)..Len(d) :
            /\ d[i].outcome # None => d[i].kind = "outcome"
            /\ ~Applied(d[i]) \/ (i = Len(chain) + 1 /\ LegalNext(chain, d[i]))
    BY <1>4, <1>5
  <2> QED BY <1>1, <1>5, <2>1, <2>2, ContinuedLegally
<1>8. \A q \in Procs \ {p} : pc'[q] = pc[q] /\ job'[q] = job[q]
  BY <1>1 DEF AppendNext, Finish, Goto
<1>9. \A q \in Procs \ {p} : JobLegal(q)'
  BY <1>1, <1>5, <1>8, LeftBehind
<1>10. JobLegal(p)'
  <2>1. CASE Len(rs) > 1
    <3>1. /\ job' = [job EXCEPT ![p].want = Tail(rs), ![p].at = job[p].at + 1]
          /\ pc' = pc
      BY <1>1, <2>1 DEF AppendNext, rs, JobOK
    <3>2. job'[p].want = Tail(rs)
      BY <1>1, <3>1 DEF JobOK
    <3>3. /\ Len(Tail(rs)) = Len(rs) - 1 /\ DOMAIN Tail(rs) = 1..(Len(rs) - 1)
          /\ \A i \in 1..(Len(rs) - 1) : Tail(rs)[i] = rs[i + 1]
      <4> DEFINE S == {rs[i] : i \in DOMAIN rs}
      <4>1. rs \in Seq(S)
        BY <1>2 DEF IsChain
      <4> HIDE DEF S
      <4> QED BY <2>1, <4>1
    <3>4. \A i \in 1..(Len(rs) - 1) : ~Applied(Tail(rs)[i])
      BY <1>2, <1>3, <3>3 DEF OneDecision
    <3>5. OutcomesEnd(Tail(rs))
      BY <1>2, <1>3, <3>3 DEF OneDecision, OutcomesEnd
    <3>6. OneDecision(Tail(rs)) /\ LegalNext(chain', Tail(rs)[1])
      BY <1>3, <2>1, <3>3, <3>4, <3>5 DEF OneDecision, LegalNext
    <3> QED BY <3>2, <3>6 DEF JobLegal
  <2>2. CASE ~(Len(rs) > 1)
    <3>1. Finish(p)
      BY <2>2 DEF AppendNext, rs
    <3> QED BY <1>1, <3>1 DEF Finish, Goto, JobLegal
  <2> QED BY <2>1, <2>2
<1>11. \A q \in Procs : JobLegal(q)'
  BY <1>9, <1>10
<1> QED BY <1>1, <1>7, <1>11 DEF LegalInv, LegalHistory

\* d continues c, as far as control depends on it, with records that decide
\* nothing.
Continues(c, d) ==
    /\ Len(d) >= Len(c)
    /\ \A i \in 1..Len(c) :
          /\ c[i].kind = d[i].kind
          /\ c[i].control = d[i].control
          /\ c[i].stage = d[i].stage
          /\ c[i].approval = d[i].approval
          /\ c[i].outcome = d[i].outcome
    /\ \A i \in (Len(c) + 1)..Len(d) : d[i].approval = None /\ d[i].outcome = None

\* Replaying changes nothing control depends on.
LEMMA ReplayContinues ==
    ASSUME NEW c, IsChain(c), SpendsOnce(c)
    PROVE  Continues(c, Replayed(c)) /\ Len(Replayed(c)) = Len(c)
<1> DEFINE d == Replayed(c)
<1>1. Len(c) \in Nat /\ DOMAIN c = 1..Len(c) /\ Len(d) = Len(c)
  <2>1. Len(d) = Len(c) /\ Len(c) \in Nat
    BY ReplayedSpends
  <2>2. DOMAIN c = 1..Len(c)
    BY DEF IsChain
  <2> QED BY <2>1, <2>2
<1>2. ASSUME NEW i \in 1..Len(c)
      PROVE  /\ c[i].kind = d[i].kind /\ c[i].control = d[i].control
             /\ c[i].stage = d[i].stage /\ c[i].approval = d[i].approval
             /\ c[i].outcome = d[i].outcome
  <2>1. DOMAIN c[i] = DOMAIN Blank
    BY <1>1 DEF IsChain
  <2>2. {"kind", "control", "stage", "approval", "outcome"} \subseteq DOMAIN c[i]
    BY <2>1 DEF Blank
  <2>3. d[i] = c[i] \/ \E f : d[i] = [c[i] EXCEPT !.findings = f]
    BY <1>1 DEF Replayed
  <2> QED BY <2>2, <2>3
<1>3. (Len(c) + 1)..Len(d) = {}
  BY <1>1
<1> HIDE DEF d
<1> QED BY <1>1, <1>2, <1>3 DEF Continues, d

\* Appending a record that decides nothing.
LEMMA AppendContinues ==
    ASSUME NEW c, IsChain(c), NEW d, IsChain(d), Continues(c, d),
           NEW r, r.approval = None, r.outcome = None
    PROVE  Continues(c, Append(d, r)) /\ Len(Append(d, r)) = Len(d) + 1
<1> DEFINE S == {d[i] : i \in DOMAIN d} \cup {r}
           e == Append(d, r)
<1>1. d \in Seq(S) /\ r \in S /\ Len(c) \in Nat
  BY DEF IsChain
<1>2. /\ Len(d) \in Nat /\ Len(e) = Len(d) + 1
      /\ \A i \in 1..Len(d) : e[i] = d[i]
      /\ e[Len(d) + 1] = r
  <2> HIDE DEF S
  <2> QED BY <1>1
<1> HIDE DEF S, e
<1>3. \A i \in 1..Len(c) : i \in 1..Len(d) /\ e[i] = d[i]
  BY <1>1, <1>2 DEF Continues
<1>4. \A i \in (Len(c) + 1)..Len(e) :
          (i \in (Len(c) + 1)..Len(d) /\ e[i] = d[i]) \/ e[i] = r
  BY <1>1, <1>2 DEF Continues
<1>5. Len(e) >= Len(c)
  BY <1>1, <1>2 DEF Continues
<1>6. Continues(c, e)
  BY <1>3, <1>4, <1>5 DEF Continues
<1> QED BY <1>2, <1>6 DEF e

\* A step that lengthens the chain by records that decide nothing.
LEMMA GrowthLegal ==
    ASSUME LegalInv, IInv', pc' = pc, job' = job,
           Continues(chain, chain'), Len(chain') > Len(chain)
    PROVE  LegalInv'
<1>1. /\ IsChain(chain) /\ IsChain(chain')
      /\ DecidesLegally(chain) /\ OutcomesEnd(chain)
  BY DEF LegalInv, IInv, LegalHistory
<1>2. DecidesLegally(chain') /\ OutcomesEnd(chain')
  <2> DEFINE d == chain'
  <2> DEFINE c == chain
  <2>1. \A i \in (Len(c) + 1)..Len(d) :
            /\ d[i].outcome # None => d[i].kind = "outcome"
            /\ ~Applied(d[i]) \/ (i = Len(c) + 1 /\ LegalNext(c, d[i]))
    BY DEF Continues, Applied
  <2>2. /\ Len(d) >= Len(c)
        /\ \A i \in 1..Len(c) :
               /\ c[i].kind = d[i].kind
               /\ c[i].control = d[i].control
               /\ c[i].stage = d[i].stage
               /\ c[i].approval = d[i].approval
               /\ c[i].outcome = d[i].outcome
    BY DEF Continues
  <2>3. IsChain(c) /\ DecidesLegally(c) /\ OutcomesEnd(c) /\ IsChain(d)
    BY <1>1
  <2> HIDE DEF c, d
  <2>4. DecidesLegally(d) /\ OutcomesEnd(d)
    BY <2>1, <2>2, <2>3, ContinuedLegally, ZenonT(60)
  <2> QED BY <2>4 DEF d
<1>3. Len(chain) \in Nat /\ Len(chain') \in Nat
  BY <1>1 DEF IsChain
<1>4. \A q \in Procs : JobLegal(q)'
  BY <1>3, LeftBehind
<1> QED BY <1>2, <1>4 DEF LegalInv, LegalHistory

\* hma host reconcile and hma host loop evidence.
LEMMA ReconcileLegal ==
    ASSUME LegalInv, IInv', Reconcile \/ LoopEvidence
    PROVE  LegalInv'
<1>1. IsChain(chain) /\ SpendsOnce(chain) /\ Len(chain) \in Nat
  BY DEF LegalInv, IInv, NoncesSpentOnce, IsChain
<1>2. PICK c, r : /\ c = chain \/ c = Replayed(chain)
                  /\ chain' = Append(c, r)
                  /\ r.approval = None /\ r.outcome = None
  <2>1. CASE Reconcile
    <3>1. PICK fs : chain' = Append(Replayed(chain),
                      [Blank EXCEPT !.kind = "finding", !.stage = CurrentStage(chain),
                                    !.findings = fs, !.sealed = fs])
      BY <2>1 DEF Reconcile
    <3> DEFINE r == [Blank EXCEPT !.kind = "finding", !.stage = CurrentStage(chain),
                                  !.findings = fs, !.sealed = fs]
    <3>2. chain' = Append(Replayed(chain), r) /\ r.approval = None /\ r.outcome = None
      BY <3>1 DEF Blank
    <3> QED BY <3>2
  <2>2. CASE LoopEvidence
    <3>1. PICK unit, base, d : chain' = Append(chain, EvidenceFor(unit, base, d))
      BY <2>2 DEF LoopEvidence
    <3>2. /\ EvidenceFor(unit, base, d).approval = None
          /\ EvidenceFor(unit, base, d).outcome = None
      BY DEF EvidenceFor, Blank
    <3> QED BY <3>1, <3>2
  <2> QED BY <2>1, <2>2
<1>3. Continues(chain, chain) /\ IsChain(chain)
  BY <1>1 DEF Continues
<1>4. /\ Continues(chain, Replayed(chain)) /\ IsChain(Replayed(chain))
      /\ Len(Replayed(chain)) = Len(chain)
  BY <1>1, ReplayContinues, ReplayedSpends
<1>5. Continues(chain, c) /\ IsChain(c) /\ Len(c) = Len(chain)
  BY <1>2, <1>3, <1>4
<1>6. Continues(chain, Append(c, r)) /\ Len(Append(c, r)) = Len(c) + 1
  BY <1>1, <1>2, <1>5, AppendContinues
<1>7. Continues(chain, chain') /\ Len(chain') > Len(chain)
  BY <1>1, <1>2, <1>5, <1>6
<1>8. pc' = pc /\ job' = job
  BY DEF Reconcile, LoopEvidence
<1> QED BY <1>7, <1>8, GrowthLegal

\* The evidence of a credit decides nothing.
LEMMA CheckedContinues ==
    ASSUME IInv, NEW unit, NEW base, NEW d, NEW n \in Nat
    PROVE  Continues(chain, Checked(unit, base, d, n))
<1> DEFINE e == [i \in 1..n |-> EvidenceFor(unit, base, d)]
           c == Replayed(chain)
           f == c \o e
<1>1. e \in Seq({EvidenceFor(unit, base, d)}) /\ Len(e) = n
  OBVIOUS
<1>2. \A i \in 1..n : e[i].approval = None /\ e[i].outcome = None
  BY DEF EvidenceFor, Blank
<1>3. /\ IsChain(c) /\ Len(c) = Len(chain) /\ Len(chain) \in Nat
      /\ Continues(chain, c)
  BY ReplayContinues, ReplayedSpends DEF IInv, NoncesSpentOnce
<1>4. Checked(unit, base, d, n) = f
  BY DEF Checked
<1>5. /\ Len(f) = Len(c) + n
      /\ \A i \in 1..Len(c) : f[i] = c[i]
      /\ \A i \in (Len(c) + 1)..Len(f) : f[i] = e[i - Len(c)]
  <2> DEFINE S == {c[i] : i \in DOMAIN c} \cup {EvidenceFor(unit, base, d)}
  <2>1. c \in Seq(S) /\ e \in Seq(S)
    BY <1>3 DEF IsChain
  <2> HIDE DEF S, c, e
  <2> QED BY <1>1, <2>1
<1> HIDE DEF e, c, f
<1>6. \A i \in (Len(c) + 1)..Len(f) : f[i].approval = None /\ f[i].outcome = None
  BY <1>2, <1>3, <1>5
<1>7. Continues(chain, f)
  BY <1>3, <1>5, <1>6 DEF Continues
<1> QED BY <1>4, <1>7

\* hma host credit.
LEMMA CreditLegal ==
    ASSUME LegalInv, IInv', Credit
    PROVE  LegalInv'
<1>1. PICK unit, base, d, m : \E n \in 1..m :
          \/ chain' = Checked(unit, base, d, n)
          \/ \E results : chain' = Append(Checked(unit, base, d, n),
                                          CreditRecord(unit, results))
  BY DEF Credit
<1>2. PICK n \in 1..m :
          \/ chain' = Checked(unit, base, d, n)
          \/ \E results : chain' = Append(Checked(unit, base, d, n),
                                          CreditRecord(unit, results))
  BY <1>1
<1> DEFINE f == Checked(unit, base, d, n)
<1>3. n \in Nat /\ n > 0 /\ Len(chain) \in Nat /\ IInv /\ IsChain(chain)
  BY DEF LegalInv, IInv, IsChain
<1>4. IsChain(f) /\ Len(f) = Len(chain) + n /\ Continues(chain, f)
  BY <1>3, CheckedSpendsOnce, CheckedContinues
<1>5. Continues(chain, chain') /\ Len(chain') > Len(chain)
  <2>1. CASE chain' = f
    BY <1>3, <1>4, <2>1
  <2>2. ASSUME NEW results, chain' = Append(f, CreditRecord(unit, results))
        PROVE  Continues(chain, chain') /\ Len(chain') > Len(chain)
    <3> DEFINE r == CreditRecord(unit, results)
    <3>1. r.approval = None /\ r.outcome = None
      BY DEF CreditRecord, Blank
    <3> HIDE DEF f, r
    <3>2. Continues(chain, Append(f, r)) /\ Len(Append(f, r)) = Len(f) + 1
      BY <1>3, <1>4, <3>1, AppendContinues
    <3> QED BY <1>3, <1>4, <2>2, <3>2 DEF r
  <2> QED BY <1>2, <2>1, <2>2
<1>6. pc' = pc /\ job' = job
  BY DEF Credit
<1> QED BY <1>5, <1>6, GrowthLegal

\* Every step keeps the invariant.
LEMMA NextLegal == LegalInv /\ [Next]_vars => LegalInv'
<1> SUFFICES ASSUME LegalInv, [Next]_vars PROVE LegalInv'
  OBVIOUS
<1>1. IInv'
  BY NextIInv DEF LegalInv
<1>2. ASSUME NEW p \in Procs, Abandon(p) PROVE LegalInv'
  BY <1>1, <1>2, GotoLegal DEF Abandon, Finish, LegalInv, IInv
<1>3. CASE RepositoryChange \/ UNCHANGED vars
  BY <1>1, <1>3 DEF RepositoryChange, vars, LegalInv, LegalHistory, JobLegal
<1>4. ASSUME NEW p \in Procs,
             \/ TransitionBegin(p) \/ TransitionGate(p) \/ TransitionEvaluate(p)
             \/ PilotBegin(p) \/ PilotEvaluate(p) \/ PilotCapture(p)
             \/ CIBegin(p) \/ CICapture(p)
             \/ Resolve(p) \/ CriteriaBaseline(p) \/ FindingsImport(p)
             \/ AppendNext(p)
      PROVE  LegalInv'
  BY <1>1, <1>4, TransitionLegal, PilotLegal, CILegal, UndecidedLegal, AppendNextLegal
<1> QED
  BY <1>1, <1>2, <1>3, <1>4, ReconcileLegal, CreditLegal DEF Next

\* Every approved decision in a run's chain was made from the stage the run
\* was in, along a legal edge, and before the run ended, although no lock is
\* held from its evaluation to its record.
THEOREM DecisionsAreLegal == Spec => []LegalHistory
<1>1. Init => LegalInv
  <2> SUFFICES ASSUME Init PROVE LegalInv
    OBVIOUS
  <2>1. LegalHistory /\ OutcomesEnd(chain)
    BY SeedsAssumption DEF Init, LegalHistory
  <2>2. \A p \in Procs : JobLegal(p)
    BY DEF Init, JobLegal
  <2> QED BY <2>1, <2>2, InitIInv DEF LegalInv
<1>2. LegalInv => LegalHistory
  BY DEF LegalInv
<1> QED BY <1>1, <1>2, NextLegal, PTL DEF Spec

-----------------------------------------------------------------------------
(***************************************************************************)
(* RunChain implements RunControl, for any processes, commands, packets,   *)
(* operations, reports and seeds: every step of every command leaves a     *)
(* run's stage, outcome and spent challenges as they are, or is one of the *)
(* abstract control's steps.                                               *)
(*                                                                         *)
(* A decision is one of these about the chain it was evaluated on.  What   *)
(* has to be shown is that it still is when it lands, and that records     *)
(* which decide nothing, and replaying the chain, change none of the three.*)
(***************************************************************************)

\* A record that changes nothing about a run's control.
Quiet(r) == r.approval = None /\ r.resolution = None /\ r.kind # "outcome"

\* The record r after chain c is a step of the abstract control.
Follows(c, r) ==
    \/ Quiet(r)
    \/ /\ Nonce(r) \in Nonces \ UsedNonces(c)
       /\ r.kind # "outcome" /\ ~ApprovedMove(r)
    \/ /\ Nonce(r) \in Nonces \ UsedNonces(c)
       /\ ~Terminal(c)
       /\ ApprovedMove(r)
       /\ IsLegalEdge(CurrentStage(c), r.approval.to)
       /\ r.approval.to \in Stages
    \/ /\ Nonce(r) \in Nonces \ UsedNonces(c)
       /\ ~Terminal(c)
       /\ r.kind = "outcome"
       /\ r.outcome \in stoppingOutcomes

\* A command that still carries its packet, or has decided.
JobControls(p) ==
    /\ pc[p] \in {"gate", "evaluate", "pilotLoad", "pilotCapture"} =>
          /\ job[p].packet # None
          /\ job[p].packet.nonce \in Nonces
    /\ pc[p] = "append" =>
          /\ \A i \in 2..Len(job[p].want) : Quiet(job[p].want[i])
          /\ job[p].at = Len(chain) + 1 => Follows(chain, job[p].want[1])

ControlInv ==
    /\ IInv
    /\ repo \in Repos
    /\ \A p \in Procs : JobControls(p)

-----------------------------------------------------------------------------
(* What a run's control depends on.                                        *)

\* d continues c with records that change nothing about control.
QuietlyGrows(c, d) ==
    /\ Len(d) >= Len(c)
    /\ \A i \in 1..Len(c) :
          /\ c[i].kind = d[i].kind
          /\ c[i].control = d[i].control
          /\ c[i].approval = d[i].approval
          /\ c[i].resolution = d[i].resolution
          /\ c[i].outcome = d[i].outcome
    /\ \A i \in (Len(c) + 1)..Len(d) : Quiet(d[i])

\* The stage, the outcome and the spent challenges.
LEMMA QuietGrowth ==
    ASSUME NEW c, IsChain(c), NEW d, IsChain(d), QuietlyGrows(c, d)
    PROVE  /\ CurrentStage(d) = CurrentStage(c)
           /\ EndedAs(d) = EndedAs(c)
           /\ UsedNonces(d) = UsedNonces(c)
<1>1. /\ Len(c) \in Nat /\ DOMAIN c = 1..Len(c)
      /\ Len(d) \in Nat /\ DOMAIN d = 1..Len(d) /\ Len(d) >= Len(c)
  BY DEF IsChain, QuietlyGrows
<1>2. \A i \in 1..Len(d) : i \in 1..Len(c) \/ i \in (Len(c) + 1)..Len(d)
  BY <1>1
<1>3. CurrentStage(d) = CurrentStage(c)
  <2> DEFINE I == {i \in 1..Len(c) : ApprovedMove(c[i])}
  <2>1. I = {i \in 1..Len(d) : ApprovedMove(d[i])}
    BY <1>1, <1>2 DEF QuietlyGrows, Quiet, ApprovedMove
  <2>2. /\ SelectLastInSeq(c, ApprovedMove) = IF I # {} THEN Max(I) ELSE 0
        /\ SelectLastInSeq(d, ApprovedMove) = IF I # {} THEN Max(I) ELSE 0
    BY <2>1 DEF SelectLastInSeq
  <2>3. I # {} => Max(I) \in 1..Len(c)
    <3>1. I \subseteq 1..Len(c)
      OBVIOUS
    <3> HIDE DEF I
    <3> QED BY <1>1, <3>1, MaxOf
  <2> HIDE DEF I
  <2> QED BY <2>2, <2>3 DEF CurrentStage, QuietlyGrows
<1>4. EndedAs(d) = EndedAs(c)
  <2> DEFINE I == {i \in 1..Len(c) : c[i].kind = "outcome"}
  <2>1. I = {i \in 1..Len(d) : d[i].kind = "outcome"}
    BY <1>1, <1>2 DEF QuietlyGrows, Quiet
  <2>2. /\ EndedAs(c) = IF (IF I # {} THEN Max(I) ELSE 0) = 0 THEN None
                        ELSE c[IF I # {} THEN Max(I) ELSE 0].outcome
        /\ EndedAs(d) = IF (IF I # {} THEN Max(I) ELSE 0) = 0 THEN None
                        ELSE d[IF I # {} THEN Max(I) ELSE 0].outcome
    BY <2>1 DEF EndedAs, SelectLastInSeq
  <2>3. I # {} => Max(I) \in 1..Len(c)
    <3>1. I \subseteq 1..Len(c)
      OBVIOUS
    <3> HIDE DEF I
    <3> QED BY <1>1, <3>1, MaxOf
  <2> HIDE DEF I
  <2> QED BY <2>2, <2>3 DEF QuietlyGrows
<1>5. UsedNonces(d) = UsedNonces(c)
  <2>1. \A i \in 1..Len(c) : Nonce(c[i]) = Nonce(d[i])
    BY DEF QuietlyGrows, Nonce
  <2>2. \A i \in (Len(c) + 1)..Len(d) : Nonce(d[i]) = None
    BY DEF QuietlyGrows, Quiet, Nonce
  <2>3. \A i \in 1..Len(c) : i \in 1..Len(d)
    BY <1>1
  <2> QED BY <1>1, <1>2, <2>1, <2>2, <2>3 DEF UsedNonces
<1> QED BY <1>3, <1>4, <1>5

\* A run whose chain records no outcome is open.
LEMMA OpenRun ==
    ASSUME NEW c, IsChain(c), ~Terminal(c)
    PROVE  EndedAs(c) = None
<1>1. DOMAIN c = 1..Len(c)
  BY DEF IsChain
<1>2. {i \in 1..Len(c) : c[i].kind = "outcome"} = {}
  BY <1>1 DEF Terminal
<1> QED BY <1>2 DEF EndedAs, SelectLastInSeq

\* The last of a set of positions, once a later one joins it.
LEMMA LastJoined ==
    ASSUME NEW n \in Nat, NEW T, T \subseteq 1..n
    PROVE  Max(T \cup {n + 1}) = n + 1
<1> DEFINE U == T \cup {n + 1}
<1>1. U \subseteq 1..(n + 1) /\ U # {} /\ n + 1 \in U /\ n + 1 \in Nat
  OBVIOUS
<1> HIDE DEF U
<1>2. Max(U) \in U /\ \A y \in U : Max(U) >= y
  BY <1>1, MaxOf
<1>3. Max(U) \in 1..(n + 1) /\ Max(U) >= n + 1
  BY <1>1, <1>2
<1>4. Max(U) = n + 1
  BY <1>3
<1> QED BY <1>4 DEF U

\* What a record adds to a run's control.
LEMMA AppendControl ==
    ASSUME NEW c, IsChain(c), NEW r
    PROVE  LET d == Append(c, r) IN
           /\ CurrentStage(d) = IF ApprovedMove(r) THEN r.approval.to ELSE CurrentStage(c)
           /\ EndedAs(d) = IF r.kind = "outcome" THEN r.outcome ELSE EndedAs(c)
           /\ UsedNonces(d) = UsedNonces(c) \cup ({Nonce(r)} \ {None})
<1> DEFINE S == {c[i] : i \in DOMAIN c} \cup {r}
           d == Append(c, r)
           n == Len(c)
<1>1. /\ n \in Nat /\ DOMAIN c = 1..n
      /\ Len(d) = n + 1 /\ DOMAIN d = 1..(n + 1)
      /\ \A i \in 1..n : d[i] = c[i]
      /\ d[n + 1] = r
  <2>1. c \in Seq(S) /\ r \in S
    BY DEF IsChain
  <2> HIDE DEF S
  <2> QED BY <2>1
<1> HIDE DEF S, d, n
<1>2. 1..(n + 1) = 1..n \cup {n + 1}
  BY <1>1
<1>3. CurrentStage(d) = IF ApprovedMove(r) THEN r.approval.to ELSE CurrentStage(c)
  <2> DEFINE I == {i \in 1..n : ApprovedMove(c[i])}
             J == {i \in 1..(n + 1) : ApprovedMove(d[i])}
  <2>1. J = IF ApprovedMove(r) THEN I \cup {n + 1} ELSE I
    <3>1. \A i \in 1..n : ApprovedMove(d[i]) <=> ApprovedMove(c[i])
      BY <1>1
    <3>2. ApprovedMove(d[n + 1]) <=> ApprovedMove(r)
      BY <1>1
    <3> QED BY <1>2, <3>1, <3>2
  <2>2. /\ CurrentStage(c) = IF (IF I # {} THEN Max(I) ELSE 0) = 0 THEN "GROUNDING"
                             ELSE c[IF I # {} THEN Max(I) ELSE 0].approval.to
        /\ CurrentStage(d) = IF (IF J # {} THEN Max(J) ELSE 0) = 0 THEN "GROUNDING"
                             ELSE d[IF J # {} THEN Max(J) ELSE 0].approval.to
    BY <1>1 DEF CurrentStage, SelectLastInSeq, n
  <2>3. I \subseteq 1..n
    OBVIOUS
  <2> HIDE DEF I, J
  <2>4. Max(I \cup {n + 1}) = n + 1
    BY <1>1, <2>3, LastJoined
  <2>5. I # {} => Max(I) \in 1..n
    BY <1>1, <2>3, MaxOf
  <2>6. CASE ApprovedMove(r)
    <3>1. J # {} /\ Max(J) = n + 1 /\ n + 1 # 0
      BY <1>1, <2>1, <2>4, <2>6
    <3> QED BY <1>1, <2>2, <2>6, <3>1
  <2>7. CASE ~ApprovedMove(r)
    <3>1. J = I
      BY <2>1, <2>7
    <3> QED BY <1>1, <2>2, <2>5, <2>7, <3>1
  <2> QED BY <2>6, <2>7
<1>4. EndedAs(d) = IF r.kind = "outcome" THEN r.outcome ELSE EndedAs(c)
  <2> DEFINE I == {i \in 1..n : c[i].kind = "outcome"}
             J == {i \in 1..(n + 1) : d[i].kind = "outcome"}
  <2>1. J = IF r.kind = "outcome" THEN I \cup {n + 1} ELSE I
    BY <1>1, <1>2
  <2>2. /\ EndedAs(c) = IF (IF I # {} THEN Max(I) ELSE 0) = 0 THEN None
                        ELSE c[IF I # {} THEN Max(I) ELSE 0].outcome
        /\ EndedAs(d) = IF (IF J # {} THEN Max(J) ELSE 0) = 0 THEN None
                        ELSE d[IF J # {} THEN Max(J) ELSE 0].outcome
    BY <1>1 DEF EndedAs, SelectLastInSeq, n
  <2>3. I \subseteq 1..n
    OBVIOUS
  <2> HIDE DEF I, J
  <2>4. Max(I \cup {n + 1}) = n + 1
    BY <1>1, <2>3, LastJoined
  <2>5. I # {} => Max(I) \in 1..n
    BY <1>1, <2>3, MaxOf
  <2>6. CASE r.kind = "outcome"
    <3>1. J # {} /\ Max(J) = n + 1 /\ n + 1 # 0
      BY <1>1, <2>1, <2>4, <2>6
    <3> QED BY <1>1, <2>2, <2>6, <3>1
  <2>7. CASE r.kind # "outcome"
    <3>1. J = I
      BY <2>1, <2>7
    <3> QED BY <1>1, <2>2, <2>5, <2>7, <3>1
  <2> QED BY <2>6, <2>7
<1>5. UsedNonces(d) = UsedNonces(c) \cup ({Nonce(r)} \ {None})
  <2>1. \A i \in 1..n : Nonce(d[i]) = Nonce(c[i])
    BY <1>1
  <2>2. Nonce(d[n + 1]) = Nonce(r)
    BY <1>1
  <2>3. {Nonce(d[i]) : i \in DOMAIN d} = {Nonce(c[i]) : i \in DOMAIN c} \cup {Nonce(r)}
    BY <1>1, <1>2, <2>1, <2>2
  <2> QED BY <2>3 DEF UsedNonces
<1> QED BY <1>3, <1>4, <1>5 DEF d

\* The abstract control has the same stages, edges and outcomes.
LEMMA SameVocabulary ==
    /\ Control!Stages = Stages
    /\ Control!stoppingOutcomes = stoppingOutcomes
    /\ \A s, t : Control!IsLegalEdge(s, t) <=> IsLegalEdge(s, t)
BY DEF Control!Stages, Stages, Control!stoppingOutcomes, stoppingOutcomes,
       Control!FailureOutcomes, FailureOutcomes, Control!FailurePrecedence,
       FailurePrecedence, Control!IsLegalEdge, IsLegalEdge, Control!ordinaryEdges,
       ordinaryEdges

\* A record that may follow is a step of the abstract control, or none.
LEMMA FollowingStep ==
    ASSUME IsChain(chain), NEW r, Follows(chain, r), chain' = Append(chain, r)
    PROVE  [Control!ControlNext]_(Control!controlVars)
<1>1. /\ CurrentStage(chain') = IF ApprovedMove(r) THEN r.approval.to
                                ELSE CurrentStage(chain)
      /\ EndedAs(chain') = IF r.kind = "outcome" THEN r.outcome ELSE EndedAs(chain)
      /\ UsedNonces(chain') = UsedNonces(chain) \cup ({Nonce(r)} \ {None})
  BY AppendControl
<1>2. CASE Quiet(r)
  <2>1. ~ApprovedMove(r) /\ Nonce(r) = None /\ r.kind # "outcome"
    BY <1>2 DEF Quiet, ApprovedMove, Nonce
  <2> QED BY <1>1, <2>1 DEF Control!controlVars
<1>3. CASE ~Quiet(r)
  <2>1. PICK n \in Challenges \ UsedNonces(chain) :
            UsedNonces(chain') = UsedNonces(chain) \cup {n}
    BY <1>1, <1>3, NoneAssumption DEF Follows, Challenges
  <2>2. Control!Spend
    BY <2>1 DEF Control!Spend
  <2>3. CASE r.kind # "outcome" /\ ~ApprovedMove(r)
    BY <1>1, <2>2, <2>3 DEF Control!ControlNext, Control!Decide
  <2>4. CASE r.kind # "outcome" /\ ApprovedMove(r)
    <3>1. EndedAs(chain) = None
      BY <1>3, <2>4, OpenRun DEF Follows
    <3>2. /\ IsLegalEdge(CurrentStage(chain), r.approval.to)
          /\ r.approval.to \in Stages
      BY <1>3, <2>4 DEF Follows
    <3>3. /\ CurrentStage(chain)' = r.approval.to
          /\ EndedAs(chain)' = EndedAs(chain)
      BY <1>1, <2>4
    <3>4. Control!Move
      BY <2>2, <3>1, <3>2, <3>3, SameVocabulary DEF Control!Move
    <3> QED BY <3>4 DEF Control!ControlNext
  <2>5. CASE r.kind = "outcome"
    <3>1. ~ApprovedMove(r)
      BY <2>5 DEF ApprovedMove
    <3>2. r.outcome \in stoppingOutcomes /\ ~Terminal(chain)
      BY <1>3, <2>5, <3>1 DEF Follows
    <3>3. EndedAs(chain) = None
      BY <3>2, OpenRun
    <3>4. /\ CurrentStage(chain)' = CurrentStage(chain)
          /\ EndedAs(chain)' = r.outcome
      BY <1>1, <2>5, <3>1
    <3>5. Control!Stop
      BY <2>2, <3>2, <3>3, <3>4, SameVocabulary DEF Control!Stop
    <3> QED BY <3>5 DEF Control!ControlNext
  <2> QED BY <2>3, <2>4, <2>5
<1> QED BY <1>2, <1>3

-----------------------------------------------------------------------------
(* Steps that append nothing.                                              *)

\* A step of one command that appends nothing.
LEMMA JobStepControls ==
    ASSUME ControlInv, IInv', repo' \in Repos, NEW p \in Procs, chain' = chain,
           \A q \in Procs \ {p} : pc'[q] = pc[q] /\ job'[q] = job[q],
           JobControls(p)'
    PROVE  ControlInv'
<1>1. ASSUME NEW q \in Procs PROVE JobControls(q)'
  <2>1. CASE q = p
    BY <2>1
  <2>2. CASE q # p
    <3>1. JobControls(q) /\ pc'[q] = pc[q] /\ job'[q] = job[q]
      BY <2>2 DEF ControlInv
    <3> QED BY <3>1 DEF JobControls
  <2> QED BY <2>1, <2>2
<1> QED BY <1>1 DEF ControlInv

\* One that presents a packet.
LEMMA PresentControls ==
    ASSUME ControlInv, IInv', NEW p \in Procs, NEW l, l # "append", Present(p, l),
           chain' = chain, repo' = repo
    PROVE  ControlInv'
<1>1. PICK k \in Packets, n \in Nonces :
          job' = [job EXCEPT ![p] = [NoJob EXCEPT !.packet = Approval(k, n, repo),
                                                  !.at = Len(chain) + 1,
                                                  !.seen = repo]]
  BY DEF Present
<1>2. DOMAIN job = Procs /\ DOMAIN pc = Procs /\ repo \in Repos
  BY DEF ControlInv, IInv
<1>3. /\ job'[p].packet = Approval(k, n, repo) /\ pc'[p] = l
      /\ \A q \in Procs \ {p} : pc'[q] = pc[q] /\ job'[q] = job[q]
  BY <1>1, <1>2 DEF Present, Goto, NoJob
<1>4. Approval(k, n, repo) # None /\ Approval(k, n, repo).nonce = n
  BY <1>2, NoneAssumption DEF Approval
<1>5. JobControls(p)'
  BY <1>3, <1>4 DEF JobControls
<1> QED BY <1>2, <1>3, <1>5, JobStepControls

\* One that goes on with the packet it has.
LEMMA GotoControls ==
    ASSUME ControlInv, IInv', NEW p \in Procs, NEW l, l # "append", Goto(p, l),
           pc[p] \in {"gate", "evaluate", "pilotLoad", "pilotCapture"},
           chain' = chain, repo' = repo, job' = job
    PROVE  ControlInv'
<1>1. DOMAIN pc = Procs /\ repo \in Repos /\ JobControls(p)
  BY DEF ControlInv, IInv
<1>2. JobControls(p)' /\ \A q \in Procs \ {p} : pc'[q] = pc[q]
  BY <1>1 DEF Goto, JobControls
<1> QED BY <1>1, <1>2, JobStepControls

\* One that ends the command, or needs no packet for what it does next.
LEMMA LeaveControls ==
    ASSUME ControlInv, IInv', NEW p \in Procs, NEW l, l \in {"idle", "ciCapture"},
           Goto(p, l), chain' = chain, repo' = repo,
           \A q \in Procs \ {p} : job'[q] = job[q]
    PROVE  ControlInv'
<1>1. DOMAIN pc = Procs /\ repo \in Repos
  BY DEF ControlInv, IInv
<1>2. JobControls(p)' /\ \A q \in Procs \ {p} : pc'[q] = pc[q]
  BY <1>1 DEF Goto, JobControls
<1> QED BY <1>1, <1>2, JobStepControls

\* One that decides to append rs: for the next position, or for the one the
\* command already holds.
LEMMA DecideControls ==
    ASSUME ControlInv, IInv', NEW p \in Procs, NEW rs, Goto(p, "append"),
           \/ job' = [job EXCEPT ![p].at = Len(chain) + 1, ![p].want = rs]
           \/ job' = [job EXCEPT ![p].want = rs],
           chain' = chain, repo' = repo,
           \A i \in 2..Len(rs) : Quiet(rs[i]),
           job'[p].at = Len(chain) + 1 => Follows(chain, rs[1])
    PROVE  ControlInv'
<1>1. DOMAIN pc = Procs /\ DOMAIN job = Procs /\ JobOK(p) /\ repo \in Repos
  BY DEF ControlInv, IInv
<1>2. /\ job'[p].want = rs /\ pc'[p] = "append"
      /\ \A q \in Procs \ {p} : pc'[q] = pc[q] /\ job'[q] = job[q]
  BY <1>1 DEF JobOK, Goto
<1>3. JobControls(p)'
  BY <1>2 DEF JobControls
<1> QED BY <1>1, <1>2, <1>3, JobStepControls

\* Deciding on one record.
LEMMA IntendControls ==
    ASSUME ControlInv, IInv', NEW p \in Procs, NEW r, Intend(p, <<r>>),
           chain' = chain, repo' = repo, Follows(chain, r)
    PROVE  ControlInv'
<1> DEFINE rs == <<r>>
<1>1. Len(rs) = 1 /\ rs[1] = r /\ 2..1 = {}
  OBVIOUS
<1>2. /\ job' = [job EXCEPT ![p].at = Len(chain) + 1, ![p].want = rs]
      /\ Goto(p, "append")
  BY DEF Intend
<1> HIDE DEF rs
<1> QED BY <1>1, <1>2, DecideControls

\* What EvaluateStageTransition admits is a step of the abstract control.
LEMMA AdmittedFollows ==
    ASSUME NEW c, NEW a, NEW at, NEW wt, AdmitsTransition(c, a, at, wt),
           a # None, a.nonce \in Nonces
    PROVE  Follows(c, AppliedRecord(c, a))
<1> DEFINE r == AppliedRecord(c, a)
<1>1. /\ r.approval = a /\ r.control = "APPROVED"
      /\ r.kind = IF a.class THEN "classification"
                  ELSE IF a.outcome # None THEN "outcome" ELSE "stage_transition"
      /\ r.outcome = IF a.class THEN None ELSE a.outcome
  BY DEF AppliedRecord, Blank
<1>2. /\ ~Terminal(c) /\ a.from = CurrentStage(c) /\ LegalTarget(a)
      /\ ValidApprovalTarget(a) /\ a.nonce \notin UsedNonces(c)
  BY DEF AdmitsTransition, AdmitsApproval
<1> HIDE DEF r
<1>3. Nonce(r) \in Nonces \ UsedNonces(c)
  BY <1>1, <1>2 DEF Nonce
<1>4. a.class => Follows(c, r)
  BY <1>1, <1>3 DEF Follows, ApprovedMove
<1>5. ASSUME ~a.class, a.outcome # None PROVE Follows(c, r)
  <2>1. a.outcome \in stoppingOutcomes
    BY <1>2, <1>5 DEF LegalTarget
  <2> QED BY <1>1, <1>2, <1>3, <1>5, <2>1 DEF Follows
<1>6. ASSUME ~a.class, a.outcome = None PROVE Follows(c, r)
  <2>1. /\ a.to \in Stages /\ IsLegalEdge(a.from, a.to)
    BY <1>2, <1>6, NoneAssumption DEF LegalTarget, ValidApprovalTarget, Outcomes,
       stoppingOutcomes
  <2>2. a.to # None
    BY <2>1, NoneAssumption
  <2>3. ApprovedMove(r)
    BY <1>1, <1>6, <2>2 DEF ApprovedMove
  <2> QED BY <1>1, <1>2, <1>3, <2>1, <2>3 DEF Follows
<1> QED BY <1>4, <1>5, <1>6 DEF r

\* hma transition and hma pilot, up to their appends.
LEMMA PacketControls ==
    ASSUME ControlInv, IInv', NEW p \in Procs,
           \/ TransitionBegin(p) \/ TransitionGate(p) \/ TransitionEvaluate(p)
           \/ PilotBegin(p) \/ PilotEvaluate(p) \/ PilotCapture(p)
    PROVE  ControlInv'
<1>1. CASE TransitionBegin(p) \/ PilotBegin(p)
  BY <1>1, PresentControls DEF TransitionBegin, PilotBegin
<1>2. CASE TransitionGate(p) \/ PilotEvaluate(p)
  BY <1>2, GotoControls DEF TransitionGate, PilotEvaluate
<1>3. CASE TransitionEvaluate(p)
  <2> DEFINE a == job[p].packet
  <2>1. /\ AdmitsTransition(chain, a, job[p].at, job[p].seen.wt)
        /\ Intend(p, <<AppliedRecord(chain, a)>>)
        /\ chain' = chain /\ repo' = repo
    BY <1>3 DEF TransitionEvaluate
  <2>2. a # None /\ a.nonce \in Nonces
    BY <1>3 DEF TransitionEvaluate, ControlInv, JobControls
  <2> HIDE DEF a
  <2> QED BY <2>1, <2>2, AdmittedFollows, IntendControls
<1>4. CASE PilotCapture(p)
  <2>1. /\ pc[p] = "pilotCapture" /\ chain' = chain /\ repo' = repo
        /\ Goto(p, "append") /\ JobOK(p) /\ JobControls(p)
        /\ DOMAIN job = Procs
    BY <1>4 DEF PilotCapture, ControlInv, IInv
  <2>2. PICK d \in Digests :
            job' = [job EXCEPT ![p].want = PilotRecords(job[p].packet, d, repo)]
    BY <1>4 DEF PilotCapture
  <2> DEFINE a == job[p].packet
             rs == PilotRecords(a, d, repo)
  <2>3. /\ rs[1].approval = a /\ rs[1].kind = "stage_transition"
        /\ rs[1].control = "READY_FOR_REVIEW"
        /\ Quiet(rs[2])
    BY DEF PilotRecords, Blank, Quiet
  <2>4. Len(rs) = 2
    BY DEF PilotRecords
  <2>5. job' = [job EXCEPT ![p].want = rs] /\ job'[p].at = job[p].at
    BY <2>1, <2>2 DEF JobOK
  <2>6. /\ a # None /\ a.nonce \in Nonces
        /\ job[p].at = Len(chain) + 1 => a.nonce \notin UsedNonces(chain)
    BY <2>1 DEF JobControls, JobOK
  <2> HIDE DEF a, rs
  <2>7. ~ApprovedMove(rs[1]) /\ Nonce(rs[1]) = a.nonce
    BY <2>3, <2>6 DEF ApprovedMove, Nonce
  <2>8. job'[p].at = Len(chain) + 1 => Follows(chain, rs[1])
    BY <2>3, <2>5, <2>6, <2>7 DEF Follows
  <2>9. \A i \in 2..Len(rs) : Quiet(rs[i])
    BY <2>3, <2>4
  <2> QED BY <2>1, <2>5, <2>8, <2>9, DecideControls
<1> QED BY <1>1, <1>2, <1>3, <1>4

\* hma ci github, hmarun's baseline and hma host findings-import record what
\* decides nothing; hma resolve spends a challenge.
LEMMA RecordControls ==
    ASSUME ControlInv, IInv', NEW p \in Procs,
           \/ CIBegin(p) \/ CICapture(p)
           \/ Resolve(p) \/ CriteriaBaseline(p) \/ FindingsImport(p)
    PROVE  ControlInv'
<1>1. CASE CIBegin(p)
  <2>1. /\ Goto(p, "ciCapture") /\ chain' = chain /\ repo' = repo
        /\ \A q \in Procs \ {p} : job'[q] = job[q]
    BY <1>1 DEF CIBegin, ControlInv, IInv
  <2> QED BY <2>1, LeaveControls
<1>2. CASE CICapture(p)
  <2>1. chain' = chain /\ repo' = repo /\ Goto(p, "append")
    BY <1>2 DEF CICapture
  <2>2. PICK d \in Digests :
            job' = [job EXCEPT ![p].want =
              <<[Blank EXCEPT !.kind = "evidence", !.stage = job[p].packet.from,
                    !.evidence = [digest |-> d, base |-> job[p].packet.base,
                                  head |-> repo.head]]>>]
    BY <1>2 DEF CICapture
  <2> DEFINE r == [Blank EXCEPT !.kind = "evidence", !.stage = job[p].packet.from,
                      !.evidence = [digest |-> d, base |-> job[p].packet.base,
                                    head |-> repo.head]]
             rs == <<r>>
  <2>3. Quiet(r)
    BY DEF Blank, Quiet
  <2>4. job' = [job EXCEPT ![p].want = rs]
    BY <2>2
  <2> HIDE DEF r
  <2>5. Follows(chain, rs[1]) /\ \A i \in 2..Len(rs) : Quiet(rs[i])
    BY <2>3 DEF Follows
  <2> HIDE DEF rs
  <2> QED BY <2>1, <2>4, <2>5, DecideControls
<1>3. CASE Resolve(p)
  <2>1. PICK o \in Operations, n \in Nonces :
            /\ AdmitsResolution(chain, Resolution(o, n))
            /\ Intend(p, <<ResolutionRecord(Resolution(o, n))>>)
    BY <1>3 DEF Resolve
  <2> DEFINE r == ResolutionRecord(Resolution(o, n))
  <2>2. chain' = chain /\ repo' = repo
    BY <1>3 DEF Resolve
  <2>3. Resolution(o, n) # None /\ Resolution(o, n).nonce = n
    BY NoneAssumption DEF Resolution
  <2>4. n \notin UsedNonces(chain)
    BY <2>1, <2>3 DEF AdmitsResolution
  <2>5. /\ r.approval = None /\ r.resolution = Resolution(o, n)
        /\ r.kind \in {"finding_override", "waiver_operation"}
    BY DEF ResolutionRecord, Blank
  <2>6. Intend(p, <<r>>)
    BY <2>1
  <2> HIDE DEF r
  <2>7. Nonce(r) = n
    BY <2>3, <2>5 DEF Nonce
  <2>8. Follows(chain, r)
    BY <2>4, <2>5, <2>7 DEF Follows, ApprovedMove
  <2> QED BY <2>2, <2>6, <2>8, IntendControls
<1>4. CASE CriteriaBaseline(p)
  <2>1. PICK k \in Contracts :
            Intend(p, <<[Blank EXCEPT !.kind = "criterion", !.stage = "ACCEPTANCE_CRITERIA",
                            !.criteria = [c \in CriteriaOf[k] |-> "PENDING"]]>>)
    BY <1>4 DEF CriteriaBaseline
  <2> DEFINE r == [Blank EXCEPT !.kind = "criterion", !.stage = "ACCEPTANCE_CRITERIA",
                      !.criteria = [c \in CriteriaOf[k] |-> "PENDING"]]
  <2>2. Intend(p, <<r>>) /\ Quiet(r)
    BY <2>1 DEF Blank, Quiet
  <2>3. chain' = chain /\ repo' = repo
    BY <1>4 DEF CriteriaBaseline
  <2> HIDE DEF r
  <2>4. Follows(chain, r)
    BY <2>2 DEF Follows
  <2> QED BY <2>2, <2>3, <2>4, IntendControls
<1>5. CASE FindingsImport(p)
  <2>1. PICK rep \in Reports : Intend(p, <<SnapshotRecord(chain, rep)>>)
    BY <1>5 DEF FindingsImport
  <2> DEFINE r == SnapshotRecord(chain, rep)
  <2>2. Intend(p, <<r>>)
    BY <2>1
  <2>3. Follows(chain, r)
    BY DEF SnapshotRecord, Blank, Quiet, Follows
  <2>4. chain' = chain /\ repo' = repo
    BY <1>5 DEF FindingsImport
  <2> HIDE DEF r
  <2> QED BY <2>2, <2>3, <2>4, IntendControls
<1> QED BY <1>1, <1>2, <1>3, <1>4, <1>5

-----------------------------------------------------------------------------
(* Steps that append.                                                      *)

\* A command left behind by a longer chain has only quiet records to add.
LEMMA LeftBehindControls ==
    ASSUME ControlInv, NEW q \in Procs, pc'[q] = pc[q], job'[q] = job[q],
           Len(chain) \in Nat, Len(chain') \in Nat, Len(chain') > Len(chain)
    PROVE  JobControls(q)'
<1>1. JobControls(q) /\ job[q].at \in Nat /\ job[q].at <= Len(chain) + 1
  BY DEF ControlInv, IInv, JobOK
<1>2. job'[q].at # Len(chain') + 1
  BY <1>1
<1> QED BY <1>1, <1>2 DEF JobControls

\* Store.Append: a decision lands on the chain it is a step of.
LEMMA AppendNextControls ==
    ASSUME ControlInv, IInv', NEW p \in Procs, AppendNext(p)
    PROVE  ControlInv' /\ [Control!ControlNext]_(Control!controlVars)
<1> DEFINE rs == job[p].want
           r == Head(rs)
<1>1. /\ IsChain(chain) /\ IsChain(chain') /\ repo \in Repos /\ repo' = repo
      /\ DOMAIN pc = Procs /\ DOMAIN job = Procs /\ JobOK(p) /\ JobControls(p)
      /\ pc[p] = "append" /\ job[p].at = Len(chain) + 1
      /\ chain' = Append(chain, r)
  BY DEF ControlInv, IInv, AppendNext, ExtendsChain
<1>2. /\ IsChain(rs) /\ Len(rs) >= 1
      /\ Follows(chain, rs[1]) /\ \A i \in 2..Len(rs) : Quiet(rs[i])
  BY <1>1 DEF JobOK, JobControls
<1>3. Len(rs) \in Nat /\ r = rs[1]
  BY <1>2 DEF IsChain
<1> HIDE DEF rs, r
<1>4. [Control!ControlNext]_(Control!controlVars)
  BY <1>1, <1>2, <1>3, FollowingStep
<1>5. Len(chain) \in Nat /\ Len(chain') = Len(chain) + 1
  <2> DEFINE S == {chain[i] : i \in DOMAIN chain} \cup {r}
  <2>1. chain \in Seq(S) /\ r \in S
    BY <1>1 DEF IsChain
  <2> HIDE DEF S
  <2> QED BY <1>1, <2>1
<1>6. \A q \in Procs \ {p} : pc'[q] = pc[q] /\ job'[q] = job[q]
  BY <1>1 DEF AppendNext, Finish, Goto
<1>7. \A q \in Procs \ {p} : JobControls(q)'
  BY <1>5, <1>6, LeftBehindControls
<1>8. JobControls(p)'
  <2>1. CASE Len(rs) > 1
    <3>1. /\ job' = [job EXCEPT ![p].want = Tail(rs), ![p].at = job[p].at + 1]
          /\ pc' = pc
      BY <1>1, <2>1 DEF AppendNext, rs, JobOK
    <3>2. job'[p].want = Tail(rs)
      BY <1>1, <3>1 DEF JobOK
    <3>3. /\ Len(Tail(rs)) = Len(rs) - 1
          /\ \A i \in 1..(Len(rs) - 1) : Tail(rs)[i] = rs[i + 1]
      <4> DEFINE S == {rs[i] : i \in DOMAIN rs}
      <4>1. rs \in Seq(S)
        BY <1>2 DEF IsChain
      <4> HIDE DEF S
      <4> QED BY <2>1, <4>1
    <3>4. \A i \in 1..(Len(rs) - 1) : Quiet(Tail(rs)[i])
      BY <1>2, <1>3, <3>3
    <3>5. (\A i \in 2..Len(Tail(rs)) : Quiet(Tail(rs)[i])) /\ Follows(chain', Tail(rs)[1])
      BY <1>3, <2>1, <3>3, <3>4 DEF Follows
    <3> QED BY <1>1, <3>1, <3>2, <3>5 DEF JobControls
  <2>2. CASE ~(Len(rs) > 1)
    <3>1. Finish(p)
      BY <2>2 DEF AppendNext, rs
    <3> QED BY <1>1, <3>1 DEF Finish, Goto, JobControls
  <2> QED BY <2>1, <2>2
<1>9. \A q \in Procs : JobControls(q)'
  BY <1>7, <1>8
<1>10. ControlInv'
  BY <1>1, <1>9 DEF ControlInv
<1> QED BY <1>4, <1>10

\* Replaying changes nothing about control.
LEMMA ReplayFollows ==
    ASSUME NEW c, IsChain(c), SpendsOnce(c)
    PROVE  QuietlyGrows(c, Replayed(c))
<1> DEFINE d == Replayed(c)
<1>1. Len(c) \in Nat /\ DOMAIN c = 1..Len(c) /\ Len(d) = Len(c)
  <2>1. Len(d) = Len(c) /\ Len(c) \in Nat
    BY ReplayedSpends
  <2>2. DOMAIN c = 1..Len(c)
    BY DEF IsChain
  <2> QED BY <2>1, <2>2
<1>2. ASSUME NEW i \in 1..Len(c)
      PROVE  /\ c[i].kind = d[i].kind /\ c[i].control = d[i].control
             /\ c[i].approval = d[i].approval /\ c[i].resolution = d[i].resolution
             /\ c[i].outcome = d[i].outcome
  <2>1. DOMAIN c[i] = DOMAIN Blank
    BY <1>1 DEF IsChain
  <2>2. {"kind", "control", "approval", "resolution", "outcome"} \subseteq DOMAIN c[i]
    BY <2>1 DEF Blank
  <2>3. d[i] = c[i] \/ \E f : d[i] = [c[i] EXCEPT !.findings = f]
    BY <1>1 DEF Replayed
  <2> QED BY <2>2, <2>3
<1>3. (Len(c) + 1)..Len(d) = {}
  BY <1>1
<1> HIDE DEF d
<1> QED BY <1>1, <1>2, <1>3 DEF QuietlyGrows, d

\* Appending a record that changes nothing about control.
LEMMA AppendFollows ==
    ASSUME NEW c, IsChain(c), NEW d, IsChain(d), QuietlyGrows(c, d),
           NEW r, Quiet(r)
    PROVE  QuietlyGrows(c, Append(d, r)) /\ Len(Append(d, r)) = Len(d) + 1
<1> DEFINE S == {d[i] : i \in DOMAIN d} \cup {r}
           e == Append(d, r)
<1>1. d \in Seq(S) /\ r \in S /\ Len(c) \in Nat
  BY DEF IsChain
<1>2. /\ Len(d) \in Nat /\ Len(e) = Len(d) + 1
      /\ \A i \in 1..Len(d) : e[i] = d[i]
      /\ e[Len(d) + 1] = r
  <2> HIDE DEF S
  <2> QED BY <1>1
<1> HIDE DEF S, e
<1>3. \A i \in 1..Len(c) : i \in 1..Len(d) /\ e[i] = d[i]
  BY <1>1, <1>2 DEF QuietlyGrows
<1>4. \A i \in (Len(c) + 1)..Len(e) :
          (i \in (Len(c) + 1)..Len(d) /\ e[i] = d[i]) \/ e[i] = r
  BY <1>1, <1>2 DEF QuietlyGrows
<1>5. Len(e) >= Len(c)
  BY <1>1, <1>2 DEF QuietlyGrows
<1>6. QuietlyGrows(c, e)
  BY <1>3, <1>4, <1>5 DEF QuietlyGrows
<1> QED BY <1>2, <1>6 DEF e

\* The evidence of a credit changes nothing about control.
LEMMA CheckedGrows ==
    ASSUME IInv, NEW unit, NEW base, NEW d, NEW n \in Nat
    PROVE  QuietlyGrows(chain, Checked(unit, base, d, n))
<1> DEFINE e == [i \in 1..n |-> EvidenceFor(unit, base, d)]
           c == Replayed(chain)
           f == c \o e
<1>1. e \in Seq({EvidenceFor(unit, base, d)}) /\ Len(e) = n
  OBVIOUS
<1>2. \A i \in 1..n : Quiet(e[i])
  BY DEF EvidenceFor, Blank, Quiet
<1>3. /\ IsChain(c) /\ Len(c) = Len(chain) /\ Len(chain) \in Nat
      /\ QuietlyGrows(chain, c)
  BY ReplayFollows, ReplayedSpends DEF IInv, NoncesSpentOnce
<1>4. Checked(unit, base, d, n) = f
  BY DEF Checked
<1>5. /\ Len(f) = Len(c) + n
      /\ \A i \in 1..Len(c) : f[i] = c[i]
      /\ \A i \in (Len(c) + 1)..Len(f) : f[i] = e[i - Len(c)]
  <2> DEFINE S == {c[i] : i \in DOMAIN c} \cup {EvidenceFor(unit, base, d)}
  <2>1. c \in Seq(S) /\ e \in Seq(S)
    BY <1>3 DEF IsChain
  <2> HIDE DEF S, c, e
  <2> QED BY <1>1, <2>1
<1> HIDE DEF e, c, f
<1>6. \A i \in (Len(c) + 1)..Len(f) : Quiet(f[i])
  BY <1>2, <1>3, <1>5
<1>7. QuietlyGrows(chain, f)
  BY <1>3, <1>5, <1>6 DEF QuietlyGrows
<1> QED BY <1>4, <1>7

\* A step that lengthens the chain by records that change nothing about
\* control is a stutter of it.
LEMMA GrowthControls ==
    ASSUME ControlInv, IInv', pc' = pc, job' = job, repo' = repo,
           QuietlyGrows(chain, chain'), Len(chain') > Len(chain)
    PROVE  ControlInv' /\ UNCHANGED Control!controlVars
<1>1. IsChain(chain) /\ IsChain(chain')
  BY DEF ControlInv, IInv
<1>2. Len(chain) \in Nat /\ Len(chain') \in Nat
  BY <1>1 DEF IsChain
<1>3. \A q \in Procs : JobControls(q)'
  BY <1>2, LeftBehindControls
<1>4. ControlInv'
  BY <1>3 DEF ControlInv
<1>5. /\ CurrentStage(chain') = CurrentStage(chain)
      /\ EndedAs(chain') = EndedAs(chain)
      /\ UsedNonces(chain') = UsedNonces(chain)
  BY <1>1, QuietGrowth
<1>6. UNCHANGED Control!controlVars
  BY <1>5 DEF Control!controlVars
<1> QED BY <1>4, <1>6

\* hma host reconcile, hma host loop evidence and hma host credit.
LEMMA LockedControls ==
    ASSUME ControlInv, IInv', Reconcile \/ LoopEvidence \/ Credit
    PROVE  ControlInv' /\ UNCHANGED Control!controlVars
<1>1. /\ IsChain(chain) /\ SpendsOnce(chain) /\ Len(chain) \in Nat /\ IInv
      /\ QuietlyGrows(chain, chain)
  BY DEF ControlInv, IInv, NoncesSpentOnce, IsChain, QuietlyGrows
<1>2. PICK c, r : /\ IsChain(c) /\ QuietlyGrows(chain, c) /\ Len(c) >= Len(chain)
                  /\ \/ chain' = c /\ Len(c) > Len(chain)
                     \/ chain' = Append(c, r) /\ Quiet(r)
  <2>1. CASE Reconcile
    <3>1. PICK fs : chain' = Append(Replayed(chain),
                      [Blank EXCEPT !.kind = "finding", !.stage = CurrentStage(chain),
                                    !.findings = fs, !.sealed = fs])
      BY <2>1 DEF Reconcile
    <3> DEFINE c == Replayed(chain)
               r == [Blank EXCEPT !.kind = "finding", !.stage = CurrentStage(chain),
                                  !.findings = fs, !.sealed = fs]
    <3>2. chain' = Append(c, r)
      BY <3>1
    <3>3. Quiet(r)
      BY DEF Blank, Quiet
    <3>4. IsChain(c) /\ QuietlyGrows(chain, c) /\ Len(c) >= Len(chain)
      BY <1>1, ReplayedSpends, ReplayFollows
    <3> HIDE DEF c, r
    <3> QED BY <3>2, <3>3, <3>4
  <2>2. CASE LoopEvidence
    <3>1. PICK unit, base, d : chain' = Append(chain, EvidenceFor(unit, base, d))
      BY <2>2 DEF LoopEvidence
    <3>2. Quiet(EvidenceFor(unit, base, d))
      BY DEF EvidenceFor, Blank, Quiet
    <3> QED BY <1>1, <3>1, <3>2
  <2>3. CASE Credit
    <3>1. PICK unit, base, d, m : \E n \in 1..m :
              \/ chain' = Checked(unit, base, d, n)
              \/ \E results : chain' = Append(Checked(unit, base, d, n),
                                              CreditRecord(unit, results))
      BY <2>3 DEF Credit
    <3>2. PICK n \in 1..m :
              \/ chain' = Checked(unit, base, d, n)
              \/ \E results : chain' = Append(Checked(unit, base, d, n),
                                              CreditRecord(unit, results))
      BY <3>1
    <3> DEFINE f == Checked(unit, base, d, n)
    <3>3. n \in Nat /\ n > 0
      OBVIOUS
    <3>4. IsChain(f) /\ Len(f) = Len(chain) + n /\ QuietlyGrows(chain, f)
      BY <1>1, <3>3, CheckedSpendsOnce, CheckedGrows
    <3>5. \A results : Quiet(CreditRecord(unit, results))
      BY DEF CreditRecord, Blank, Quiet
    <3>6. Len(f) > Len(chain)
      BY <1>1, <3>3, <3>4
    <3> QED BY <3>2, <3>4, <3>5, <3>6
  <2> QED BY <2>1, <2>2, <2>3
<1>3. QuietlyGrows(chain, chain') /\ Len(chain') > Len(chain)
  <2>1. CASE chain' = c /\ Len(c) > Len(chain)
    BY <1>2, <2>1
  <2>2. CASE chain' = Append(c, r) /\ Quiet(r)
    <3>1. QuietlyGrows(chain, Append(c, r)) /\ Len(Append(c, r)) = Len(c) + 1
      BY <1>1, <1>2, <2>2, AppendFollows
    <3>2. Len(c) \in Nat
      BY <1>2 DEF IsChain
    <3> QED BY <1>1, <1>2, <2>2, <3>1, <3>2
  <2> QED BY <1>2, <2>1, <2>2
<1>4. pc' = pc /\ job' = job /\ repo' = repo
  BY DEF Reconcile, LoopEvidence, Credit
<1> QED BY <1>3, <1>4, GrowthControls

-----------------------------------------------------------------------------
(* The refinement.                                                         *)

\* The run is picked up in a state the abstract control may start in.
LEMMA InitControls == Init => ControlInv /\ Control!ControlInit
<1> SUFFICES ASSUME Init PROVE ControlInv /\ Control!ControlInit
  OBVIOUS
<1>1. chain \in Seeds /\ IsChain(chain)
  BY SeedsAssumption DEF Init
<1>2. CurrentStage(chain) \in Control!Stages /\ EndedAs(chain) = None
  BY <1>1, OpenAssumption, OpenRun, SameVocabulary
<1>3. UsedNonces(chain) \in SUBSET Challenges
  BY <1>1 DEF Challenges
<1>4. Control!ControlInit
  BY <1>2, <1>3 DEF Control!ControlInit
<1>5. \A p \in Procs : JobControls(p)
  BY DEF Init, JobControls
<1> QED BY <1>4, <1>5, InitIInv DEF Init, ControlInv

\* Every step of the commands keeps the invariant, and is a step of the
\* abstract control or leaves it alone.
LEMMA NextControls ==
    ControlInv /\ [Next]_vars =>
        ControlInv' /\ [Control!ControlNext]_(Control!controlVars)
<1> SUFFICES ASSUME ControlInv, [Next]_vars
             PROVE  ControlInv' /\ [Control!ControlNext]_(Control!controlVars)
  OBVIOUS
<1>1. IInv'
  BY NextIInv DEF ControlInv
<1>2. chain' = chain => UNCHANGED Control!controlVars
  BY DEF Control!controlVars
<1>3. ASSUME NEW p \in Procs, Abandon(p)
      PROVE  ControlInv' /\ chain' = chain
  <2>1. /\ Goto(p, "idle") /\ chain' = chain /\ repo' = repo
        /\ \A q \in Procs \ {p} : job'[q] = job[q]
    BY <1>3 DEF Abandon, Finish, ControlInv, IInv
  <2> QED BY <1>1, <2>1, LeaveControls
<1>4. ASSUME NEW p \in Procs,
             \/ TransitionBegin(p) \/ TransitionGate(p) \/ TransitionEvaluate(p)
             \/ PilotBegin(p) \/ PilotEvaluate(p) \/ PilotCapture(p)
      PROVE  ControlInv' /\ chain' = chain
  BY <1>1, <1>4, PacketControls DEF TransitionBegin, TransitionGate,
     TransitionEvaluate, PilotBegin, PilotEvaluate, PilotCapture
<1>5. ASSUME NEW p \in Procs,
             \/ CIBegin(p) \/ CICapture(p)
             \/ Resolve(p) \/ CriteriaBaseline(p) \/ FindingsImport(p)
      PROVE  ControlInv' /\ chain' = chain
  BY <1>1, <1>5, RecordControls DEF CIBegin, CICapture, Resolve, CriteriaBaseline,
     FindingsImport
<1>6. CASE RepositoryChange \/ UNCHANGED vars
  <2>1. /\ chain' = chain /\ pc' = pc /\ job' = job
        /\ repo' \in Repos
    BY <1>6 DEF RepositoryChange, vars, ControlInv
  <2>2. ControlInv'
    BY <1>1, <2>1 DEF ControlInv, JobControls
  <2> QED BY <1>2, <2>1, <2>2
<1> QED
  BY <1>1, <1>2, <1>3, <1>4, <1>5, <1>6, AppendNextControls, LockedControls DEF Next

\* What a run's chain says about control, however its commands interleave, fail
\* and die, is a behaviour of RunControl: one stage, left along legal edges
\* only, a run that ends once and for good, and a fresh challenge for each
\* decision.
THEOREM ControlImplemented == Spec => ImplementsRunControl
<1> QED
  BY InitControls, NextControls, PTL
  DEF Spec, ImplementsRunControl, Control!ControlSpec

-----------------------------------------------------------------------------
(***************************************************************************)
(* What an approved decision rests on is what it says: the evidence at its *)
(* revision, the accepted contract, and the failures of the units when the *)
(* run is stopped for one.  For any processes, commands, packets, reports  *)
(* and seeds.                                                              *)
(*                                                                         *)
(* Each is a property of a record and the chain before it (Backed).  It    *)
(* holds of what a command decided on the chain it loaded; it still does   *)
(* when the record lands, since the record lands on that chain only; and   *)
(* replaying the chain, which rewrites findings, leaves it as it was.      *)
(***************************************************************************)

\* An approval presented since the run last entered stage s, for leaving it at
\* head h.
Packeted(c, s, h) ==
    \E j \in 1..Len(c) :
        /\ c[j].approval # None
        /\ c[j].approval.from = s
        /\ c[j].approval.head = h
        /\ \A k \in j..Len(c) : ApprovedMove(c[k]) => c[k].approval.to # s

OpenIn(c, s) == CurrentStage(c) = s /\ \A j \in 1..Len(c) : c[j].outcome = None

\* Record r is the evidence a pilot captured for record q.
Pairs(q, r) ==
    /\ q.kind = "stage_transition" /\ q.control = "READY_FOR_REVIEW"
    /\ q.stage = r.stage
    /\ q.approval.head \in {None, r.evidence.head}

PilotEvidence(r) == r.kind = "evidence" /\ r.control = "READY_FOR_REVIEW"
CIEvidence(r) == r.kind = "evidence" /\ r.control = None /\ r.unit = None

\* What record r rests on is in chain c.
EvidenceBacked(c, r) == Applied(r) => EvidenceSatisfied(c, r.approval)
PilotBacked(c, r) == PilotEvidence(r) => Len(c) >= 1 /\ Pairs(c[Len(c)], r)
CIBacked(c, r) ==
    CIEvidence(r) => OpenIn(c, r.stage) /\ Packeted(c, r.stage, r.evidence.head)
ContractBacked(c, r) ==
    Applied(r) =>
        /\ ~AcceptsAnew(r.approval) => r.approval.contract = BoundContractDigest(c)
        /\ r.approval.contract # None =>
              DOMAIN Criteria(c) = CriteriaOf[r.approval.contract]
        /\ AcceptsAnew(r.approval) /\ BoundContractDigest(c) # None =>
              r.approval.contract # None
OutcomeBacked(c, r) ==
    /\ r.outcome \in FailureOutcomes => FailureOutcome(c) = r.outcome
    /\ r.outcome = "PARTIAL" =>
          /\ BoundContractDigest(c) # None
          /\ FailureOutcome(c) = None
          /\ r.criteria = Criteria(c)

Backed(c, r) ==
    /\ EvidenceBacked(c, r)
    /\ PilotBacked(c, r)
    /\ CIBacked(c, r)
    /\ ContractBacked(c, r)
    /\ OutcomeBacked(c, r)

AllBacked(c) == \A i \in 1..Len(c) : Filed(c[i]) /\ Backed(Before(c, i), c[i])

\* A record that rests on nothing.
Plain(r) == ~Applied(r) /\ r.outcome = None /\ ~PilotEvidence(r) /\ ~CIEvidence(r)

\* A command's records, and what it holds them to be for.
JobBacked(p) ==
    /\ pc[p] \in {"pilotLoad", "pilotCapture"} =>
          job[p].packet.head \in {None, job[p].seen.head}
    /\ pc[p] = "evaluate" /\ job[p].at = Len(chain) + 1 /\ ClaimsSuccess(job[p].packet) =>
          BoundContractDigest(chain) # None
    /\ pc[p] = "ciCapture" =>
          /\ job[p].packet.head = job[p].seen.head
          /\ job[p].at = Len(chain) + 1 =>
                /\ OpenIn(chain, job[p].packet.from)
                /\ Packeted(chain, job[p].packet.from, job[p].packet.head)
    /\ pc[p] = "append" =>
          /\ \A i \in 1..Len(job[p].want) : Filed(job[p].want[i])
          /\ job[p].at = Len(chain) + 1 => Backed(chain, job[p].want[1])
          /\ \A i \in 2..Len(job[p].want) :
                /\ PilotEvidence(job[p].want[i])
                /\ Pairs(job[p].want[i - 1], job[p].want[i])
                /\ ~Applied(job[p].want[i]) /\ job[p].want[i].outcome = None

BoundInv ==
    /\ LegalInv
    /\ AllBacked(chain)
    /\ \A p \in Procs : JobBacked(p)

-----------------------------------------------------------------------------
(* What a decision rests on does not depend on findings.                   *)

\* q and r are alike in all but their findings.
SameBut(q, r) ==
    /\ q.kind = r.kind /\ q.control = r.control /\ q.stage = r.stage
    /\ q.unit = r.unit /\ q.outcome = r.outcome /\ q.approval = r.approval
    /\ q.evidence = r.evidence /\ q.resolution = r.resolution
    /\ q.criteria = r.criteria

Alike(c, d) == Len(c) = Len(d) /\ \A i \in 1..Len(c) : SameBut(c[i], d[i])

\* The latest contract accepted.
LEMMA AlikeContract ==
    ASSUME NEW c, NEW d, Alike(c, d), Len(c) \in Nat
    PROVE  BoundContractDigest(c) = BoundContractDigest(d)
<1> DEFINE I == {i \in 1..Len(c) : AcceptsContract(c[i])}
<1>1. I = {i \in 1..Len(d) : AcceptsContract(d[i])}
  BY DEF Alike, SameBut, AcceptsContract, ApprovedMove
<1>2. /\ SelectLastInSeq(c, AcceptsContract) = IF I # {} THEN Max(I) ELSE 0
      /\ SelectLastInSeq(d, AcceptsContract) = IF I # {} THEN Max(I) ELSE 0
  BY <1>1 DEF SelectLastInSeq
<1>3. I # {} => Max(I) \in 1..Len(c)
  <2>1. I \subseteq 1..Len(c)
    OBVIOUS
  <2> HIDE DEF I
  <2> QED BY <2>1, MaxOf
<1> HIDE DEF I
<1> QED BY <1>2, <1>3 DEF BoundContractDigest, Alike, SameBut

\* The latest criteria.
LEMMA AlikeCriteria ==
    ASSUME NEW c, NEW d, Alike(c, d), Len(c) \in Nat
    PROVE  Criteria(c) = Criteria(d)
<1> DEFINE I == {i \in 1..Len(c) : c[i].criteria # NoMap}
<1>1. I = {i \in 1..Len(d) : d[i].criteria # NoMap}
  BY DEF Alike, SameBut
<1>2. /\ SelectLastInSeq(c, LAMBDA r : r.criteria # NoMap) = IF I # {} THEN Max(I) ELSE 0
      /\ SelectLastInSeq(d, LAMBDA r : r.criteria # NoMap) = IF I # {} THEN Max(I) ELSE 0
  BY <1>1 DEF SelectLastInSeq
<1>3. I # {} => Max(I) \in 1..Len(c)
  <2>1. I \subseteq 1..Len(c)
    OBVIOUS
  <2> HIDE DEF I
  <2> QED BY <2>1, MaxOf
<1> HIDE DEF I
<1> QED BY <1>2, <1>3 DEF Criteria, Alike, SameBut

\* The failures the units are classified with.
LEMMA AlikeFailure ==
    ASSUME NEW c, NEW d, Alike(c, d), DOMAIN c = 1..Len(c), DOMAIN d = 1..Len(d)
    PROVE  FailureOutcome(c) = FailureOutcome(d)
<1>1. LiveFailures(c) = LiveFailures(d)
  <2> DEFINE J == {j \in 1..Len(c) :
                     /\ c[j].kind = "classification"
                     /\ \A k \in (j + 1)..Len(c) : ~Supersedes(c[k], c[j].unit)}
  <2> DEFINE K == {j \in 1..Len(d) :
                     /\ d[j].kind = "classification"
                     /\ \A k \in (j + 1)..Len(d) : ~Supersedes(d[k], d[j].unit)}
  <2>1. J = K
    BY DEF Alike, SameBut, Supersedes
  <2>2. \A j \in J : c[j].approval.outcome = d[j].approval.outcome
    BY DEF Alike, SameBut
  <2> HIDE DEF J, K
  <2>3. {c[i].approval.outcome : i \in J} = {d[i].approval.outcome : i \in K}
    BY <2>1, <2>2
  <2> QED BY <2>3 DEF LiveFailures, J, K
<1> QED BY <1>1 DEF FailureOutcome, SelectInSeq

\* So what backs a record in one of two such chains backs it in the other.
LEMMA AlikeBacked ==
    ASSUME NEW c, NEW d, Alike(c, d), DOMAIN c = 1..Len(c), DOMAIN d = 1..Len(d),
           Len(c) \in Nat, NEW r, Backed(c, r)
    PROVE  Backed(d, r)
<1>1. CurrentStage(c) = CurrentStage(d)
  <2>1. SameControl(c, d)
    BY DEF Alike, SameBut, SameControl
  <2> QED BY <2>1, SameStage
<1>2. EvidenceBacked(d, r)
  <2>1. Evidence(c) = Evidence(d)
    BY DEF Evidence, Alike, SameBut
  <2> QED BY <2>1 DEF Backed, EvidenceBacked, EvidenceSatisfied
<1>3. PilotBacked(d, r)
  BY DEF Backed, PilotBacked, Pairs, Alike, SameBut
<1>4. CIBacked(d, r)
  <2>1. Packeted(c, r.stage, r.evidence.head) => Packeted(d, r.stage, r.evidence.head)
    BY DEF Packeted, ApprovedMove, Alike, SameBut
  <2>2. OpenIn(c, r.stage) => OpenIn(d, r.stage)
    BY <1>1 DEF OpenIn, Alike, SameBut
  <2> QED BY <2>1, <2>2 DEF Backed, CIBacked
<1>5. ContractBacked(d, r)
  BY AlikeContract, AlikeCriteria DEF Backed, ContractBacked
<1>6. OutcomeBacked(d, r)
  BY AlikeContract, AlikeCriteria, AlikeFailure DEF Backed, OutcomeBacked
<1> QED BY <1>2, <1>3, <1>4, <1>5, <1>6 DEF Backed

\* The records of two alike chains before the i-th.
LEMMA AlikeBefore ==
    ASSUME NEW c, IsChain(c), NEW d, IsChain(d), NEW i \in 1..(Len(c) + 1), i <= Len(d) + 1,
           \A j \in 1..(i - 1) : SameBut(c[j], d[j])
    PROVE  /\ Alike(Before(c, i), Before(d, i))
           /\ DOMAIN Before(c, i) = 1..Len(Before(c, i))
           /\ DOMAIN Before(d, i) = 1..Len(Before(d, i))
           /\ Len(Before(c, i)) \in Nat
<1>1. Len(c) \in Nat /\ Len(d) \in Nat /\ i \in 1..(Len(d) + 1)
  BY DEF IsChain
<1>2. Len(Before(c, i)) = i - 1 /\ \A j \in 1..(i - 1) : Before(c, i)[j] = c[j]
  BY BeforeRecord
<1>3. Len(Before(d, i)) = i - 1 /\ \A j \in 1..(i - 1) : Before(d, i)[j] = d[j]
  BY <1>1, BeforeRecord
<1>4. DOMAIN Before(c, i) = 1..(i - 1) /\ DOMAIN Before(d, i) = 1..(i - 1)
  BY <1>1 DEF Before
<1> QED BY <1>1, <1>2, <1>3, <1>4 DEF Alike

\* The records before the next one are all there are.
LEMMA BeforeNext ==
    ASSUME NEW c, IsChain(c)
    PROVE  /\ Alike(c, Before(c, Len(c) + 1))
           /\ DOMAIN Before(c, Len(c) + 1) = 1..Len(Before(c, Len(c) + 1))
           /\ DOMAIN c = 1..Len(c) /\ Len(c) \in Nat
<1>1. DOMAIN c = 1..Len(c) /\ Len(c) \in Nat
  BY DEF IsChain
<1> DEFINE i == Len(c) + 1
<1>2. i \in 1..(Len(c) + 1) /\ i - 1 = Len(c)
  BY <1>1
<1>3. Len(Before(c, i)) = i - 1 /\ \A j \in 1..(i - 1) : Before(c, i)[j] = c[j]
  BY <1>2, BeforeRecord
<1>4. DOMAIN Before(c, i) = 1..(i - 1)
  BY <1>1 DEF Before
<1> QED BY <1>1, <1>2, <1>3, <1>4 DEF Alike, SameBut

\* A record that rests on nothing may follow any chain.
LEMMA PlainBacked ==
    ASSUME NEW c, NEW r, Plain(r)
    PROVE  Backed(c, r)
<1>1. None \notin FailureOutcomes /\ None # "PARTIAL"
  BY NoneAssumption DEF Outcomes, stoppingOutcomes
<1> QED BY <1>1 DEF Plain, Backed, EvidenceBacked, PilotBacked, CIBacked, ContractBacked,
                    OutcomeBacked

\* A chain that continues one in which every record is backed, its findings
\* apart, with records that are backed, is such a chain.
LEMMA ContinuedBacked ==
    ASSUME NEW c, IsChain(c), AllBacked(c), NEW d, IsChain(d), Len(d) >= Len(c),
           \A i \in 1..Len(c) : SameBut(c[i], d[i]),
           \A i \in (Len(c) + 1)..Len(d) :
               /\ Filed(d[i])
               /\ Plain(d[i]) \/ (i = Len(c) + 1 /\ Backed(c, d[i]))
    PROVE  AllBacked(d)
<1>1. Len(c) \in Nat /\ Len(d) \in Nat
  BY DEF IsChain
<1> SUFFICES ASSUME NEW i \in 1..Len(d)
             PROVE  Filed(d[i]) /\ Backed(Before(d, i), d[i])
  BY DEF AllBacked
<1>2. CASE i <= Len(c)
  <2>1. /\ i \in 1..Len(c) /\ i \in 1..(Len(c) + 1) /\ i <= Len(d) + 1
        /\ SameBut(c[i], d[i]) /\ \A j \in 1..(i - 1) : SameBut(c[j], d[j])
    BY <1>1, <1>2
  <2>2. Filed(c[i]) /\ Backed(Before(c, i), c[i])
    BY <2>1 DEF AllBacked
  <2>3. Backed(Before(d, i), c[i])
    BY <2>1, <2>2, AlikeBefore, AlikeBacked
  <2>4. Backed(Before(d, i), d[i])
    BY <2>1, <2>3 DEF Backed, SameBut, EvidenceBacked, PilotBacked, CIBacked, ContractBacked,
       OutcomeBacked, Applied, Pairs, PilotEvidence, CIEvidence
  <2> QED BY <2>1, <2>2, <2>4 DEF Filed, SameBut
<1>3. CASE i > Len(c) /\ Plain(d[i])
  BY <1>1, <1>3, PlainBacked
<1>4. CASE i > Len(c) /\ ~Plain(d[i])
  <2>1. i = Len(c) + 1 /\ Backed(c, d[i]) /\ Filed(d[i])
    BY <1>1, <1>4
  <2>2. /\ i \in 1..(Len(c) + 1) /\ i <= Len(d) + 1
        /\ \A j \in 1..(i - 1) : SameBut(c[j], d[j])
    BY <1>1, <2>1
  <2>3. Backed(Before(c, i), d[i])
    BY <2>1, BeforeNext, AlikeBacked
  <2> QED BY <2>1, <2>2, <2>3, AlikeBefore, AlikeBacked
<1> QED BY <1>1, <1>2, <1>3, <1>4

-----------------------------------------------------------------------------
(* What the evaluators admit is backed.                                    *)

\* A record that carries no criteria leaves them as they were.
LEMMA CriteriaKept ==
    ASSUME NEW c, IsChain(c), NEW i \in 1..Len(c), c[i].criteria = NoMap
    PROVE  Criteria(SubSeq(c, 1, i)) = Criteria(Before(c, i))
<1> DEFINE d == SubSeq(c, 1, i)
           b == Before(c, i)
           I == {k \in 1..Len(b) : b[k].criteria # NoMap}
<1>1. Len(c) \in Nat
  BY DEF IsChain
<1>2. Len(b) = i - 1 /\ \A k \in 1..(i - 1) : b[k] = c[k]
  BY <1>1, BeforeRecord
<1>3. Len(d) = i /\ \A k \in 1..i : d[k] = c[k]
  <2> DEFINE m == i + 1
  <2>1. m \in 1..(Len(c) + 1) /\ m - 1 = i
    BY <1>1
  <2>2. Len(Before(c, m)) = m - 1 /\ \A k \in 1..(m - 1) : Before(c, m)[k] = c[k]
    BY <2>1, BeforeRecord
  <2> HIDE DEF m
  <2> QED BY <2>1, <2>2 DEF Before
<1>4. I = {k \in 1..Len(d) : d[k].criteria # NoMap}
  BY <1>2, <1>3
<1>5. I # {} => Max(I) \in 1..(i - 1)
  <2>1. I \subseteq 1..(i - 1) /\ i - 1 \in Nat
    BY <1>2
  <2> HIDE DEF I
  <2> QED BY <2>1, MaxOf
<1> HIDE DEF d, b
<1>6. /\ SelectLastInSeq(b, LAMBDA r : r.criteria # NoMap) = IF I # {} THEN Max(I) ELSE 0
      /\ SelectLastInSeq(d, LAMBDA r : r.criteria # NoMap) = IF I # {} THEN Max(I) ELSE 0
  BY <1>4 DEF SelectLastInSeq
<1> HIDE DEF I
<1>7. I # {} => b[Max(I)] = d[Max(I)]
  BY <1>2, <1>3, <1>5
<1> QED BY <1>6, <1>7 DEF Criteria, d, b

\* The accepted contract names the criteria there were when it was accepted.
LEMMA BoundCriteria ==
    ASSUME NEW c, IsChain(c), AllBacked(c), BoundContractDigest(c) # None
    PROVE  /\ DOMAIN AcceptedCriteria(c) = CriteriaOf[BoundContractDigest(c)]
           /\ usedContract(c)
<1> DEFINE I == {i \in 1..Len(c) : AcceptsContract(c[i])}
           i == Max(I)
<1>1. SelectLastInSeq(c, AcceptsContract) = IF I # {} THEN Max(I) ELSE 0
  BY DEF SelectLastInSeq
<1>2. Len(c) \in Nat /\ DOMAIN c = 1..Len(c)
  BY DEF IsChain
<1>3. I # {}
  BY <1>1 DEF BoundContractDigest
<1>4. i \in 1..Len(c) /\ AcceptsContract(c[i])
  <2>1. I \subseteq 1..Len(c)
    OBVIOUS
  <2>2. Max(I) \in I
    <3> HIDE DEF I
    <3> QED BY <1>2, <1>3, <2>1, MaxOf
  <2> QED BY <2>2
<1>5. BoundContractDigest(c) = c[i].approval.contract
  BY <1>1, <1>3, <1>4 DEF BoundContractDigest
<1>6. AcceptedCriteria(c) = Criteria(SubSeq(c, 1, i))
  BY <1>1, <1>3, <1>4 DEF AcceptedCriteria
<1> HIDE DEF I, i
<1>7. Filed(c[i]) /\ ContractBacked(Before(c, i), c[i])
  BY <1>4 DEF AllBacked, Backed
<1>8. /\ Applied(c[i]) /\ c[i].kind = "stage_transition" /\ c[i].approval # None
  BY <1>4 DEF AcceptsContract, ApprovedMove, Applied
<1>9. Criteria(SubSeq(c, 1, i)) = Criteria(Before(c, i))
  BY <1>4, <1>7, <1>8, CriteriaKept DEF Filed
<1>10. DOMAIN Criteria(Before(c, i)) = CriteriaOf[BoundContractDigest(c)]
  BY <1>5, <1>7, <1>8 DEF ContractBacked
<1>11. usedContract(c)
  BY <1>2, <1>4, <1>5, <1>8 DEF usedContract
<1> QED BY <1>6, <1>9, <1>10, <1>11

\* What a transition admits on a chain is backed by it.
LEMMA AdmittedBacked ==
    ASSUME NEW c, IsChain(c), AllBacked(c), NEW a, NEW at, NEW wt, NEW doc,
           AdmitsTransition(c, a, at, wt), AdmitsContract(c, a, doc),
           ClaimsSuccess(a) => BoundContractDigest(c) # None
    PROVE  Filed(AppliedRecord(c, a)) /\ Backed(c, AppliedRecord(c, a))
<1> DEFINE r == AppliedRecord(c, a)
<1>1. /\ r.approval = a /\ r.resolution = None
      /\ r.kind \in {"classification", "outcome", "stage_transition"}
      /\ r.kind = "classification" => a.outcome \in FailureOutcomes
      /\ r.kind = "stage_transition" => r.criteria = NoMap
      /\ \/ r.outcome = None
         \/ /\ r.outcome = a.outcome
            /\ a.outcome # None => r.criteria = Criteria(c)
            /\ a.outcome \in FailureOutcomes => FailureOutcome(c) = a.outcome
            /\ a.outcome = "PARTIAL" => FailureOutcome(c) = None
  <2>1. CASE a.class
    BY <2>1 DEF AppliedRecord, Blank, AdmitsTransition, OutcomeSupported
  <2>2. CASE ~a.class
    BY <2>2 DEF AppliedRecord, Blank, AdmitsTransition, OutcomeSupported
  <2> QED BY <2>1, <2>2
<1> HIDE DEF r
<1>2. None \notin FailureOutcomes /\ None # "PARTIAL"
  BY NoneAssumption DEF Outcomes, stoppingOutcomes
<1>3. Filed(r)
  BY <1>1 DEF Filed
<1>4. EvidenceBacked(c, r)
  BY <1>1 DEF EvidenceBacked, AdmitsTransition
<1>5. PilotBacked(c, r) /\ CIBacked(c, r)
  BY <1>1 DEF PilotBacked, CIBacked, PilotEvidence, CIEvidence
<1>6. ContractBacked(c, r)
  BY <1>1, BoundCriteria DEF ContractBacked, AdmitsContract
<1>7. OutcomeBacked(c, r)
  BY <1>1, <1>2 DEF OutcomeBacked, ClaimsSuccess
<1> QED BY <1>3, <1>4, <1>5, <1>6, <1>7 DEF Backed, r

\* The packet CI verifies was presented since the run entered its stage.
LEMMA CIAdmitted ==
    ASSUME NEW c, IsChain(c), OutcomesEnd(c), AdmitsCI(c)
    PROVE  LET a == c[CIPacketAt(c)].approval
           IN  OpenIn(c, a.from) /\ Packeted(c, a.from, a.head)
<1> DEFINE s == CurrentStage(c)
           I == {i \in 1..Len(c) : c[i].approval # None /\ c[i].approval.from = s}
           E == {i \in 1..Len(c) : ApprovedMove(c[i]) /\ c[i].approval.to = s}
           n == CIPacketAt(c)
<1>1. /\ SelectLastInSeq(c, LAMBDA r : r.approval # None /\ r.approval.from = s)
             = IF I # {} THEN Max(I) ELSE 0
      /\ SelectLastInSeq(c, LAMBDA r : ApprovedMove(r) /\ r.approval.to = s)
             = IF E # {} THEN Max(E) ELSE 0
  BY DEF SelectLastInSeq
<1>2. Len(c) \in Nat /\ DOMAIN c = 1..Len(c)
  BY DEF IsChain
<1>3. /\ I # {} => Max(I) \in I
      /\ E # {} => Max(E) \in E /\ \A k \in E : Max(E) >= k
  <2>1. I \subseteq 1..Len(c) /\ E \subseteq 1..Len(c)
    OBVIOUS
  <2> HIDE DEF I, E
  <2> QED BY <1>2, <2>1, MaxOf
<1>4. EnteredAt(c) = IF E # {} THEN Max(E) ELSE 0
  BY <1>1 DEF EnteredAt
<1>5. n = IF (IF I # {} THEN Max(I) ELSE 0) > EnteredAt(c)
          THEN (IF I # {} THEN Max(I) ELSE 0) ELSE 0
  BY <1>1 DEF CIPacketAt
<1>6. n # 0 /\ \A j \in 1..Len(c) : c[j].outcome = None
  BY <1>2 DEF AdmitsCI, Terminal, OutcomesEnd
<1>7. n \in I /\ n > EnteredAt(c)
  <2> HIDE DEF I, E, n
  <2> QED BY <1>3, <1>5, <1>6
<1>8. \A k \in n..Len(c) : k \notin E
  <2> SUFFICES ASSUME NEW k \in n..Len(c), k \in E PROVE FALSE
    OBVIOUS
  <2>1. Max(E) >= k /\ Max(E) \in E
    BY <1>3
  <2>2. n > Max(E) /\ n \in Nat
    BY <1>4, <1>7
  <2>3. Max(E) \in Nat
    BY <2>1
  <2> HIDE DEF E, n
  <2> QED BY <2>1, <2>2, <2>3
<1>9. n \in 1..Len(c) /\ c[n].approval # None /\ c[n].approval.from = s
  BY <1>7
<1>10. \A k \in n..Len(c) : ApprovedMove(c[k]) => c[k].approval.to # s
  <2>1. \A k \in n..Len(c) : k \in 1..Len(c)
    BY <1>2, <1>9
  <2> QED BY <1>8, <2>1
<1> HIDE DEF n, I, E
<1>11. Packeted(c, s, c[n].approval.head)
  BY <1>9, <1>10 DEF Packeted
<1> QED BY <1>6, <1>9, <1>11 DEF OpenIn, n

-----------------------------------------------------------------------------
(* Steps that append nothing.                                              *)

\* A step of one command that appends nothing.
LEMMA JobStepBacked ==
    ASSUME BoundInv, LegalInv', NEW p \in Procs, chain' = chain,
           \A q \in Procs \ {p} : pc'[q] = pc[q] /\ job'[q] = job[q],
           JobBacked(p)'
    PROVE  BoundInv'
<1>1. ASSUME NEW q \in Procs PROVE JobBacked(q)'
  <2>1. CASE q = p
    BY <2>1
  <2>2. CASE q # p
    <3>1. JobBacked(q) /\ pc'[q] = pc[q] /\ job'[q] = job[q]
      BY <2>2 DEF BoundInv
    <3> QED BY <3>1 DEF JobBacked
  <2> QED BY <2>1, <2>2
<1> QED BY <1>1 DEF BoundInv

\* One that leaves its command where nothing is held for it.
LEMMA IdleBacked ==
    ASSUME BoundInv, LegalInv', NEW p \in Procs, NEW l, l \in {"idle", "gate"}, Goto(p, l),
           chain' = chain, \A q \in Procs \ {p} : job'[q] = job[q]
    PROVE  BoundInv'
<1>1. DOMAIN pc = Procs
  BY DEF BoundInv, LegalInv, IInv
<1>2. JobBacked(p)' /\ \A q \in Procs \ {p} : pc'[q] = pc[q]
  BY <1>1 DEF Goto, JobBacked
<1> QED BY <1>2, JobStepBacked

\* One that decides to append rs.
LEMMA DecideBacked ==
    ASSUME BoundInv, LegalInv', NEW p \in Procs, Goto(p, "append"),
           chain' = chain, \A q \in Procs \ {p} : job'[q] = job[q],
           NEW rs, job'[p].want = rs,
           \A i \in 1..Len(rs) : Filed(rs[i]),
           job'[p].at = Len(chain) + 1 => Backed(chain, rs[1]),
           \A i \in 2..Len(rs) :
               /\ PilotEvidence(rs[i])
               /\ Pairs(rs[i - 1], rs[i])
               /\ ~Applied(rs[i]) /\ rs[i].outcome = None
    PROVE  BoundInv'
<1>1. DOMAIN pc = Procs
  BY DEF BoundInv, LegalInv, IInv
<1>2. pc'[p] = "append" /\ \A q \in Procs \ {p} : pc'[q] = pc[q]
  BY <1>1 DEF Goto
<1>3. JobBacked(p)'
  BY <1>2 DEF JobBacked
<1> QED BY <1>2, <1>3, JobStepBacked

\* One that decides to append the one record r to the chain as it is.
LEMMA IntendBacked ==
    ASSUME BoundInv, LegalInv', NEW p \in Procs, NEW r, Intend(p, <<r>>),
           chain' = chain, Filed(r), Backed(chain, r)
    PROVE  BoundInv'
<1>1. DOMAIN job = Procs /\ JobOK(p)
  BY DEF BoundInv, LegalInv, IInv
<1>2. job' = [job EXCEPT ![p].at = Len(chain) + 1, ![p].want = <<r>>]
      /\ Goto(p, "append")
  BY DEF Intend
<1>3. job'[p].want = <<r>> /\ \A q \in Procs \ {p} : job'[q] = job[q]
  BY <1>1, <1>2 DEF JobOK
<1>4. /\ \A i \in 1..Len(<<r>>) : Filed(<<r>>[i])
      /\ Backed(chain, <<r>>[1])
      /\ 2..Len(<<r>>) = {}
  OBVIOUS
<1> QED BY <1>2, <1>3, <1>4, DecideBacked

\* hma transition, up to its append.
LEMMA TransitionBacked ==
    ASSUME BoundInv, LegalInv', NEW p \in Procs,
           TransitionBegin(p) \/ TransitionGate(p) \/ TransitionEvaluate(p)
    PROVE  BoundInv'
<1>0. DOMAIN pc = Procs /\ DOMAIN job = Procs /\ JobOK(p) /\ JobBacked(p)
  BY DEF BoundInv, LegalInv, IInv
<1>1. CASE TransitionBegin(p)
  <2>1. Goto(p, "gate") /\ chain' = chain /\ \A q \in Procs \ {p} : job'[q] = job[q]
    BY <1>0, <1>1 DEF TransitionBegin, Present
  <2> QED BY <2>1, IdleBacked
<1>2. CASE TransitionGate(p)
  <2>1. /\ chain' = chain /\ job' = job /\ Goto(p, "evaluate")
        /\ ClaimsSuccess(job[p].packet) => BoundContractDigest(chain) # None
    BY <1>2 DEF TransitionGate, HostAdmits
  <2>2. pc'[p] = "evaluate" /\ \A q \in Procs \ {p} : pc'[q] = pc[q]
    BY <1>0, <2>1 DEF Goto
  <2>3. JobBacked(p)'
    BY <2>1, <2>2 DEF JobBacked
  <2> QED BY <2>1, <2>2, <2>3, JobStepBacked
<1>3. CASE TransitionEvaluate(p)
  <2> DEFINE a == job[p].packet
  <2>1. PICK doc \in Contracts \cup {None} : AdmitsContract(chain, a, doc)
    BY <1>3 DEF TransitionEvaluate
  <2>2. /\ AdmitsTransition(chain, a, job[p].at, job[p].seen.wt)
        /\ Intend(p, <<AppliedRecord(chain, a)>>) /\ chain' = chain
        /\ pc[p] = "evaluate"
    BY <1>3 DEF TransitionEvaluate
  <2>3. job[p].at = Len(chain) + 1
    BY <2>2 DEF AdmitsTransition, AdmitsApproval
  <2>4. ClaimsSuccess(a) => BoundContractDigest(chain) # None
    BY <1>0, <2>2, <2>3 DEF JobBacked
  <2>5. IsChain(chain) /\ AllBacked(chain)
    BY DEF BoundInv, LegalInv, IInv
  <2> HIDE DEF a
  <2>6. Filed(AppliedRecord(chain, a)) /\ Backed(chain, AppliedRecord(chain, a))
    BY <2>1, <2>2, <2>4, <2>5, AdmittedBacked
  <2> QED BY <2>2, <2>6, IntendBacked
<1> QED BY <1>1, <1>2, <1>3

\* hma pilot: its evidence was taken at the revision its approval binds.
LEMMA PilotCommandBacked ==
    ASSUME BoundInv, LegalInv', NEW p \in Procs,
           PilotBegin(p) \/ PilotEvaluate(p) \/ PilotCapture(p)
    PROVE  BoundInv'
<1>0. DOMAIN pc = Procs /\ DOMAIN job = Procs /\ JobOK(p) /\ JobBacked(p)
  BY DEF BoundInv, LegalInv, IInv
<1>1. CASE PilotBegin(p)
  <2>1. PICK k \in Packets, n \in Nonces :
            job' = [job EXCEPT ![p] = [NoJob EXCEPT !.packet = Approval(k, n, repo),
                                                    !.at = Len(chain) + 1,
                                                    !.seen = repo]]
    BY <1>1 DEF PilotBegin, Present
  <2>2. Goto(p, "pilotLoad") /\ chain' = chain
    BY <1>1 DEF PilotBegin, Present
  <2>3. job'[p].packet.head \in {None, job'[p].seen.head}
    BY <1>0, <2>1 DEF NoJob, Approval
  <2>4. /\ pc'[p] = "pilotLoad"
        /\ \A q \in Procs \ {p} : pc'[q] = pc[q] /\ job'[q] = job[q]
    BY <1>0, <2>1, <2>2 DEF Goto
  <2>5. JobBacked(p)'
    BY <2>3, <2>4 DEF JobBacked
  <2> QED BY <2>2, <2>4, <2>5, JobStepBacked
<1>2. CASE PilotEvaluate(p)
  <2>1. Goto(p, "pilotCapture") /\ chain' = chain /\ job' = job /\ pc[p] = "pilotLoad"
    BY <1>2 DEF PilotEvaluate
  <2>2. pc'[p] = "pilotCapture" /\ \A q \in Procs \ {p} : pc'[q] = pc[q]
    BY <1>0, <2>1 DEF Goto
  <2>3. JobBacked(p)'
    BY <1>0, <2>1, <2>2 DEF JobBacked
  <2> QED BY <2>1, <2>2, <2>3, JobStepBacked
<1>3. CASE PilotCapture(p)
  <2>1. PICK d \in Digests :
            job' = [job EXCEPT ![p].want = PilotRecords(job[p].packet, d, repo)]
    BY <1>3 DEF PilotCapture
  <2>2. /\ Goto(p, "append") /\ chain' = chain /\ repo = job[p].seen
        /\ pc[p] = "pilotCapture"
    BY <1>3 DEF PilotCapture
  <2> DEFINE a == job[p].packet
             rs == PilotRecords(a, d, repo)
  <2>3. a.head \in {None, repo.head}
    BY <1>0, <2>2 DEF JobBacked
  <2>4. job'[p].want = rs /\ \A q \in Procs \ {p} : job'[q] = job[q]
    BY <1>0, <2>1 DEF JobOK
  <2> HIDE DEF a
  <2>5. Len(rs) = 2
    BY DEF PilotRecords
  <2>6. Filed(rs[1]) /\ Filed(rs[2])
    BY DEF PilotRecords, Filed, Blank
  <2>7. Plain(rs[1])
    BY DEF PilotRecords, Plain, Applied, PilotEvidence, CIEvidence, Blank
  <2>8. /\ PilotEvidence(rs[2]) /\ Pairs(rs[1], rs[2])
        /\ ~Applied(rs[2]) /\ rs[2].outcome = None
    BY <2>3 DEF PilotRecords, Pairs, Applied, PilotEvidence, Blank
  <2> HIDE DEF rs
  <2>9. \A i \in 1..Len(rs) : i = 1 \/ i = 2
    BY <2>5
  <2>10. \A i \in 1..Len(rs) : Filed(rs[i])
    BY <2>6, <2>9
  <2>11. \A i \in 2..Len(rs) :
            /\ PilotEvidence(rs[i])
            /\ Pairs(rs[i - 1], rs[i])
            /\ ~Applied(rs[i]) /\ rs[i].outcome = None
    <3> TAKE i \in 2..Len(rs)
    <3>1. i = 2 /\ i - 1 = 1
      BY <2>5
    <3> QED BY <2>8, <3>1
  <2>12. Backed(chain, rs[1])
    BY <2>7, PlainBacked
  <2> QED BY <2>2, <2>4, <2>10, <2>11, <2>12, DecideBacked
<1> QED BY <1>1, <1>2, <1>3

\* hma ci github: its evidence was taken at the head of the packet it verified.
LEMMA CICommandBacked ==
    ASSUME BoundInv, LegalInv', NEW p \in Procs, CIBegin(p) \/ CICapture(p)
    PROVE  BoundInv'
<1>0. DOMAIN pc = Procs /\ DOMAIN job = Procs /\ JobOK(p) /\ JobBacked(p)
  BY DEF BoundInv, LegalInv, IInv
<1>1. CASE CIBegin(p)
  <2> DEFINE a == chain[CIPacketAt(chain)].approval
  <2>1. /\ AdmitsCI(chain) /\ repo.head = a.head /\ chain' = chain /\ Goto(p, "ciCapture")
        /\ job' = [job EXCEPT ![p] = [NoJob EXCEPT !.packet = a, !.at = Len(chain) + 1,
                                                   !.seen = repo]]
    BY <1>1 DEF CIBegin
  <2>2. OpenIn(chain, a.from) /\ Packeted(chain, a.from, a.head)
    BY <2>1, CIAdmitted DEF BoundInv, LegalInv, IInv
  <2> HIDE DEF a
  <2>3. job'[p].packet = a /\ job'[p].seen = repo
    BY <1>0, <2>1 DEF NoJob
  <2>4. /\ pc'[p] = "ciCapture"
        /\ \A q \in Procs \ {p} : pc'[q] = pc[q] /\ job'[q] = job[q]
    BY <1>0, <2>1 DEF Goto
  <2>5. JobBacked(p)'
    BY <2>1, <2>2, <2>3, <2>4 DEF JobBacked
  <2> QED BY <2>1, <2>4, <2>5, JobStepBacked
<1>2. CASE CICapture(p)
  <2> DEFINE a == job[p].packet
  <2>1. PICK d \in Digests :
            job' = [job EXCEPT ![p].want =
              <<[Blank EXCEPT !.kind = "evidence", !.stage = a.from,
                    !.evidence = [digest |-> d, base |-> a.base, head |-> repo.head]]>>]
    BY <1>2 DEF CICapture
  <2> DEFINE r == [Blank EXCEPT !.kind = "evidence", !.stage = a.from,
                      !.evidence = [digest |-> d, base |-> a.base, head |-> repo.head]]
  <2>2. /\ Goto(p, "append") /\ chain' = chain /\ repo = job[p].seen
        /\ pc[p] = "ciCapture"
    BY <1>2 DEF CICapture
  <2>3. /\ a.head = repo.head
        /\ job[p].at = Len(chain) + 1 =>
              OpenIn(chain, a.from) /\ Packeted(chain, a.from, a.head)
    BY <1>0, <2>2 DEF JobBacked
  <2>4. /\ job'[p].want = <<r>> /\ job'[p].at = job[p].at
        /\ \A q \in Procs \ {p} : job'[q] = job[q]
    BY <1>0, <2>1 DEF JobOK
  <2> HIDE DEF a
  <2>5. Filed(r)
    BY DEF Filed, Blank
  <2>6. /\ r.approval = None /\ r.outcome = None /\ r.control = None
        /\ r.stage = a.from /\ r.evidence.head = repo.head
    BY DEF Blank
  <2> HIDE DEF r
  <2>7. job[p].at = Len(chain) + 1 => Backed(chain, r)
    <3>1. None \notin FailureOutcomes /\ None # "PARTIAL" /\ None # "READY_FOR_REVIEW"
      BY NoneAssumption DEF Outcomes, stoppingOutcomes
    <3>2. EvidenceBacked(chain, r) /\ PilotBacked(chain, r) /\ ContractBacked(chain, r)
          /\ OutcomeBacked(chain, r)
      BY <2>6, <3>1 DEF EvidenceBacked, PilotBacked, ContractBacked, OutcomeBacked, Applied,
         PilotEvidence
    <3>3. job[p].at = Len(chain) + 1 => CIBacked(chain, r)
      BY <2>3, <2>6 DEF CIBacked
    <3> QED BY <3>2, <3>3 DEF Backed
  <2>8. /\ \A i \in 1..Len(<<r>>) : Filed(<<r>>[i])
        /\ <<r>>[1] = r
        /\ 2..Len(<<r>>) = {}
    BY <2>5
  <2> QED BY <2>2, <2>4, <2>7, <2>8, DecideBacked
<1> QED BY <1>1, <1>2

\* hma resolve, hmarun's criterion baseline, and hma host findings-import.
LEMMA PlainCommandBacked ==
    ASSUME BoundInv, LegalInv', NEW p \in Procs,
           Resolve(p) \/ CriteriaBaseline(p) \/ FindingsImport(p)
    PROVE  BoundInv'
<1>1. PICK r : Intend(p, <<r>>) /\ Plain(r) /\ Filed(r)
  <2>1. CASE Resolve(p)
    <3>1. PICK o \in Operations, n \in Nonces :
              Intend(p, <<ResolutionRecord(Resolution(o, n))>>)
      BY <2>1 DEF Resolve
    <3> DEFINE s == Resolution(o, n)
               r == ResolutionRecord(s)
    <3>2. s # None
      BY NoneAssumption
    <3> HIDE DEF s
    <3>3. Plain(r) /\ Filed(r)
      BY <3>2 DEF ResolutionRecord, Blank, Plain, Filed, Applied, PilotEvidence, CIEvidence
    <3> QED BY <3>1, <3>3 DEF s
  <2>2. CASE CriteriaBaseline(p)
    <3>1. PICK k \in Contracts :
            Intend(p, <<[Blank EXCEPT !.kind = "criterion", !.stage = "ACCEPTANCE_CRITERIA",
                            !.criteria = [c \in CriteriaOf[k] |-> "PENDING"]]>>)
      BY <2>2 DEF CriteriaBaseline
    <3> DEFINE r == [Blank EXCEPT !.kind = "criterion", !.stage = "ACCEPTANCE_CRITERIA",
                        !.criteria = [c \in CriteriaOf[k] |-> "PENDING"]]
    <3>2. Intend(p, <<r>>) /\ Plain(r) /\ Filed(r)
      BY <3>1 DEF Blank, Plain, Filed, Applied, PilotEvidence, CIEvidence
    <3> QED BY <3>2
  <2>3. CASE FindingsImport(p)
    <3>1. PICK rep \in Reports : Intend(p, <<SnapshotRecord(chain, rep)>>)
      BY <2>3 DEF FindingsImport
    <3> DEFINE r == SnapshotRecord(chain, rep)
    <3>2. Plain(r) /\ Filed(r)
      BY DEF SnapshotRecord, Blank, Plain, Filed, Applied, PilotEvidence, CIEvidence
    <3> QED BY <3>1, <3>2
  <2> QED BY <2>1, <2>2, <2>3
<1>2. chain' = chain
  BY DEF Resolve, CriteriaBaseline, FindingsImport
<1> QED BY <1>1, <1>2, PlainBacked, IntendBacked

-----------------------------------------------------------------------------
(* Steps that append.                                                      *)

\* A command left behind by a longer chain relies on it no more.
LEMMA LeftBehindBacked ==
    ASSUME BoundInv, NEW q \in Procs, pc'[q] = pc[q], job'[q] = job[q],
           Len(chain) \in Nat, Len(chain') \in Nat, Len(chain') > Len(chain)
    PROVE  JobBacked(q)'
<1>1. JobBacked(q) /\ job[q].at \in Nat /\ job[q].at <= Len(chain) + 1
  BY DEF BoundInv, LegalInv, IInv, JobOK
<1>2. job'[q].at # Len(chain') + 1
  BY <1>1
<1> QED BY <1>1, <1>2 DEF JobBacked

\* A pilot's evidence is backed by the approval just before it.
LEMMA PairedBacked ==
    ASSUME NEW c, Len(c) \in Nat, Len(c) >= 1, NEW r, PilotEvidence(r), Pairs(c[Len(c)], r),
           ~Applied(r), r.outcome = None
    PROVE  Backed(c, r)
<1>1. /\ None \notin FailureOutcomes /\ None # "PARTIAL" /\ None # "READY_FOR_REVIEW"
  BY NoneAssumption DEF Outcomes, stoppingOutcomes
<1> QED BY <1>1 DEF Backed, EvidenceBacked, PilotBacked, CIBacked, ContractBacked,
                    OutcomeBacked, PilotEvidence, CIEvidence

\* Store.Append: the record lands on the chain that backs it.
LEMMA AppendNextBacked ==
    ASSUME BoundInv, LegalInv', NEW p \in Procs, AppendNext(p)
    PROVE  BoundInv'
<1> DEFINE rs == job[p].want
           r == Head(rs)
           d == Append(chain, r)
<1>1. /\ IsChain(chain) /\ AllBacked(chain)
      /\ DOMAIN pc = Procs /\ DOMAIN job = Procs /\ JobOK(p) /\ JobBacked(p)
      /\ pc[p] = "append" /\ job[p].at = Len(chain) + 1
      /\ chain' = d
  BY DEF BoundInv, LegalInv, IInv, AppendNext, ExtendsChain
<1>2. /\ IsChain(rs) /\ Len(rs) >= 1
      /\ \A i \in 1..Len(rs) : Filed(rs[i])
      /\ Backed(chain, rs[1])
      /\ \A i \in 2..Len(rs) :
            /\ PilotEvidence(rs[i])
            /\ Pairs(rs[i - 1], rs[i])
            /\ ~Applied(rs[i]) /\ rs[i].outcome = None
  BY <1>1 DEF JobOK, JobBacked
<1>3. Len(rs) \in Nat /\ DOMAIN rs = 1..Len(rs) /\ r = rs[1]
  BY <1>2 DEF IsChain
<1>4. Backed(chain, r) /\ Filed(r)
  BY <1>2, <1>3
<1>5. /\ Len(chain) \in Nat /\ Len(d) = Len(chain) + 1
      /\ d[Len(chain) + 1] = r
      /\ \A i \in 1..Len(chain) : d[i] = chain[i]
  <2> DEFINE S == {chain[i] : i \in DOMAIN chain} \cup {r}
  <2>1. chain \in Seq(S) /\ r \in S
    BY <1>1 DEF IsChain
  <2> HIDE DEF S, r
  <2> QED BY <2>1
<1>6. IsChain(chain')
  BY DEF LegalInv, IInv
<1> HIDE DEF rs, r, d
<1>7. AllBacked(d)
  <2>1. IsChain(d) /\ Len(d) >= Len(chain)
    BY <1>1, <1>5, <1>6
  <2>2. \A i \in (Len(chain) + 1)..Len(d) :
            /\ Filed(d[i])
            /\ Plain(d[i]) \/ (i = Len(chain) + 1 /\ Backed(chain, d[i]))
    BY <1>4, <1>5
  <2>3. \A i \in 1..Len(chain) : SameBut(chain[i], d[i])
    BY <1>5 DEF SameBut
  <2> QED BY <1>1, <2>1, <2>2, <2>3, ContinuedBacked
<1>8. \A q \in Procs \ {p} : pc'[q] = pc[q] /\ job'[q] = job[q]
  BY <1>1 DEF AppendNext, Finish, Goto
<1>9. \A q \in Procs \ {p} : JobBacked(q)'
  BY <1>1, <1>5, <1>8, LeftBehindBacked
<1>10. JobBacked(p)'
  <2>1. CASE Len(rs) > 1
    <3>1. /\ job' = [job EXCEPT ![p].want = Tail(rs), ![p].at = job[p].at + 1]
          /\ pc' = pc
      BY <1>1, <2>1 DEF AppendNext, rs, JobOK
    <3>2. job'[p].want = Tail(rs) /\ pc'[p] = "append"
      BY <1>1, <3>1 DEF JobOK
    <3>3. /\ Len(Tail(rs)) = Len(rs) - 1
          /\ \A i \in 1..(Len(rs) - 1) : Tail(rs)[i] = rs[i + 1]
      <4> DEFINE S == {rs[i] : i \in DOMAIN rs}
      <4>1. rs \in Seq(S)
        BY <1>2 DEF IsChain
      <4> HIDE DEF S
      <4> QED BY <2>1, <4>1
    <3>4. \A i \in 1..(Len(rs) - 1) : i + 1 \in 2..Len(rs) /\ i + 1 \in 1..Len(rs)
      BY <1>3, <2>1
    <3>5. \A i \in 1..Len(Tail(rs)) : Filed(Tail(rs)[i])
      BY <1>2, <1>3, <3>3, <3>4
    <3>6. \A i \in 2..Len(Tail(rs)) :
            /\ PilotEvidence(Tail(rs)[i])
            /\ Pairs(Tail(rs)[i - 1], Tail(rs)[i])
            /\ ~Applied(Tail(rs)[i]) /\ Tail(rs)[i].outcome = None
      <4> TAKE i \in 2..Len(Tail(rs))
      <4>1. /\ i \in 1..(Len(rs) - 1) /\ i - 1 \in 1..(Len(rs) - 1)
            /\ (i - 1) + 1 = i /\ (i + 1) - 1 = i
        BY <1>3, <3>3
      <4>2. Tail(rs)[i] = rs[i + 1] /\ Tail(rs)[i - 1] = rs[i]
        BY <3>3, <4>1
      <4>3. i + 1 \in 2..Len(rs)
        BY <3>4, <4>1
      <4> QED BY <1>2, <4>1, <4>2, <4>3
    <3>7. Backed(d, Tail(rs)[1])
      <4>1. 2 \in 2..Len(rs) /\ 2 - 1 = 1 /\ 1 \in 1..(Len(rs) - 1) /\ 1 + 1 = 2
        BY <1>3, <2>1
      <4>2. /\ PilotEvidence(rs[2]) /\ Pairs(rs[1], rs[2])
            /\ ~Applied(rs[2]) /\ rs[2].outcome = None
        BY <1>2, <4>1
      <4>3. Tail(rs)[1] = rs[2]
        BY <3>3, <4>1
      <4>4. d[Len(d)] = rs[1] /\ Len(d) \in Nat /\ Len(d) >= 1
        BY <1>3, <1>5
      <4> QED BY <4>2, <4>3, <4>4, PairedBacked
    <3> QED BY <1>1, <3>2, <3>5, <3>6, <3>7 DEF JobBacked
  <2>2. CASE ~(Len(rs) > 1)
    <3>1. Finish(p)
      BY <2>2 DEF AppendNext, rs
    <3> QED BY <1>1, <3>1 DEF Finish, Goto, JobBacked
  <2> QED BY <2>1, <2>2
<1>11. \A q \in Procs : JobBacked(q)'
  BY <1>9, <1>10
<1> QED BY <1>1, <1>7, <1>11 DEF BoundInv

\* d continues c, their findings apart, with records that rest on nothing.
Grows(c, d) ==
    /\ Len(d) >= Len(c)
    /\ \A i \in 1..Len(c) : SameBut(c[i], d[i])
    /\ \A i \in (Len(c) + 1)..Len(d) : Filed(d[i]) /\ Plain(d[i])

\* Replaying rewrites findings only.
LEMMA ReplayGrows ==
    ASSUME NEW c, IsChain(c), SpendsOnce(c)
    PROVE  Grows(c, Replayed(c)) /\ Len(Replayed(c)) = Len(c)
<1> DEFINE d == Replayed(c)
<1>1. Len(c) \in Nat /\ DOMAIN c = 1..Len(c) /\ Len(d) = Len(c)
  <2>1. Len(d) = Len(c) /\ Len(c) \in Nat
    BY ReplayedSpends
  <2>2. DOMAIN c = 1..Len(c)
    BY DEF IsChain
  <2> QED BY <2>1, <2>2
<1>2. ASSUME NEW i \in 1..Len(c)
      PROVE  SameBut(c[i], d[i])
  <2>1. DOMAIN c[i] = DOMAIN Blank
    BY <1>1 DEF IsChain
  <2>2. {"kind", "control", "stage", "unit", "outcome", "approval", "evidence",
         "resolution", "criteria"} \subseteq DOMAIN c[i]
    BY <2>1 DEF Blank
  <2>3. d[i] = c[i] \/ \E f : d[i] = [c[i] EXCEPT !.findings = f]
    BY <1>1 DEF Replayed
  <2> HIDE DEF d
  <2> QED BY <2>2, <2>3 DEF SameBut
<1>3. (Len(c) + 1)..Len(d) = {}
  BY <1>1
<1> HIDE DEF d
<1> QED BY <1>1, <1>2, <1>3 DEF Grows, d

\* Records that rest on nothing, after a chain that grew so.
LEMMA ConcatGrows ==
    ASSUME NEW c, IsChain(c), NEW d, IsChain(d), Grows(c, d),
           NEW e, IsChain(e), \A i \in 1..Len(e) : Filed(e[i]) /\ Plain(e[i])
    PROVE  Grows(c, d \o e) /\ Len(d \o e) = Len(d) + Len(e)
<1> DEFINE S == {d[i] : i \in DOMAIN d} \cup {e[i] : i \in DOMAIN e}
           f == d \o e
<1>1. d \in Seq(S) /\ e \in Seq(S) /\ Len(c) \in Nat
  BY DEF IsChain
<1>2. /\ Len(d) \in Nat /\ Len(e) \in Nat /\ Len(f) = Len(d) + Len(e)
      /\ \A i \in 1..Len(d) : f[i] = d[i]
      /\ \A i \in (Len(d) + 1)..Len(f) : f[i] = e[i - Len(d)]
  <2> HIDE DEF S
  <2> QED BY <1>1
<1> HIDE DEF f
<1>3. \A i \in 1..Len(c) : i \in 1..Len(d) /\ SameBut(c[i], f[i])
  BY <1>1, <1>2 DEF Grows
<1>4. \A i \in (Len(c) + 1)..Len(f) :
          \/ i \in (Len(c) + 1)..Len(d) /\ f[i] = d[i]
          \/ i - Len(d) \in 1..Len(e) /\ f[i] = e[i - Len(d)]
  BY <1>1, <1>2 DEF Grows
<1>5. \A i \in (Len(c) + 1)..Len(f) : Filed(f[i]) /\ Plain(f[i])
  BY <1>4 DEF Grows
<1>6. Len(f) >= Len(c)
  BY <1>1, <1>2 DEF Grows
<1> QED BY <1>2, <1>3, <1>5, <1>6 DEF Grows, f

\* One such record.
LEMMA AppendGrows ==
    ASSUME NEW c, IsChain(c), NEW d, IsChain(d), Grows(c, d),
           NEW r, Filed(r), Plain(r), DOMAIN r = DOMAIN Blank
    PROVE  Grows(c, Append(d, r)) /\ Len(Append(d, r)) = Len(d) + 1
<1>1. IsChain(<<r>>) /\ Len(<<r>>) = 1 /\ <<r>>[1] = r
  BY OneRecord
<1>2. Append(d, r) = d \o <<r>>
  <2> DEFINE S == {d[i] : i \in DOMAIN d} \cup {r}
  <2>1. d \in Seq(S) /\ r \in S
    BY DEF IsChain
  <2> HIDE DEF S
  <2> QED BY <2>1
<1>3. \A i \in 1..Len(<<r>>) : Filed(<<r>>[i]) /\ Plain(<<r>>[i])
  BY <1>1
<1>4. Grows(c, d \o <<r>>) /\ Len(d \o <<r>>) = Len(d) + Len(<<r>>)
  BY <1>1, <1>3, ConcatGrows
<1> QED BY <1>1, <1>2, <1>4

\* A step that lengthens the chain so under every command in progress.
LEMMA GrowthBacked ==
    ASSUME BoundInv, LegalInv', pc' = pc, job' = job,
           Grows(chain, chain'), Len(chain') > Len(chain)
    PROVE  BoundInv'
<1>1. IsChain(chain) /\ IsChain(chain') /\ AllBacked(chain)
  BY DEF BoundInv, LegalInv, IInv
<1>2. AllBacked(chain')
  <2> DEFINE d == chain'
             c == chain
  <2>1. /\ Len(d) >= Len(c)
        /\ \A i \in 1..Len(c) : SameBut(c[i], d[i])
        /\ \A i \in (Len(c) + 1)..Len(d) :
              Filed(d[i]) /\ (Plain(d[i]) \/ (i = Len(c) + 1 /\ Backed(c, d[i])))
    BY DEF Grows
  <2>2. IsChain(c) /\ AllBacked(c) /\ IsChain(d)
    BY <1>1
  <2> HIDE DEF c, d
  <2>3. AllBacked(d)
    BY <2>1, <2>2, ContinuedBacked
  <2> QED BY <2>3 DEF d
<1>3. Len(chain) \in Nat /\ Len(chain') \in Nat
  BY <1>1 DEF IsChain
<1>4. \A q \in Procs : JobBacked(q)'
  BY <1>3, LeftBehindBacked
<1> QED BY <1>2, <1>4 DEF BoundInv

\* hma host reconcile and hma host loop evidence.
LEMMA ReconcileBacked ==
    ASSUME BoundInv, LegalInv', Reconcile \/ LoopEvidence
    PROVE  BoundInv'
<1>1. IsChain(chain) /\ SpendsOnce(chain) /\ Len(chain) \in Nat
  BY DEF BoundInv, LegalInv, IInv, NoncesSpentOnce, IsChain
<1>2. PICK c, r : /\ c = chain \/ c = Replayed(chain)
                  /\ chain' = Append(c, r)
                  /\ Filed(r) /\ Plain(r) /\ DOMAIN r = DOMAIN Blank
  <2>1. CASE Reconcile
    <3>1. PICK fs : chain' = Append(Replayed(chain),
                      [Blank EXCEPT !.kind = "finding", !.stage = CurrentStage(chain),
                                    !.findings = fs, !.sealed = fs])
      BY <2>1 DEF Reconcile
    <3> DEFINE r == [Blank EXCEPT !.kind = "finding", !.stage = CurrentStage(chain),
                                  !.findings = fs, !.sealed = fs]
    <3>2. /\ chain' = Append(Replayed(chain), r)
          /\ Filed(r) /\ Plain(r) /\ DOMAIN r = DOMAIN Blank
      BY <3>1 DEF Blank, Filed, Plain, Applied, PilotEvidence, CIEvidence
    <3> QED BY <3>2
  <2>2. CASE LoopEvidence
    <3>1. PICK unit \in Units, base \in Bases, d \in Digests :
              chain' = Append(chain, EvidenceFor(unit, base, d))
      BY <2>2 DEF LoopEvidence
    <3> DEFINE r == EvidenceFor(unit, base, d)
    <3>2. Filed(r) /\ Plain(r) /\ DOMAIN r = DOMAIN Blank
      BY NoneAssumption DEF EvidenceFor, Blank, Filed, Plain, Applied, PilotEvidence, CIEvidence
    <3> QED BY <3>1, <3>2
  <2> QED BY <2>1, <2>2
<1>3. /\ Grows(chain, c) /\ IsChain(c) /\ Len(c) = Len(chain)
  <2>1. CASE c = chain
    <3>1. (Len(chain) + 1)..Len(chain) = {}
      BY <1>1
    <3> QED BY <1>1, <2>1, <3>1 DEF Grows, SameBut
  <2>2. CASE c = Replayed(chain)
    BY <1>1, <2>2, ReplayGrows, ReplayedSpends
  <2> QED BY <1>2, <2>1, <2>2
<1>4. Grows(chain, Append(c, r)) /\ Len(Append(c, r)) = Len(c) + 1
  BY <1>1, <1>2, <1>3, AppendGrows
<1>5. Grows(chain, chain') /\ Len(chain') > Len(chain)
  BY <1>1, <1>2, <1>3, <1>4
<1>6. pc' = pc /\ job' = job
  BY DEF Reconcile, LoopEvidence
<1> QED BY <1>5, <1>6, GrowthBacked

\* hma host credit, however far it got.
LEMMA CreditBacked ==
    ASSUME BoundInv, LegalInv', Credit
    PROVE  BoundInv'
<1>1. PICK unit \in Units, base \in Bases, d \in Digests : \E k : \E n \in 1..k :
          \/ chain' = Checked(unit, base, d, n)
          \/ \E results : chain' = Append(Checked(unit, base, d, n),
                                          CreditRecord(unit, results))
  BY DEF Credit
<1>2. PICK k : \E n \in 1..k :
          \/ chain' = Checked(unit, base, d, n)
          \/ \E results : chain' = Append(Checked(unit, base, d, n),
                                          CreditRecord(unit, results))
  BY <1>1
<1>n. PICK n \in 1..k :
          \/ chain' = Checked(unit, base, d, n)
          \/ \E results : chain' = Append(Checked(unit, base, d, n),
                                          CreditRecord(unit, results))
  BY <1>2
<1> DEFINE r == EvidenceFor(unit, base, d)
           e == [i \in 1..n |-> r]
           f == Checked(unit, base, d, n)
<1>3. /\ n \in Nat /\ n > 0 /\ Len(chain) \in Nat
      /\ IsChain(chain) /\ SpendsOnce(chain)
  BY DEF BoundInv, LegalInv, IInv, NoncesSpentOnce, IsChain
<1>4. Filed(r) /\ Plain(r) /\ DOMAIN r = DOMAIN Blank
  BY NoneAssumption DEF EvidenceFor, Blank, Filed, Plain, Applied, PilotEvidence, CIEvidence
<1>5. f = Replayed(chain) \o e
  BY DEF Checked
<1>6. IsChain(e) /\ Len(e) = n /\ \A i \in 1..Len(e) : Filed(e[i]) /\ Plain(e[i])
  <2> HIDE DEF r
  <2>1. e \in Seq({r}) /\ Len(e) = n /\ \A i \in 1..n : e[i] = r
    BY <1>3
  <2> HIDE DEF e
  <2>2. IsChain(e)
    BY <1>4, <2>1, ChainOver
  <2> QED BY <1>4, <2>1, <2>2
<1> HIDE DEF r, e, f
<1>7. /\ Grows(chain, Replayed(chain)) /\ IsChain(Replayed(chain))
      /\ Len(Replayed(chain)) = Len(chain)
  BY <1>3, ReplayGrows, ReplayedSpends
<1>8. Grows(chain, f) /\ Len(f) = Len(chain) + n
  BY <1>3, <1>5, <1>6, <1>7, ConcatGrows
<1>9. IsChain(f)
  <2>1. IInv
    BY DEF BoundInv, LegalInv
  <2> QED BY <1>3, <2>1, CheckedSpendsOnce DEF f
<1>10. Grows(chain, chain') /\ Len(chain') > Len(chain)
  <2>1. CASE chain' = f
    BY <1>3, <1>8, <2>1
  <2>2. ASSUME NEW results, chain' = Append(f, CreditRecord(unit, results))
        PROVE  Grows(chain, chain') /\ Len(chain') > Len(chain)
    <3> DEFINE last == CreditRecord(unit, results)
    <3>1. Filed(last) /\ Plain(last) /\ DOMAIN last = DOMAIN Blank
      BY DEF CreditRecord, Blank, Filed, Plain, Applied, PilotEvidence, CIEvidence
    <3> HIDE DEF last
    <3>2. Grows(chain, Append(f, last)) /\ Len(Append(f, last)) = Len(f) + 1
      BY <1>3, <1>8, <1>9, <3>1, AppendGrows
    <3> QED BY <1>3, <1>8, <2>2, <3>2 DEF last
  <2> QED BY <1>n, <2>1, <2>2 DEF f
<1>11. pc' = pc /\ job' = job
  BY DEF Credit
<1> QED BY <1>10, <1>11, GrowthBacked

\* Every step keeps every record backed.
LEMMA NextBacked == BoundInv /\ [Next]_vars => BoundInv'
<1> SUFFICES ASSUME BoundInv, [Next]_vars PROVE BoundInv'
  OBVIOUS
<1>1. LegalInv'
  BY NextLegal DEF BoundInv
<1>2. ASSUME NEW p \in Procs, Abandon(p) PROVE BoundInv'
  <2>1. DOMAIN job = Procs
    BY DEF BoundInv, LegalInv, IInv
  <2>2. Goto(p, "idle") /\ chain' = chain /\ \A q \in Procs \ {p} : job'[q] = job[q]
    BY <1>2, <2>1 DEF Abandon, Finish
  <2> QED BY <1>1, <2>2, IdleBacked
<1>3. CASE RepositoryChange \/ UNCHANGED vars
  BY <1>1, <1>3 DEF RepositoryChange, vars, BoundInv, JobBacked
<1>4. ASSUME NEW p \in Procs,
             \/ TransitionBegin(p) \/ TransitionGate(p) \/ TransitionEvaluate(p)
             \/ PilotBegin(p) \/ PilotEvaluate(p) \/ PilotCapture(p)
             \/ CIBegin(p) \/ CICapture(p)
             \/ Resolve(p) \/ CriteriaBaseline(p) \/ FindingsImport(p)
             \/ AppendNext(p)
      PROVE  BoundInv'
  BY <1>1, <1>4, TransitionBacked, PilotCommandBacked, CICommandBacked, PlainCommandBacked,
     AppendNextBacked
<1> QED BY <1>1, <1>2, <1>3, <1>4, ReconcileBacked, CreditBacked DEF Next

-----------------------------------------------------------------------------
(* What it means that every record is backed.                              *)

\* The records before the i-th, and what is in them.
LEMMA BeforeFacts ==
    ASSUME NEW c, IsChain(c), NEW i \in 1..Len(c)
    PROVE  /\ DOMAIN c = 1..Len(c) /\ Len(c) \in Nat
           /\ Len(Before(c, i)) = i - 1
           /\ DOMAIN Before(c, i) = 1..(i - 1)
           /\ \A j \in 1..(i - 1) : Before(c, i)[j] = c[j]
<1>1. DOMAIN c = 1..Len(c) /\ Len(c) \in Nat
  BY DEF IsChain
<1>2. i \in 1..(Len(c) + 1)
  BY <1>1
<1>3. DOMAIN Before(c, i) = 1..(i - 1)
  BY <1>1 DEF Before
<1> QED BY <1>1, <1>2, <1>3, BeforeRecord

\* Seeds have their records backed.
LEMMA SeedsBacked == \A c \in Seeds : AllBacked(c)
<1> SUFFICES ASSUME NEW c \in Seeds, NEW i \in 1..Len(c)
             PROVE  Filed(c[i]) /\ Backed(Before(c, i), c[i])
  BY DEF AllBacked
<1> DEFINE b == Before(c, i)
           r == c[i]
<1>1. /\ IsChain(c) /\ OutcomesEnd(c) /\ ~Terminal(c)
      /\ EvidenceAtRevision(c) /\ PilotEvidencePaired(c) /\ CIEvidenceApproved(c)
      /\ CarriesContract(c)
  BY SeedsAssumption, OpenAssumption, BoundSeedsAssumption
<1>2. /\ DOMAIN c = 1..Len(c) /\ Len(c) \in Nat
      /\ Len(b) = i - 1 /\ DOMAIN b = 1..(i - 1) /\ \A j \in 1..(i - 1) : b[j] = c[j]
  BY <1>1, BeforeFacts
<1>3. Filed(r)
  BY <1>2, BoundSeedsAssumption
<1>4. EvidenceBacked(b, r)
  <2> SUFFICES ASSUME Applied(r), NEW d \in r.approval.needs
               PROVE  \E e \in Evidence(b) : /\ e.digest = d
                                             /\ e.base = r.approval.base
                                             /\ r.approval.head \in {None, e.head}
    BY DEF EvidenceBacked, EvidenceSatisfied
  <2>1. PICK j \in 1..(i - 1) :
            /\ c[j].evidence # None
            /\ c[j].evidence.digest = d
            /\ c[j].evidence.base = c[i].approval.base
            /\ c[i].approval.head \in {None, c[j].evidence.head}
    BY <1>1, <1>2 DEF EvidenceAtRevision
  <2>2. c[j].evidence \in Evidence(b)
    BY <1>2, <2>1 DEF Evidence
  <2> QED BY <2>1, <2>2
<1>5. PilotBacked(b, r)
  <2> SUFFICES ASSUME PilotEvidence(r) PROVE Len(b) >= 1 /\ Pairs(b[Len(b)], r)
    BY DEF PilotBacked
  <2>1. /\ i > 1 /\ c[i - 1].kind = "stage_transition"
        /\ c[i - 1].control = "READY_FOR_REVIEW" /\ c[i - 1].stage = c[i].stage
        /\ c[i - 1].approval.head \in {None, c[i].evidence.head}
    BY <1>1, <1>2 DEF PilotEvidencePaired, PilotEvidence
  <2>2. i - 1 \in 1..(i - 1) /\ Len(b) >= 1
    BY <1>2, <2>1
  <2>3. b[Len(b)] = c[i - 1]
    BY <1>2, <2>2
  <2> HIDE DEF b
  <2> QED BY <2>1, <2>2, <2>3 DEF Pairs
<1>6. CIBacked(b, r)
  <2> SUFFICES ASSUME CIEvidence(r)
               PROVE  OpenIn(b, r.stage) /\ Packeted(b, r.stage, r.evidence.head)
    BY DEF CIBacked
  <2>1. /\ c[i].stage = CurrentStage(b)
        /\ \A j \in 1..(i - 1) : c[j].outcome = None
        /\ \E j \in 1..(i - 1) :
              /\ c[j].approval # None
              /\ c[j].approval.from = c[i].stage
              /\ c[j].approval.head = c[i].evidence.head
              /\ \A k \in j..(i - 1) :
                    ApprovedMove(c[k]) => c[k].approval.to # c[i].stage
    BY <1>1, <1>2 DEF CIEvidenceApproved, CIEvidence
  <2> HIDE DEF b
  <2>2. OpenIn(b, r.stage)
    BY <1>2, <2>1 DEF OpenIn
  <2>3. Packeted(b, r.stage, r.evidence.head)
    <3>1. PICK j \in 1..(i - 1) :
              /\ c[j].approval # None
              /\ c[j].approval.from = c[i].stage
              /\ c[j].approval.head = c[i].evidence.head
              /\ \A k \in j..(i - 1) :
                    ApprovedMove(c[k]) => c[k].approval.to # c[i].stage
      BY <2>1
    <3>2. j \in 1..Len(b) /\ b[j] = c[j]
          /\ \A k \in j..Len(b) : k \in j..(i - 1) /\ b[k] = c[k]
      BY <1>2
    <3> QED BY <3>1, <3>2 DEF Packeted
  <2> QED BY <2>2, <2>3
<1>7. ContractBacked(b, r)
  <2>1. i \in DOMAIN c /\ CarriesContract(c)
    BY <1>1, <1>2
  <2>2. Applied(r) =>
            LET a == r.approval
                bound == BoundContractDigest(b)
            IN  /\ ~AcceptsAnew(a) => a.contract = bound
                /\ a.contract # None => DOMAIN Criteria(b) = CriteriaOf[a.contract]
                /\ AcceptsAnew(a) /\ bound # None => a.contract # None
    BY ONLY <2>1, Zenon DEF CarriesContract
  <2> HIDE DEF b, r
  <2> QED BY <2>2 DEF ContractBacked
<1>8. OutcomeBacked(b, r)
  <2>1. r.outcome = None
    BY <1>1, <1>2 DEF Terminal, OutcomesEnd
  <2>2. None \notin FailureOutcomes /\ None # "PARTIAL"
    BY NoneAssumption DEF Outcomes, stoppingOutcomes
  <2> HIDE DEF r
  <2> QED BY <2>1, <2>2 DEF OutcomeBacked
<1> QED BY <1>3, <1>4, <1>5, <1>6, <1>7, <1>8 DEF Backed

-----------------------------------------------------------------------------
(* What backs the records is what the properties say.                      *)

\* Failures are ranked by where they stand in the order of precedence.
Rank(o) == CHOOSE n \in DOMAIN FailurePrecedence : FailurePrecedence[n] = o

LEMMA Ranks ==
    /\ DOMAIN FailurePrecedence = 1..3
    /\ \A n \in 1..3 : Rank(FailurePrecedence[n]) = n
    /\ \A o \in FailureOutcomes : Rank(o) \in 1..3 /\ FailurePrecedence[Rank(o)] = o
<1>1. DOMAIN FailurePrecedence = 1..3
  BY DEF FailurePrecedence
<1>2. \A m, n \in 1..3 : FailurePrecedence[m] = FailurePrecedence[n] => m = n
  BY DEF FailurePrecedence
<1>3. \A n \in 1..3 : Rank(FailurePrecedence[n]) = n
  <2> SUFFICES ASSUME NEW n \in 1..3 PROVE Rank(FailurePrecedence[n]) = n
    OBVIOUS
  <2>1. /\ Rank(FailurePrecedence[n]) \in 1..3
        /\ FailurePrecedence[Rank(FailurePrecedence[n])] = FailurePrecedence[n]
    BY <1>1 DEF Rank
  <2> QED BY <1>2, <2>1
<1>4. \A o \in FailureOutcomes : \E n \in 1..3 : o = FailurePrecedence[n]
  BY <1>1 DEF FailureOutcomes
<1> QED BY <1>1, <1>3, <1>4

\* The failure a chain has is the worst one standing.
LEMMA WorstFailure ==
    ASSUME NEW b, FailureOutcome(b) \in FailureOutcomes
    PROVE  /\ FailureOutcome(b) \in LiveFailures(b)
           /\ \A o \in LiveFailures(b) \cap FailureOutcomes :
                 Rank(o) >= Rank(FailureOutcome(b))
<1> DEFINE N == {n \in 1..3 : FailurePrecedence[n] \in LiveFailures(b)}
<1>1. Len(FailurePrecedence) = 3
  BY DEF FailurePrecedence
<1>2. SelectInSeq(FailurePrecedence, LAMBDA o : o \in LiveFailures(b))
          = IF N # {} THEN Min(N) ELSE 0
  BY <1>1 DEF SelectInSeq
<1>3. N # {} => Min(N) \in N /\ \A n \in N : Min(N) <= n
  <2>1. N \subseteq 1..3
    OBVIOUS
  <2> HIDE DEF N
  <2>2. ASSUME N # {} PROVE \E m \in N : \A n \in N : m <= n
    <3>1. CASE 1 \in N
      BY <2>1, <3>1
    <3>2. CASE 1 \notin N /\ 2 \in N
      BY <2>1, <3>2
    <3>3. CASE 1 \notin N /\ 2 \notin N
      <4>1. PICK x : x \in N
        BY <2>2
      <4>2. \A n \in N : n = 3
        BY <2>1, <3>3
      <4> QED BY <4>1, <4>2
    <3> QED BY <3>1, <3>2, <3>3
  <2> QED BY <2>2 DEF Min
<1>4. N # {}
  <2>1. None \notin FailureOutcomes
    BY NoneAssumption DEF Outcomes, stoppingOutcomes
  <2> HIDE DEF N
  <2> QED BY <1>2, <2>1 DEF FailureOutcome
<1> DEFINE m == Min(N)
<1>5. m \in 1..3 /\ FailurePrecedence[m] \in LiveFailures(b) /\ \A n \in N : m <= n
  BY <1>3, <1>4
<1>6. FailureOutcome(b) = FailurePrecedence[m]
  <2> HIDE DEF N
  <2>1. m # 0
    BY <1>5
  <2> HIDE DEF m
  <2> QED BY <1>2, <1>4, <2>1 DEF FailureOutcome, m
<1>7. ASSUME NEW o \in LiveFailures(b) \cap FailureOutcomes
      PROVE  Rank(o) >= Rank(FailureOutcome(b))
  <2>1. Rank(o) \in N
    BY <1>7, Ranks
  <2> HIDE DEF N
  <2>2. Rank(FailurePrecedence[m]) = m /\ Rank(o) \in 1..3
    BY <1>5, Ranks
  <2> HIDE DEF m
  <2> QED BY <1>5, <1>6, <2>1, <2>2
<1> HIDE DEF m
<1> QED BY <1>5, <1>6, <1>7

\* A run stopped for a failure was stopped for the worst one standing.
LEMMA StandingFailures ==
    ASSUME NEW c, IsChain(c), AllBacked(c)
    PROVE  FailureStands(c)
<1> SUFFICES ASSUME NEW i \in DOMAIN c, c[i].outcome \in FailureOutcomes
             PROVE  LET stands(j) ==
                            /\ c[j].kind = "classification"
                            /\ \A k \in (j + 1)..(i - 1) : c[k].unit = c[j].unit =>
                                  c[k].kind \notin {"classification", "waiver_operation",
                                                    "finding_override"}
                    IN  /\ \E j \in 1..(i - 1) :
                              stands(j) /\ c[j].approval.outcome = c[i].outcome
                        /\ \A j \in 1..(i - 1) :
                              stands(j) => Rank(c[j].approval.outcome) >= Rank(c[i].outcome)
  BY DEF FailureStands, Rank
<1> DEFINE stands(j) ==
               /\ c[j].kind = "classification"
               /\ \A k \in (j + 1)..(i - 1) : c[k].unit = c[j].unit =>
                     c[k].kind \notin {"classification", "waiver_operation",
                                       "finding_override"}
           b == Before(c, i)
           J == {j \in 1..(i - 1) : stands(j)}
<1>1. i \in 1..Len(c)
  BY DEF IsChain
<1>2. /\ DOMAIN c = 1..Len(c) /\ Len(c) \in Nat
      /\ Len(b) = i - 1 /\ DOMAIN b = 1..(i - 1) /\ \A j \in 1..(i - 1) : b[j] = c[j]
  BY <1>1, BeforeFacts
<1>3. FailureOutcome(b) = c[i].outcome
  BY <1>1 DEF AllBacked, Backed, OutcomeBacked
<1>4. \A k \in 1..Len(c) : Filed(c[k])
  BY DEF AllBacked
<1>5. LiveFailures(b) = {c[j].approval.outcome : j \in J}
  <2> DEFINE K == {j \in DOMAIN b :
                     /\ b[j].kind = "classification"
                     /\ \A k \in (j + 1)..Len(b) : ~Supersedes(b[k], b[j].unit)}
  <2>1. ASSUME NEW j \in 1..(i - 1), NEW k \in (j + 1)..(i - 1)
        PROVE  Supersedes(b[k], b[j].unit) <=>
                   /\ c[k].unit = c[j].unit
                   /\ c[k].kind \in {"classification", "waiver_operation",
                                     "finding_override"}
    <3>1. k \in 1..(i - 1) /\ k \in 1..Len(c)
      BY <1>1, <1>2
    <3>2. b[k] = c[k] /\ b[j] = c[j] /\ Filed(c[k])
      BY <1>2, <1>4, <3>1
    <3> HIDE DEF b
    <3> QED BY <3>2 DEF Supersedes, Filed
  <2>2. K = J
    <3>1. ASSUME NEW j \in 1..(i - 1) PROVE j \in K <=> j \in J
      <4> HIDE DEF b
      <4> QED BY <1>2, <2>1, <3>1
    <3>2. K \subseteq 1..(i - 1) /\ J \subseteq 1..(i - 1)
      BY <1>2
    <3> HIDE DEF K, J
    <3> QED BY <3>1, <3>2
  <2>3. \A j \in J : b[j].approval.outcome = c[j].approval.outcome
    BY <1>2
  <2>4. LiveFailures(b) = {b[j].approval.outcome : j \in K}
    BY DEF LiveFailures
  <2> HIDE DEF K, J, b
  <2> QED BY <2>2, <2>3, <2>4
<1>6. \A j \in J : c[j].approval.outcome \in FailureOutcomes
  BY <1>1, <1>2, <1>4 DEF Filed
<1>7. /\ c[i].outcome \in LiveFailures(b)
      /\ \A o \in LiveFailures(b) \cap FailureOutcomes : Rank(o) >= Rank(c[i].outcome)
  <2> HIDE DEF b
  <2> QED BY <1>3, WorstFailure
<1> HIDE DEF b
<1>8. \E j \in J : c[j].approval.outcome = c[i].outcome
  <2> HIDE DEF J
  <2> QED BY <1>5, <1>7
<1>9. \A j \in J : Rank(c[j].approval.outcome) >= Rank(c[i].outcome)
  <2> HIDE DEF J
  <2> QED BY <1>5, <1>6, <1>7
<1> QED BY <1>8, <1>9

\* What the backing of every record says of the chain.
LEMMA BackedMeans ==
    ASSUME NEW c, IsChain(c), AllBacked(c)
    PROVE  /\ EvidenceAtRevision(c) /\ PilotEvidencePaired(c) /\ CIEvidenceApproved(c)
           /\ CarriesContract(c)
           /\ FailureStands(c) /\ PartialAccounted(c)
<1>1. ASSUME NEW i \in DOMAIN c
      PROVE  /\ i \in 1..Len(c)
             /\ Len(Before(c, i)) = i - 1 /\ DOMAIN Before(c, i) = 1..(i - 1)
             /\ \A j \in 1..(i - 1) : Before(c, i)[j] = c[j]
             /\ Backed(Before(c, i), c[i])
  <2>1. i \in 1..Len(c)
    BY DEF IsChain
  <2> QED BY <2>1, BeforeFacts DEF AllBacked
<1>2. EvidenceAtRevision(c)
  <2> SUFFICES ASSUME NEW i \in DOMAIN c, Applied(c[i]), NEW d \in c[i].approval.needs
               PROVE  \E j \in 1..(i - 1) :
                          /\ c[j].evidence # None
                          /\ c[j].evidence.digest = d
                          /\ c[j].evidence.base = c[i].approval.base
                          /\ c[i].approval.head \in {None, c[j].evidence.head}
    BY DEF EvidenceAtRevision
  <2>1. PICK e \in Evidence(Before(c, i)) :
            /\ e.digest = d
            /\ e.base = c[i].approval.base
            /\ c[i].approval.head \in {None, e.head}
    BY <1>1 DEF Backed, EvidenceBacked, EvidenceSatisfied
  <2>2. PICK j \in 1..(i - 1) : c[j].evidence = e /\ e # None
    BY <1>1 DEF Evidence
  <2> QED BY <2>1, <2>2
<1>3. PilotEvidencePaired(c)
  <2> SUFFICES ASSUME NEW i \in DOMAIN c, PilotEvidence(c[i])
               PROVE  /\ i > 1
                      /\ c[i - 1].kind = "stage_transition"
                      /\ c[i - 1].control = "READY_FOR_REVIEW"
                      /\ c[i - 1].stage = c[i].stage
                      /\ c[i - 1].approval.head \in {None, c[i].evidence.head}
    BY DEF PilotEvidencePaired, PilotEvidence
  <2> DEFINE b == Before(c, i)
  <2>1. Len(b) >= 1 /\ Pairs(b[Len(b)], c[i])
    BY <1>1 DEF Backed, PilotBacked
  <2>2. i > 1 /\ b[Len(b)] = c[i - 1]
    BY <1>1, <2>1
  <2> HIDE DEF b
  <2> QED BY <2>1, <2>2 DEF Pairs
<1>4. CIEvidenceApproved(c)
  <2> SUFFICES ASSUME NEW i \in DOMAIN c, CIEvidence(c[i])
               PROVE  /\ c[i].stage = CurrentStage(Before(c, i))
                      /\ \A j \in 1..(i - 1) : c[j].outcome = None
                      /\ \E j \in 1..(i - 1) :
                            /\ c[j].approval # None
                            /\ c[j].approval.from = c[i].stage
                            /\ c[j].approval.head = c[i].evidence.head
                            /\ \A k \in j..(i - 1) :
                                  ApprovedMove(c[k]) => c[k].approval.to # c[i].stage
    BY DEF CIEvidenceApproved, CIEvidence
  <2> DEFINE b == Before(c, i)
  <2>1. OpenIn(b, c[i].stage) /\ Packeted(b, c[i].stage, c[i].evidence.head)
    BY <1>1 DEF Backed, CIBacked
  <2>2. /\ i \in 1..Len(c) /\ Len(b) = i - 1 /\ \A j \in 1..(i - 1) : b[j] = c[j]
    BY <1>1
  <2> HIDE DEF b
  <2>3. c[i].stage = CurrentStage(b) /\ \A j \in 1..(i - 1) : c[j].outcome = None
    BY <2>1, <2>2 DEF OpenIn
  <2>4. PICK j \in 1..(i - 1) :
            /\ b[j].approval # None
            /\ b[j].approval.from = c[i].stage
            /\ b[j].approval.head = c[i].evidence.head
            /\ \A k \in j..(i - 1) : ApprovedMove(b[k]) => b[k].approval.to # c[i].stage
    BY <2>1, <2>2 DEF Packeted
  <2>5. \A k \in j..(i - 1) : b[k] = c[k]
    BY <2>2
  <2> QED BY <2>2, <2>3, <2>4, <2>5 DEF b
<1>5. CarriesContract(c)
  BY <1>1 DEF CarriesContract, Backed, ContractBacked
<1>6. PartialAccounted(c)
  BY <1>1 DEF PartialAccounted, Backed, OutcomeBacked
<1> QED BY <1>2, <1>3, <1>4, <1>5, <1>6, StandingFailures

LEMMA InitBacked == Init => BoundInv
<1> SUFFICES ASSUME Init PROVE BoundInv
  OBVIOUS
<1>1. LegalInv
  <2>1. LegalHistory /\ OutcomesEnd(chain)
    BY SeedsAssumption DEF Init, LegalHistory
  <2>2. \A p \in Procs : JobLegal(p)
    BY DEF Init, JobLegal
  <2> QED BY <2>1, <2>2, InitIInv DEF LegalInv
<1>2. AllBacked(chain)
  BY SeedsBacked DEF Init
<1>3. \A p \in Procs : JobBacked(p)
  BY DEF Init, JobBacked
<1> QED BY <1>1, <1>2, <1>3 DEF BoundInv

LEMMA BoundMeans ==
    BoundInv => EvidenceBound /\ ContractCarried /\ FailureStands(chain)
                /\ PartialAccounted(chain)
BY BackedMeans DEF BoundInv, LegalInv, IInv, EvidenceBound, ContractCarried

\* Evidence in the chain is of the revision its approval binds: what a
\* transition required, what a pilot captured under its approval, and what CI
\* recorded for a packet, although other commands append while it is captured.
THEOREM EvidenceIsBound == Spec => []EvidenceBound
BY InitBacked, NextBacked, BoundMeans, PTL DEF Spec

\* Every approved decision carries the accepted contract and leaves the run
\* with that contract's criteria, whatever lands while it is being made.
THEOREM ContractIsCarried == Spec => []ContractCarried
BY InitBacked, NextBacked, BoundMeans, PTL DEF Spec

\* A run is stopped for the worst failure standing in the chain its outcome
\* lands on, and ends PARTIAL only under a contract, with no failure standing
\* and with the criteria as they then are.
THEOREM EndsStand == Spec => [](FailureStands(chain) /\ PartialAccounted(chain))
BY InitBacked, NextBacked, BoundMeans, PTL DEF Spec

-----------------------------------------------------------------------------
(***************************************************************************)
(* Findings and waivers, for any reports and operations.                   *)
(*                                                                         *)
(* Each property is one of a record and the chain before it (Reviewed).    *)
(* As with Backed, what a command decided on the chain it loaded holds of  *)
(* the chain its record lands on, which is the same; records of evidence   *)
(* and criteria respect any chain (Bare).  But a replay that is written    *)
(* back puts overridden dispositions into the lists it replayed, so the    *)
(* findings before a record are no longer those it was recorded after.     *)
(* What such a rewriting (Rewritten) changes is a list no review made;     *)
(* such a list has a BLOCK of HMA's own, which stands in every later list  *)
(* (Held), and no decision that needed its findings resolved comes after   *)
(* one.  A review starts a list of its own, so the findings before it are  *)
(* as they were; and a finding that could be waived is made no BLOCK.      *)
(***************************************************************************)

\* The records q and r are alike but for the findings.
Told(q, r) == SameBut(q, r) /\ q.snapshot = r.snapshot

\* Finding f with disposition d.
Disposed(f, d) == [f EXCEPT !.disp = d]

\* An override that came before the next list of findings made of finding id
\* of record i of s what it is in c.
Overridden(c, s, i, id) ==
    \E j \in (i + 1)..Len(s) :
        /\ Overrides(s[j], id)
        /\ \A k \in (i + 1)..j : ~SetsFindings(s[k])
        /\ c[i].findings[id] = Disposed(s[i].findings[id], s[j].resolution.disp)

\* c is s, some lists of findings overwritten by a replay.
Rewritten(c, s) ==
    /\ Len(c) = Len(s)
    /\ \A i \in 1..Len(s) :
          /\ Told(c[i], s[i])
          /\ \/ c[i].findings = s[i].findings
             \/ /\ ~s[i].snapshot
                /\ c[i].findings # NoMap /\ s[i].findings # NoMap
                /\ DOMAIN c[i].findings = DOMAIN s[i].findings
                /\ \A id \in DOMAIN s[i].findings :
                      c[i].findings[id] = s[i].findings[id] \/ Overridden(c, s, i, id)

AllReviewed(s) == \A i \in 1..Len(s) : Reviewed(Before(s, i), s[i])

\* What HMA found itself, in the records of a chain.
Held(c) ==
    \A i \in 1..Len(c) :
        /\ \A id \in DOMAIN c[i].findings :
              /\ DOMAIN c[i].findings[id] = {"disp", "unit"}
              /\ id.by = None =>
                    c[i].findings[id].disp = "BLOCK" /\ c[i].findings[id].unit = None
        /\ ~c[i].snapshot /\ c[i].findings # NoMap =>
              \E id \in DOMAIN c[i].findings : id.by = None
        /\ SetsFindings(c[i]) => \A j \in 1..(i - 1) : \A id \in DOMAIN c[j].findings :
              id.by = None => id \in DOMAIN c[i].findings
        /\ \A id : Overrides(c[i], id) =>
              id.by # None /\ c[i].resolution.disp # "BLOCK"

\* A chain, as far as the projections look at it.
Chained(c) == Len(c) \in Nat /\ DOMAIN c = 1..Len(c)

-----------------------------------------------------------------------------
(* The findings and waivers of a chain.                                    *)

\* They are the latest list's, as the overrides since left them.
LEMMA FindingsAt ==
    ASSUME NEW c, Chained(c)
    PROVE  /\ (\A i \in 1..Len(c) : ~SetsFindings(c[i])) => Findings(c) = NoMap
           /\ \A k \in 1..Len(c) :
                 SetsFindings(c[k]) /\ (\A i \in (k + 1)..Len(c) : ~SetsFindings(c[i]))
                     => Findings(c) = FindingsSince(c, k)
<1> DEFINE K == {i \in 1..Len(c) : SetsFindings(c[i])}
<1>1. SelectLastInSeq(c, SetsFindings) = IF K # {} THEN Max(K) ELSE 0
  BY DEF SelectLastInSeq
<1>2. ASSUME \A i \in 1..Len(c) : ~SetsFindings(c[i])
      PROVE  Findings(c) = NoMap
  <2>1. K = {}
    BY <1>2
  <2> HIDE DEF K
  <2> QED BY <1>1, <2>1 DEF Findings
<1>3. ASSUME NEW k \in 1..Len(c), SetsFindings(c[k]),
             \A i \in (k + 1)..Len(c) : ~SetsFindings(c[i])
      PROVE  Findings(c) = FindingsSince(c, k)
  <2>1. k \in K /\ K \subseteq 1..Len(c) /\ \A i \in K : i <= k
    BY <1>3 DEF Chained
  <2> HIDE DEF K
  <2>2. Max(K) \in K /\ Max(K) >= k
    BY <2>1, MaxOf DEF Chained
  <2>3. Max(K) \in 1..Len(c) /\ Max(K) <= k
    BY <2>1, <2>2
  <2>4. Max(K) = k /\ k # 0
    BY <2>2, <2>3 DEF Chained
  <2> QED BY <1>1, <2>1, <2>4 DEF Findings
<1> QED BY <1>2, <1>3

\* Either there is none, or there is a latest list.
LEMMA LatestList ==
    ASSUME NEW c, Chained(c)
    PROVE  \/ \A i \in 1..Len(c) : ~SetsFindings(c[i])
           \/ \E k \in 1..Len(c) :
                 SetsFindings(c[k]) /\ \A i \in (k + 1)..Len(c) : ~SetsFindings(c[i])
<1> DEFINE K == {i \in 1..Len(c) : SetsFindings(c[i])}
<1> SUFFICES ASSUME K # {}
             PROVE  \E k \in 1..Len(c) :
                       SetsFindings(c[k]) /\ \A i \in (k + 1)..Len(c) : ~SetsFindings(c[i])
  OBVIOUS
<1>1. K \subseteq 1..Len(c)
  OBVIOUS
<1>2. Max(K) \in K /\ \A i \in K : Max(K) >= i
  <2> HIDE DEF K
  <2> QED BY <1>1, MaxOf DEF Chained
<1>3. PICK k \in K : \A i \in K : k >= i
  <2> HIDE DEF K
  <2> QED BY <1>2
<1>4. \A i \in (k + 1)..Len(c) : ~SetsFindings(c[i])
  BY <1>3 DEF Chained
<1> QED BY <1>3, <1>4

\* A finding of a list stands as the latest override left it.
LEMMA SinceAt ==
    ASSUME NEW c, Chained(c), NEW k \in 1..Len(c)
    PROVE  /\ DOMAIN FindingsSince(c, k) = DOMAIN c[k].findings
           /\ \A id \in DOMAIN c[k].findings :
                 /\ (\A j \in (k + 1)..Len(c) : ~Overrides(c[j], id))
                        => FindingsSince(c, k)[id] = c[k].findings[id]
                 /\ \A j \in (k + 1)..Len(c) :
                       Overrides(c[j], id) /\ (\A i \in (j + 1)..Len(c) : ~Overrides(c[i], id))
                           => FindingsSince(c, k)[id]
                                  = Disposed(c[k].findings[id], c[j].resolution.disp)
<1> SUFFICES ASSUME NEW id \in DOMAIN c[k].findings
             PROVE  /\ (\A j \in (k + 1)..Len(c) : ~Overrides(c[j], id))
                           => FindingsSince(c, k)[id] = c[k].findings[id]
                    /\ \A j \in (k + 1)..Len(c) :
                       Overrides(c[j], id) /\ (\A i \in (j + 1)..Len(c) : ~Overrides(c[i], id))
                           => FindingsSince(c, k)[id]
                                  = Disposed(c[k].findings[id], c[j].resolution.disp)
  BY DEF FindingsSince
<1> DEFINE J == {i \in 1..Len(c) : Overrides(c[i], id)}
           m == SelectLastInSeq(c, LAMBDA r : Overrides(r, id))
<1>1. m = IF J # {} THEN Max(J) ELSE 0
  BY DEF SelectLastInSeq
<1>2. FindingsSince(c, k)[id] = IF m > k
          THEN Disposed(c[k].findings[id], c[m].resolution.disp)
          ELSE c[k].findings[id]
  BY DEF FindingsSince, Disposed
<1>3. J \subseteq 1..Len(c) /\ Len(c) \in Nat
  BY DEF Chained
<1>4. J # {} => Max(J) \in J /\ \A i \in J : Max(J) >= i
  <2> HIDE DEF J
  <2> QED BY <1>3, MaxOf
<1>5. ASSUME \A j \in (k + 1)..Len(c) : ~Overrides(c[j], id)
      PROVE  FindingsSince(c, k)[id] = c[k].findings[id]
  <2>1. \A i \in J : i <= k
    BY <1>3, <1>5
  <2> HIDE DEF J
  <2>2. m \in Nat /\ ~(m > k)
    BY <1>1, <1>3, <1>4, <2>1
  <2> HIDE DEF m
  <2> QED BY <1>2, <2>2
<1>6. ASSUME NEW j \in (k + 1)..Len(c), Overrides(c[j], id),
             \A i \in (j + 1)..Len(c) : ~Overrides(c[i], id)
      PROVE  FindingsSince(c, k)[id]
                 = Disposed(c[k].findings[id], c[j].resolution.disp)
  <2>1. j \in J /\ \A i \in J : i <= j
    BY <1>3, <1>6
  <2> HIDE DEF J
  <2>2. Max(J) \in J /\ Max(J) >= j /\ Max(J) <= j
    BY <1>4, <2>1
  <2>3. m = j /\ m > k
    BY <1>1, <1>3, <2>1, <2>2
  <2> HIDE DEF m
  <2> QED BY <1>2, <2>3
<1> QED BY <1>5, <1>6

\* A finding was overridden since, by a latest override, or never.
LEMMA LatestOverride ==
    ASSUME NEW c, Chained(c), NEW k \in 1..Len(c), NEW id
    PROVE  \/ \A j \in (k + 1)..Len(c) : ~Overrides(c[j], id)
           \/ \E j \in (k + 1)..Len(c) :
                 Overrides(c[j], id) /\ \A i \in (j + 1)..Len(c) : ~Overrides(c[i], id)
<1> DEFINE J == {i \in (k + 1)..Len(c) : Overrides(c[i], id)}
<1> SUFFICES ASSUME J # {}
             PROVE  \E j \in (k + 1)..Len(c) :
                       Overrides(c[j], id) /\ \A i \in (j + 1)..Len(c) : ~Overrides(c[i], id)
  OBVIOUS
<1>1. J \subseteq 1..Len(c)
  BY DEF Chained
<1>2. Max(J) \in J /\ \A i \in J : Max(J) >= i
  <2> HIDE DEF J
  <2> QED BY <1>1, MaxOf DEF Chained
<1>3. PICK j \in J : \A i \in J : j >= i
  <2> HIDE DEF J
  <2> QED BY <1>2
<1>4. \A i \in (j + 1)..Len(c) : ~Overrides(c[i], id)
  <2> SUFFICES ASSUME NEW i \in (j + 1)..Len(c), Overrides(c[i], id) PROVE FALSE
    OBVIOUS
  <2>1. i \in J /\ i > j
    BY <1>3 DEF Chained
  <2> HIDE DEF J
  <2> QED BY <1>1, <1>3, <2>1 DEF Chained
<1> QED BY <1>3, <1>4

\* Setting a field twice is setting it once.
LEMMA SetTwice ==
    ASSUME NEW f, NEW d, NEW e
    PROVE  Disposed(Disposed(f, d), e) = Disposed(f, e)
BY DEF Disposed

\* A list some of whose findings already are what an override among the
\* records made of them gives the same findings.
LEMMA SinceSame ==
    ASSUME NEW c, NEW s, Chained(c), Chained(s), Len(c) = Len(s),
           \A i \in 1..Len(s) : c[i].resolution = s[i].resolution,
           NEW k \in 1..Len(s), DOMAIN c[k].findings = DOMAIN s[k].findings,
           \A id \in DOMAIN s[k].findings :
               \/ c[k].findings[id] = s[k].findings[id]
               \/ \E j \in (k + 1)..Len(s) :
                     /\ Overrides(s[j], id)
                     /\ c[k].findings[id]
                            = Disposed(s[k].findings[id], s[j].resolution.disp)
    PROVE  FindingsSince(c, k) = FindingsSince(s, k)
<1> DEFINE C == FindingsSince(c, k)
           S == FindingsSince(s, k)
<1>1. /\ C = [id \in DOMAIN c[k].findings |-> C[id]]
      /\ S = [id \in DOMAIN s[k].findings |-> S[id]]
  BY DEF FindingsSince
<1>2. ASSUME NEW id \in DOMAIN s[k].findings
      PROVE  C[id] = S[id]
  <2>1. \A j \in (k + 1)..Len(s) : Overrides(c[j], id) <=> Overrides(s[j], id)
    BY DEF Overrides, Chained
  <2>2. k \in 1..Len(c) /\ id \in DOMAIN c[k].findings
    OBVIOUS
  <2>3. CASE \A j \in (k + 1)..Len(s) : ~Overrides(s[j], id)
    <3>1. C[id] = c[k].findings[id]
      BY <2>1, <2>2, <2>3, SinceAt
    <3>2. S[id] = s[k].findings[id]
      BY <2>3, SinceAt
    <3> QED BY <2>3, <3>1, <3>2
  <2>4. CASE \E j \in (k + 1)..Len(s) :
                Overrides(s[j], id) /\ \A i \in (j + 1)..Len(s) : ~Overrides(s[i], id)
    <3>1. PICK j \in (k + 1)..Len(s) :
              Overrides(s[j], id) /\ \A i \in (j + 1)..Len(s) : ~Overrides(s[i], id)
      BY <2>4
    <3>2. j \in 1..Len(s) /\ \A i \in (j + 1)..Len(s) : i \in (k + 1)..Len(s)
      BY DEF Chained
    <3> DEFINE d == s[j].resolution.disp
    <3>3. C[id] = Disposed(c[k].findings[id], d)
      <4>1. Overrides(c[j], id) /\ \A i \in (j + 1)..Len(c) : ~Overrides(c[i], id)
        BY <2>1, <3>1, <3>2
      <4>2. j \in (k + 1)..Len(c) /\ c[j].resolution.disp = d
        BY <3>2
      <4>3. \A x \in (k + 1)..Len(c) :
               Overrides(c[x], id) /\ (\A i \in (x + 1)..Len(c) : ~Overrides(c[i], id))
                   => C[id] = Disposed(c[k].findings[id], c[x].resolution.disp)
        BY <2>2, SinceAt
      <4> HIDE DEF d, C
      <4> QED BY <4>1, <4>2, <4>3
    <3>4. S[id] = Disposed(s[k].findings[id], d)
      <4>1. \A x \in (k + 1)..Len(s) :
               Overrides(s[x], id) /\ (\A i \in (x + 1)..Len(s) : ~Overrides(s[i], id))
                   => S[id] = Disposed(s[k].findings[id], s[x].resolution.disp)
        BY SinceAt
      <4> HIDE DEF S
      <4> QED BY <3>1, <4>1
    <3> HIDE DEF d, C, S
    <3>5. Disposed(c[k].findings[id], d) = Disposed(s[k].findings[id], d)
      <4>1. CASE c[k].findings[id] = s[k].findings[id]
        BY <4>1
      <4>2. ASSUME NEW e, c[k].findings[id] = Disposed(s[k].findings[id], e)
            PROVE  Disposed(c[k].findings[id], d)
                       = Disposed(s[k].findings[id], d)
        <5>1. Disposed(Disposed(s[k].findings[id], e), d)
                  = Disposed(s[k].findings[id], d)
          BY SetTwice
        <5> QED BY <4>2, <5>1
      <4> QED BY <4>1, <4>2
    <3> QED BY <3>3, <3>4, <3>5
  <2> HIDE DEF C, S
  <2>5. k \in 1..Len(s)
    OBVIOUS
  <2> QED BY <2>3, <2>4, <2>5, LatestOverride
<1> HIDE DEF C, S
<1> QED BY <1>1, <1>2 DEF C, S

\* What is waived depends on the resolutions alone.
LEMMA WaiversSame ==
    ASSUME NEW c, NEW s, Chained(c), Chained(s), Len(c) = Len(s),
           \A i \in 1..Len(s) : c[i].resolution = s[i].resolution
    PROVE  ActiveWaivers(c) = ActiveWaivers(s)
<1> DEFINE Op(r, w) == /\ r.resolution # None
                       /\ r.resolution.op # "OVERRIDE"
                       /\ r.resolution.scope = w
           I(e, w) == {i \in 1..Len(e) : Op(e[i], w)}
           last(e, w) == SelectLastInSeq(e, LAMBDA r : Op(r, w))
           scopes(e) == {e[i].resolution.scope :
                            i \in {j \in DOMAIN e : e[j].resolution # None}}
           granted(e, w) == last(e, w) # 0 /\ e[last(e, w)].resolution.op = "GRANT"
<1>1. /\ ActiveWaivers(c) = {w \in scopes(c) : granted(c, w)}
      /\ ActiveWaivers(s) = {w \in scopes(s) : granted(s, w)}
  BY DEF ActiveWaivers
<1>2. scopes(c) = scopes(s)
  <2>1. {j \in DOMAIN c : c[j].resolution # None} = {j \in DOMAIN s : s[j].resolution # None}
    BY DEF Chained
  <2>2. \A j \in DOMAIN s : c[j].resolution = s[j].resolution
    BY DEF Chained
  <2> QED BY <2>1, <2>2
<1>3. ASSUME NEW w PROVE granted(c, w) <=> granted(s, w)
  <2>1. /\ last(c, w) = IF I(c, w) # {} THEN Max(I(c, w)) ELSE 0
        /\ last(s, w) = IF I(s, w) # {} THEN Max(I(s, w)) ELSE 0
    BY DEF SelectLastInSeq
  <2>2. I(c, w) = I(s, w) /\ I(s, w) \subseteq 1..Len(s)
    OBVIOUS
  <2>3. I(s, w) # {} => Max(I(s, w)) \in I(s, w)
    <3> HIDE DEF I
    <3> QED BY <2>2, MaxOf DEF Chained
  <2> HIDE DEF I
  <2>4. last(c, w) = last(s, w) /\ (last(s, w) # 0 => last(s, w) \in 1..Len(s))
    BY <2>1, <2>2, <2>3
  <2> HIDE DEF last
  <2> QED BY <2>4
<1> HIDE DEF granted, scopes
<1> QED BY <1>1, <1>2, <1>3

\* The findings of chains with the same records.
LEMMA FindingsSame ==
    ASSUME NEW c, NEW s, Chained(c), Chained(s), Len(c) = Len(s),
           \A i \in 1..Len(s) : Told(c[i], s[i]) /\ c[i].findings = s[i].findings
    PROVE  Findings(c) = Findings(s)
<1>1. \A i \in 1..Len(s) : /\ c[i].resolution = s[i].resolution
                           /\ c[i].findings = s[i].findings
                           /\ SetsFindings(c[i]) <=> SetsFindings(s[i])
  BY DEF Told, SameBut, SetsFindings
<1>2. CASE \A i \in 1..Len(s) : ~SetsFindings(s[i])
  <2>1. \A i \in 1..Len(c) : ~SetsFindings(c[i])
    BY <1>1, <1>2
  <2>2. Findings(c) = NoMap
    BY <2>1, FindingsAt
  <2>3. Findings(s) = NoMap
    BY <1>2, FindingsAt
  <2> QED BY <2>2, <2>3
<1>3. CASE \E k \in 1..Len(s) :
              SetsFindings(s[k]) /\ \A i \in (k + 1)..Len(s) : ~SetsFindings(s[i])
  <2>1. PICK k \in 1..Len(s) :
            SetsFindings(s[k]) /\ \A i \in (k + 1)..Len(s) : ~SetsFindings(s[i])
    BY <1>3
  <2>2. \A i \in (k + 1)..Len(s) : i \in 1..Len(s)
    BY DEF Chained
  <2>3. Findings(s) = FindingsSince(s, k)
    BY <2>1, FindingsAt
  <2>4. Findings(c) = FindingsSince(c, k)
    <3>1. k \in 1..Len(c) /\ SetsFindings(c[k])
          /\ \A i \in (k + 1)..Len(c) : ~SetsFindings(c[i])
      BY <1>1, <2>1, <2>2
    <3> QED BY <3>1, FindingsAt
  <2>5. FindingsSince(c, k) = FindingsSince(s, k)
    BY <1>1, SinceSame
  <2> QED BY <2>3, <2>4, <2>5
<1> QED BY <1>2, <1>3, LatestList

-----------------------------------------------------------------------------
(* What HMA found itself.                                                  *)

LEMMA DisposedFacts ==
    ASSUME NEW f, NEW d, DOMAIN f = {"disp", "unit"}
    PROVE  /\ DOMAIN Disposed(f, d) = {"disp", "unit"}
           /\ Disposed(f, d).disp = d /\ Disposed(f, d).unit = f.unit
BY DEF Disposed

LEMMA ChainChained == ASSUME NEW c, IsChain(c) PROVE Chained(c)
BY DEF IsChain, Chained

\* The records before the next one, as a chain.
LEMMA BeforeChained ==
    ASSUME NEW c, IsChain(c), NEW i \in 1..(Len(c) + 1)
    PROVE  /\ Chained(Before(c, i)) /\ Len(Before(c, i)) = i - 1
           /\ \A j \in 1..(i - 1) : Before(c, i)[j] = c[j] /\ j \in 1..Len(c)
<1>1. Len(c) \in Nat
  BY DEF IsChain
<1>2. Len(Before(c, i)) = i - 1 /\ \A j \in 1..(i - 1) : Before(c, i)[j] = c[j]
  BY BeforeRecord
<1>3. DOMAIN Before(c, i) = 1..(i - 1)
  BY <1>1 DEF Before
<1>4. i - 1 \in Nat /\ \A j \in 1..(i - 1) : j \in 1..Len(c)
  BY <1>1
<1> QED BY <1>2, <1>3, <1>4 DEF Chained

LEMMA HeldPrefix ==
    ASSUME NEW c, IsChain(c), Held(c), NEW i \in 1..(Len(c) + 1)
    PROVE  Held(Before(c, i))
<1> DEFINE b == Before(c, i)
<1>1. /\ Len(b) = i - 1 /\ Len(c) \in Nat
      /\ \A j \in 1..(i - 1) : b[j] = c[j] /\ j \in 1..Len(c)
  BY BeforeChained DEF IsChain
<1>2. \A j \in 1..Len(b) : \A k \in 1..(j - 1) : k \in 1..(i - 1)
  BY <1>1
<1> HIDE DEF b
<1> SUFFICES ASSUME NEW j \in 1..Len(b)
             PROVE  /\ \A id \in DOMAIN b[j].findings :
                          /\ DOMAIN b[j].findings[id] = {"disp", "unit"}
                          /\ id.by = None => /\ b[j].findings[id].disp = "BLOCK"
                                             /\ b[j].findings[id].unit = None
                    /\ ~b[j].snapshot /\ b[j].findings # NoMap =>
                          \E id \in DOMAIN b[j].findings : id.by = None
                    /\ SetsFindings(b[j]) =>
                          \A k \in 1..(j - 1) : \A id \in DOMAIN b[k].findings :
                              id.by = None => id \in DOMAIN b[j].findings
                    /\ \A id : Overrides(b[j], id) =>
                          id.by # None /\ b[j].resolution.disp # "BLOCK"
  BY DEF Held, b
<1>3. j \in 1..Len(c) /\ b[j] = c[j] /\ \A k \in 1..(j - 1) : b[k] = c[k]
  BY <1>1, <1>2
<1> QED BY <1>3 DEF Held

LEMMA HeldOf ==
    ASSUME NEW s, IsChain(s), AllReviewed(s)
    PROVE  Held(s)
<1> SUFFICES ASSUME NEW i \in 1..Len(s)
             PROVE  /\ \A id \in DOMAIN s[i].findings :
                          /\ DOMAIN s[i].findings[id] = {"disp", "unit"}
                          /\ id.by = None => /\ s[i].findings[id].disp = "BLOCK"
                                             /\ s[i].findings[id].unit = None
                    /\ ~s[i].snapshot /\ s[i].findings # NoMap =>
                          \E id \in DOMAIN s[i].findings : id.by = None
                    /\ SetsFindings(s[i]) =>
                          \A j \in 1..(i - 1) : \A id \in DOMAIN s[j].findings :
                              id.by = None => id \in DOMAIN s[i].findings
                    /\ \A id : Overrides(s[i], id) =>
                          id.by # None /\ s[i].resolution.disp # "BLOCK"
  BY DEF Held
<1>1. HmaHeld(Before(s, i), s[i])
  BY DEF AllReviewed, Reviewed
<1>2. /\ DOMAIN Before(s, i) = 1..(i - 1)
      /\ \A j \in 1..(i - 1) : Before(s, i)[j] = s[j]
  BY BeforeFacts
<1> QED BY <1>1, <1>2 DEF HmaHeld, Overrides

\* Each record of such a chain holds it.
LEMMA HeldRecord ==
    ASSUME NEW c, IsChain(c), Held(c), NEW i \in 1..Len(c)
    PROVE  HmaHeld(Before(c, i), c[i])
<1>1. /\ DOMAIN Before(c, i) = 1..(i - 1)
      /\ \A j \in 1..(i - 1) : Before(c, i)[j] = c[j]
  BY BeforeFacts
<1>2. \A id : Overrides(c[i], id) => id.by # None /\ c[i].resolution.disp # "BLOCK"
  BY DEF Held
<1>3. c[i].resolution # None /\ c[i].resolution.op = "OVERRIDE" =>
          c[i].resolution.scope.target.by # None /\ c[i].resolution.disp # "BLOCK"
  BY <1>2 DEF Overrides
<1>4. /\ \A id \in DOMAIN c[i].findings :
            /\ DOMAIN c[i].findings[id] = {"disp", "unit"}
            /\ id.by = None =>
                  c[i].findings[id].disp = "BLOCK" /\ c[i].findings[id].unit = None
      /\ ~c[i].snapshot /\ c[i].findings # NoMap =>
            \E id \in DOMAIN c[i].findings : id.by = None
      /\ SetsFindings(c[i]) => \A j \in 1..(i - 1) : \A id \in DOMAIN c[j].findings :
            id.by = None => id \in DOMAIN c[i].findings
  BY DEF Held
<1> QED BY <1>1, <1>3, <1>4 DEF HmaHeld

\* What HMA found stands in the findings of the chain.
LEMMA HeldFindings ==
    ASSUME NEW c, Chained(c), Held(c)
    PROVE  /\ \A i \in 1..Len(c) : \A id \in DOMAIN c[i].findings :
                 id.by = None => id \in DOMAIN Findings(c)
           /\ \A id \in DOMAIN Findings(c) :
                 /\ DOMAIN Findings(c)[id] = {"disp", "unit"}
                 /\ id.by = None =>
                       Findings(c)[id].disp = "BLOCK" /\ Findings(c)[id].unit = None
<1>1. CASE \A i \in 1..Len(c) : ~SetsFindings(c[i])
  <2>1. Findings(c) = NoMap /\ DOMAIN NoMap = {}
    BY <1>1, FindingsAt DEF NoMap
  <2>2. \A i \in 1..Len(c) : DOMAIN c[i].findings = {}
    BY <1>1, <2>1 DEF SetsFindings
  <2> QED BY <2>1, <2>2
<1>2. CASE \E k \in 1..Len(c) :
              SetsFindings(c[k]) /\ \A i \in (k + 1)..Len(c) : ~SetsFindings(c[i])
  <2>1. PICK k \in 1..Len(c) :
            SetsFindings(c[k]) /\ \A i \in (k + 1)..Len(c) : ~SetsFindings(c[i])
    BY <1>2
  <2>2. Findings(c) = FindingsSince(c, k)
    BY <2>1, FindingsAt
  <2>3. DOMAIN FindingsSince(c, k) = DOMAIN c[k].findings
    BY SinceAt
  <2>4. /\ \A id \in DOMAIN c[k].findings :
              /\ DOMAIN c[k].findings[id] = {"disp", "unit"}
              /\ id.by = None =>
                    c[k].findings[id].disp = "BLOCK" /\ c[k].findings[id].unit = None
        /\ \A j \in 1..(k - 1) : \A id \in DOMAIN c[j].findings :
              id.by = None => id \in DOMAIN c[k].findings
    BY <2>1 DEF Held
  <2>5. \A j \in (k + 1)..Len(c) : j \in 1..Len(c) /\ DOMAIN c[j].findings = {}
    BY <2>1 DEF Chained, SetsFindings, NoMap
  <2>6. \A i \in 1..Len(c) : i \in 1..(k - 1) \/ i = k \/ i \in (k + 1)..Len(c)
    BY DEF Chained
  <2>7. \A i \in 1..Len(c) : \A id \in DOMAIN c[i].findings :
            id.by = None => id \in DOMAIN Findings(c)
    BY <2>2, <2>3, <2>4, <2>5, <2>6
  <2>8. ASSUME NEW id \in DOMAIN c[k].findings
        PROVE  LET f == FindingsSince(c, k)[id] IN
               /\ DOMAIN f = {"disp", "unit"}
               /\ id.by = None => f.disp = "BLOCK" /\ f.unit = None
    <3> DEFINE f == FindingsSince(c, k)[id]
    <3>1. CASE \A j \in (k + 1)..Len(c) : ~Overrides(c[j], id)
      <4>1. f = c[k].findings[id]
        BY <3>1, SinceAt
      <4> QED BY <2>4, <4>1
    <3>2. CASE \E j \in (k + 1)..Len(c) :
                  Overrides(c[j], id) /\ \A i \in (j + 1)..Len(c) : ~Overrides(c[i], id)
      <4>1. PICK j \in (k + 1)..Len(c) :
                Overrides(c[j], id) /\ \A i \in (j + 1)..Len(c) : ~Overrides(c[i], id)
        BY <3>2
      <4>2. f = Disposed(c[k].findings[id], c[j].resolution.disp)
        BY <4>1, SinceAt
      <4>3. id.by # None
        BY <2>5, <4>1 DEF Held
      <4> HIDE DEF f
      <4>4. DOMAIN f = {"disp", "unit"}
        BY <2>4, <4>2, DisposedFacts
      <4> QED BY <4>3, <4>4 DEF f
    <3> QED BY <3>1, <3>2, LatestOverride
  <2> QED BY <2>2, <2>3, <2>7, <2>8
<1> QED BY <1>1, <1>2, LatestList

\* The findings HMA made are in the chain for good.
LEMMA HeldStays ==
    ASSUME IsChain(chain), Held(chain)
    PROVE  UnauthorizedStays
<1> SUFFICES ASSUME NEW i \in DOMAIN chain,
                    NEW id \in DOMAIN Findings(SubSeq(chain, 1, i)), id.by = None
             PROVE  id \in DOMAIN Findings(chain) /\ Findings(chain)[id].disp = "BLOCK"
  BY DEF UnauthorizedStays
<1> DEFINE c == chain
           b == Before(c, i + 1)
<1>1. Chained(c) /\ i \in 1..Len(c) /\ i + 1 \in 1..(Len(c) + 1) /\ (i + 1) - 1 = i
  BY DEF IsChain, Chained
<1>2. b = SubSeq(chain, 1, i)
  BY <1>1 DEF Before
<1>3. Chained(b) /\ Len(b) = i /\ \A j \in 1..i : b[j] = c[j] /\ j \in 1..Len(c)
  BY <1>1, BeforeChained
<1> HIDE DEF b
<1>4. PICK j \in 1..i : id \in DOMAIN b[j].findings
  <2>1. CASE \A j \in 1..Len(b) : ~SetsFindings(b[j])
    <3>1. Findings(b) = NoMap /\ DOMAIN NoMap = {}
      BY <1>3, <2>1, FindingsAt DEF NoMap
    <3> QED BY <1>2, <3>1
  <2>2. CASE \E k \in 1..Len(b) :
                SetsFindings(b[k]) /\ \A j \in (k + 1)..Len(b) : ~SetsFindings(b[j])
    <3>1. PICK k \in 1..Len(b) :
              SetsFindings(b[k]) /\ \A j \in (k + 1)..Len(b) : ~SetsFindings(b[j])
      BY <2>2
    <3>2. Findings(b) = FindingsSince(b, k)
      BY <1>3, <3>1, FindingsAt
    <3>3. DOMAIN FindingsSince(b, k) = DOMAIN b[k].findings
      BY <1>3, SinceAt
    <3> QED BY <1>2, <1>3, <3>2, <3>3
  <2> QED BY <1>3, <2>1, <2>2, LatestList
<1>5. j \in 1..Len(c) /\ id \in DOMAIN c[j].findings
  BY <1>3, <1>4
<1> HIDE DEF c
<1>6. Held(c)
  BY DEF c
<1> QED BY <1>1, <1>5, <1>6, HeldFindings DEF c

-----------------------------------------------------------------------------
(* A replay that is written back respects what the records respected.      *)

LEMMA RewrittenFacts ==
    ASSUME NEW c, NEW s, Rewritten(c, s), NEW i \in 1..Len(s)
    PROVE  /\ Told(c[i], s[i])
           /\ SetsFindings(c[i]) <=> SetsFindings(s[i])
           /\ DOMAIN c[i].findings = DOMAIN s[i].findings
           /\ c[i].findings # NoMap <=> s[i].findings # NoMap
           /\ \/ c[i].findings = s[i].findings
              \/ ~s[i].snapshot /\ s[i].findings # NoMap
           /\ \A id \in DOMAIN s[i].findings :
                 c[i].findings[id] = s[i].findings[id] \/ Overridden(c, s, i, id)
<1>1. /\ Told(c[i], s[i])
      /\ \/ c[i].findings = s[i].findings
         \/ /\ ~s[i].snapshot
            /\ c[i].findings # NoMap /\ s[i].findings # NoMap
            /\ DOMAIN c[i].findings = DOMAIN s[i].findings
            /\ \A id \in DOMAIN s[i].findings :
                  c[i].findings[id] = s[i].findings[id] \/ Overridden(c, s, i, id)
  BY DEF Rewritten
<1>2. c[i].snapshot = s[i].snapshot
  BY <1>1 DEF Told
<1> QED BY <1>1, <1>2 DEF SetsFindings

\* What HMA found is overwritten by nothing.
LEMMA HeldRewritten ==
    ASSUME NEW c, NEW s, Len(s) \in Nat, Held(s), Rewritten(c, s)
    PROVE  Held(c)
<1>1. Len(c) = Len(s)
  BY DEF Rewritten
<1>2. \A i \in 1..Len(s) : \A j \in 1..(i - 1) : j \in 1..Len(s)
  OBVIOUS
<1> SUFFICES ASSUME NEW i \in 1..Len(s)
             PROVE  /\ \A id \in DOMAIN c[i].findings :
                          /\ DOMAIN c[i].findings[id] = {"disp", "unit"}
                          /\ id.by = None => /\ c[i].findings[id].disp = "BLOCK"
                                             /\ c[i].findings[id].unit = None
                    /\ ~c[i].snapshot /\ c[i].findings # NoMap =>
                          \E id \in DOMAIN c[i].findings : id.by = None
                    /\ SetsFindings(c[i]) =>
                          \A j \in 1..(i - 1) : \A id \in DOMAIN c[j].findings :
                              id.by = None => id \in DOMAIN c[i].findings
                    /\ \A id : Overrides(c[i], id) =>
                          id.by # None /\ c[i].resolution.disp # "BLOCK"
  BY <1>1 DEF Held
<1>3. /\ \A id \in DOMAIN s[i].findings :
            /\ DOMAIN s[i].findings[id] = {"disp", "unit"}
            /\ id.by = None =>
                  s[i].findings[id].disp = "BLOCK" /\ s[i].findings[id].unit = None
      /\ ~s[i].snapshot /\ s[i].findings # NoMap =>
            \E id \in DOMAIN s[i].findings : id.by = None
      /\ SetsFindings(s[i]) => \A j \in 1..(i - 1) : \A id \in DOMAIN s[j].findings :
            id.by = None => id \in DOMAIN s[i].findings
      /\ \A id : Overrides(s[i], id) => id.by # None /\ s[i].resolution.disp # "BLOCK"
  BY DEF Held
<1>4. /\ DOMAIN c[i].findings = DOMAIN s[i].findings
      /\ SetsFindings(c[i]) <=> SetsFindings(s[i])
      /\ c[i].findings # NoMap <=> s[i].findings # NoMap
      /\ c[i].snapshot = s[i].snapshot /\ c[i].resolution = s[i].resolution
  BY RewrittenFacts DEF Told, SameBut
<1>5. \A j \in 1..(i - 1) : DOMAIN c[j].findings = DOMAIN s[j].findings
  BY <1>2, RewrittenFacts
<1>6. ASSUME NEW id \in DOMAIN s[i].findings
      PROVE  /\ DOMAIN c[i].findings[id] = {"disp", "unit"}
             /\ id.by = None =>
                   c[i].findings[id].disp = "BLOCK" /\ c[i].findings[id].unit = None
  <2>1. CASE c[i].findings[id] = s[i].findings[id]
    BY <1>3, <2>1
  <2>2. CASE Overridden(c, s, i, id)
    <3>1. PICK j \in (i + 1)..Len(s) :
              /\ Overrides(s[j], id)
              /\ c[i].findings[id] = Disposed(s[i].findings[id], s[j].resolution.disp)
      BY <2>2 DEF Overridden
    <3>2. j \in 1..Len(s)
      OBVIOUS
    <3>3. id.by # None
      BY <3>1, <3>2 DEF Held
    <3>4. DOMAIN c[i].findings[id] = {"disp", "unit"}
      <4> DEFINE f == s[i].findings[id]
                 d == s[j].resolution.disp
      <4>1. DOMAIN f = {"disp", "unit"}
        BY <1>3
      <4>2. c[i].findings[id] = Disposed(f, d)
        BY <3>1
      <4> HIDE DEF f, d
      <4>3. DOMAIN Disposed(f, d) = {"disp", "unit"}
        BY <4>1, DisposedFacts
      <4> QED BY <4>2, <4>3
    <3> QED BY <3>3, <3>4
  <2> QED BY <2>1, <2>2, RewrittenFacts
<1>7. \A id : Overrides(c[i], id) => id.by # None /\ c[i].resolution.disp # "BLOCK"
  BY <1>3, <1>4 DEF Overrides
<1>8. SetsFindings(c[i]) => \A j \in 1..(i - 1) : \A id \in DOMAIN c[j].findings :
          id.by = None => id \in DOMAIN c[i].findings
  BY <1>3, <1>4, <1>5
<1>9. ~c[i].snapshot /\ c[i].findings # NoMap =>
          \E id \in DOMAIN c[i].findings : id.by = None
  BY <1>3, <1>4
<1> QED BY <1>4, <1>6, <1>7, <1>8, <1>9

\* b and t are what comes before the i-th record, of chain c and of chain s.
Befores(b, t, c, s, i) ==
    /\ Chained(b) /\ Len(b) = i - 1 /\ Chained(t) /\ Len(t) = i - 1
    /\ \A j \in 1..(i - 1) : b[j] = c[j] /\ t[j] = s[j] /\ j \in 1..Len(s)

LEMMA BothBefore ==
    ASSUME NEW c, NEW s, IsChain(c), IsChain(s), Rewritten(c, s), NEW i \in 1..Len(s)
    PROVE  Befores(Before(c, i), Before(s, i), c, s, i)
<1>1. Len(c) = Len(s) /\ Len(s) \in Nat
  BY DEF Rewritten, IsChain
<1>2. i \in 1..(Len(s) + 1) /\ i \in 1..(Len(c) + 1)
  BY <1>1
<1>3. /\ Chained(Before(c, i)) /\ Len(Before(c, i)) = i - 1
      /\ \A j \in 1..(i - 1) : Before(c, i)[j] = c[j]
  BY <1>2, BeforeChained
<1>4. /\ Chained(Before(s, i)) /\ Len(Before(s, i)) = i - 1
      /\ \A j \in 1..(i - 1) : Before(s, i)[j] = s[j] /\ j \in 1..Len(s)
  BY <1>2, BeforeChained
<1> QED BY <1>3, <1>4 DEF Befores

\* A new list of findings follows the findings it followed.
LEMMA ListsAgree ==
    ASSUME NEW c, NEW s, IsChain(c), IsChain(s), Rewritten(c, s), NEW i \in 1..Len(s),
           SetsFindings(s[i])
    PROVE  Findings(Before(c, i)) = Findings(Before(s, i))
<1> DEFINE b == Before(c, i)
           t == Before(s, i)
<1>1. /\ Chained(b) /\ Len(b) = i - 1 /\ Chained(t) /\ Len(t) = i - 1
      /\ \A j \in 1..(i - 1) : b[j] = c[j] /\ t[j] = s[j] /\ j \in 1..Len(s)
  <2>1. Befores(b, t, c, s, i)
    BY BothBefore
  <2> HIDE DEF b, t
  <2> QED BY <2>1 DEF Befores
<1> HIDE DEF b, t
<1>2. \A j \in 1..(i - 1) : /\ SetsFindings(b[j]) <=> SetsFindings(t[j])
                            /\ b[j].resolution = t[j].resolution
                            /\ DOMAIN b[j].findings = DOMAIN t[j].findings
  BY <1>1, RewrittenFacts DEF Told, SameBut
<1>3. CASE \A j \in 1..Len(t) : ~SetsFindings(t[j])
  <2>1. \A j \in 1..Len(b) : ~SetsFindings(b[j])
    BY <1>1, <1>2, <1>3
  <2>2. Findings(b) = NoMap
    BY <1>1, <2>1, FindingsAt
  <2>3. Findings(t) = NoMap
    BY <1>1, <1>3, FindingsAt
  <2> QED BY <2>2, <2>3 DEF b, t
<1>4. CASE \E k \in 1..Len(t) :
              SetsFindings(t[k]) /\ \A j \in (k + 1)..Len(t) : ~SetsFindings(t[j])
  <2>1. PICK k \in 1..Len(t) :
            SetsFindings(t[k]) /\ \A j \in (k + 1)..Len(t) : ~SetsFindings(t[j])
    BY <1>4
  <2>2. k \in 1..Len(b) /\ k \in 1..(i - 1)
        /\ \A j \in (k + 1)..Len(b) : j \in 1..(i - 1) /\ j \in (k + 1)..Len(t)
    BY <1>1
  <2>3. Findings(t) = FindingsSince(t, k)
    BY <1>1, <2>1, FindingsAt
  <2>4. SetsFindings(b[k]) /\ \A j \in (k + 1)..Len(b) : ~SetsFindings(b[j])
    BY <1>2, <2>1, <2>2
  <2>5. Findings(b) = FindingsSince(b, k)
    BY <1>1, <2>2, <2>4, FindingsAt
  <2>6. ASSUME NEW id \in DOMAIN t[k].findings
        PROVE  \/ b[k].findings[id] = t[k].findings[id]
               \/ \E j \in (k + 1)..Len(t) :
                     /\ Overrides(t[j], id)
                     /\ b[k].findings[id]
                            = Disposed(t[k].findings[id], t[j].resolution.disp)
    <3>1. k \in 1..Len(s) /\ b[k] = c[k] /\ t[k] = s[k]
      BY <1>1, <2>2
    <3>2. c[k].findings[id] = s[k].findings[id] \/ Overridden(c, s, k, id)
      BY <3>1, RewrittenFacts
    <3>3. ASSUME Overridden(c, s, k, id)
          PROVE  \E j \in (k + 1)..Len(t) :
                     /\ Overrides(t[j], id)
                     /\ b[k].findings[id]
                            = Disposed(t[k].findings[id], t[j].resolution.disp)
      <4>1. PICK j \in (k + 1)..Len(s) :
                /\ Overrides(s[j], id)
                /\ \A m \in (k + 1)..j : ~SetsFindings(s[m])
                /\ c[k].findings[id] = Disposed(s[k].findings[id], s[j].resolution.disp)
        BY <3>3 DEF Overridden
      <4>2. Len(s) \in Nat /\ Len(t) = i - 1 /\ k \in 1..(i - 1)
        BY <1>1, <2>2 DEF IsChain
      <4>3. j < i
        BY <4>1, <4>2
      <4>4. j \in (k + 1)..Len(t) /\ j \in 1..(i - 1)
        BY <4>2, <4>3
      <4>5. t[j] = s[j]
        BY <1>1, <4>4
      <4> QED BY <3>1, <4>1, <4>4, <4>5
    <3> QED BY <3>1, <3>2, <3>3
  <2>7. FindingsSince(b, k) = FindingsSince(t, k)
    <3>1. \A j \in 1..Len(t) : b[j].resolution = t[j].resolution
      BY <1>1, <1>2
    <3>2. DOMAIN b[k].findings = DOMAIN t[k].findings
      BY <1>2, <2>2
    <3> QED BY <1>1, <2>6, <3>1, <3>2, SinceSame
  <2> QED BY <2>3, <2>5, <2>7 DEF b, t
<1> QED BY <1>1, <1>3, <1>4, LatestList DEF b, t

\* What may be waived still may be.
LEMMA StaysWaivable ==
    ASSUME NEW c, NEW s, IsChain(c), IsChain(s), Rewritten(c, s), Held(s), Held(c),
           NEW i \in 1..Len(s), NEW id \in DOMAIN Findings(Before(s, i)),
           Findings(Before(s, i))[id].disp # "BLOCK"
    PROVE  /\ id \in DOMAIN Findings(Before(c, i))
           /\ Findings(Before(c, i))[id].disp # "BLOCK"
<1> DEFINE b == Before(c, i)
           t == Before(s, i)
<1>1. /\ Chained(b) /\ Len(b) = i - 1 /\ Chained(t) /\ Len(t) = i - 1
      /\ \A j \in 1..(i - 1) : b[j] = c[j] /\ t[j] = s[j] /\ j \in 1..Len(s)
  <2>1. Befores(b, t, c, s, i)
    BY BothBefore
  <2> HIDE DEF b, t
  <2> QED BY <2>1 DEF Befores
<1>0. id \in DOMAIN Findings(t) /\ Findings(t)[id].disp # "BLOCK"
  OBVIOUS
<1> HIDE DEF b, t
<1>2. \A j \in 1..(i - 1) : /\ SetsFindings(b[j]) <=> SetsFindings(t[j])
                            /\ b[j].resolution = t[j].resolution
                            /\ DOMAIN b[j].findings = DOMAIN t[j].findings
  BY <1>1, RewrittenFacts DEF Told, SameBut
<1>3. CASE \A j \in 1..Len(t) : ~SetsFindings(t[j])
  <2>1. Findings(t) = NoMap /\ DOMAIN NoMap = {}
    BY <1>1, <1>3, FindingsAt DEF NoMap
  <2> QED BY <1>0, <2>1
<1>4. CASE \E k \in 1..Len(t) :
              SetsFindings(t[k]) /\ \A j \in (k + 1)..Len(t) : ~SetsFindings(t[j])
  <2>1. PICK k \in 1..Len(t) :
            SetsFindings(t[k]) /\ \A j \in (k + 1)..Len(t) : ~SetsFindings(t[j])
    BY <1>4
  <2>2. k \in 1..Len(b) /\ k \in 1..(i - 1)
        /\ \A j \in (k + 1)..Len(b) : j \in 1..(i - 1) /\ j \in (k + 1)..Len(t)
    BY <1>1
  <2>3. Findings(t) = FindingsSince(t, k)
    BY <1>1, <2>1, FindingsAt
  <2>4. SetsFindings(b[k]) /\ \A j \in (k + 1)..Len(b) : ~SetsFindings(b[j])
    BY <1>2, <2>1, <2>2
  <2>5. Findings(b) = FindingsSince(b, k)
    BY <1>1, <2>2, <2>4, FindingsAt
  <2>6. /\ DOMAIN FindingsSince(b, k) = DOMAIN b[k].findings
        /\ DOMAIN FindingsSince(t, k) = DOMAIN t[k].findings
    BY <1>1, <2>2, SinceAt
  <2>7. id \in DOMAIN t[k].findings /\ id \in DOMAIN b[k].findings
    BY <1>0, <1>2, <2>2, <2>3, <2>6
  <2>8. k \in 1..Len(s) /\ b[k] = c[k] /\ t[k] = s[k]
    BY <1>1, <2>2
  <2>9. DOMAIN b[k].findings[id] = {"disp", "unit"}
    <3>1. k \in 1..Len(c)
      BY <2>8 DEF Rewritten
    <3> QED BY <2>7, <2>8, <3>1 DEF Held
  <2>10. DOMAIN t[k].findings[id] = {"disp", "unit"}
    BY <2>7, <2>8 DEF Held
  <2> DEFINE B == FindingsSince(b, k)
             T == FindingsSince(t, k)
  <2>11. CASE \A j \in (k + 1)..Len(t) : ~Overrides(t[j], id)
    <3>1. T[id] = t[k].findings[id]
      BY <1>1, <2>7, <2>11, SinceAt
    <3>2. \A j \in (k + 1)..Len(b) : ~Overrides(b[j], id)
      BY <1>2, <2>2, <2>11 DEF Overrides
    <3>3. B[id] = b[k].findings[id]
      BY <1>1, <2>2, <2>7, <3>2, SinceAt
    <3> HIDE DEF B, T
    <3>4. b[k].findings[id].disp # "BLOCK"
      <4>1. CASE c[k].findings[id] = s[k].findings[id]
        BY <1>0, <2>3, <2>8, <3>1, <4>1 DEF T
      <4>2. CASE Overridden(c, s, k, id)
        <5>1. PICK j \in (k + 1)..Len(s) :
                  /\ Overrides(s[j], id)
                  /\ c[k].findings[id] = Disposed(s[k].findings[id], s[j].resolution.disp)
          BY <4>2 DEF Overridden
        <5>2. j \in 1..Len(s)
          BY <2>8 DEF IsChain
        <5>3. s[j].resolution.disp # "BLOCK"
          BY <5>1, <5>2 DEF Held
        <5> DEFINE f == s[k].findings[id]
                   d == s[j].resolution.disp
        <5>4. DOMAIN f = {"disp", "unit"} /\ b[k].findings[id] = Disposed(f, d)
          BY <2>8, <2>10, <5>1
        <5> HIDE DEF f
        <5>5. Disposed(f, d).disp = d
          BY <5>4, DisposedFacts
        <5> QED BY <5>3, <5>4, <5>5
      <4> QED BY <2>7, <2>8, <4>1, <4>2, RewrittenFacts
    <3> QED BY <2>5, <2>6, <2>7, <3>3, <3>4 DEF B, b
  <2>12. CASE \E j \in (k + 1)..Len(t) :
                Overrides(t[j], id) /\ \A m \in (j + 1)..Len(t) : ~Overrides(t[m], id)
    <3>1. PICK j \in (k + 1)..Len(t) :
              Overrides(t[j], id) /\ \A m \in (j + 1)..Len(t) : ~Overrides(t[m], id)
      BY <2>12
    <3>2. j \in 1..(i - 1) /\ j \in (k + 1)..Len(b)
          /\ \A m \in (j + 1)..Len(b) : m \in 1..(i - 1) /\ m \in (j + 1)..Len(t)
      BY <1>1, <2>2
    <3>3. Overrides(b[j], id) /\ \A m \in (j + 1)..Len(b) : ~Overrides(b[m], id)
      BY <1>2, <3>1, <3>2 DEF Overrides
    <3> DEFINE d == b[j].resolution.disp
               f == b[k].findings[id]
    <3>4. B[id] = Disposed(f, d)
      BY <1>1, <2>2, <2>7, <3>2, <3>3, SinceAt
    <3>5. d # "BLOCK"
      <4>1. j \in 1..Len(s) /\ t[j] = s[j]
        BY <1>1, <3>2
      <4>2. s[j].resolution.disp # "BLOCK"
        BY <3>1, <4>1 DEF Held
      <4> QED BY <1>2, <3>2, <4>1, <4>2
    <3>6. DOMAIN f = {"disp", "unit"}
      BY <2>9
    <3> HIDE DEF d, f, B
    <3>7. B[id].disp = d
      BY <3>4, <3>6, DisposedFacts
    <3> QED BY <2>5, <2>6, <2>7, <3>5, <3>7 DEF B, b
  <2> QED BY <1>1, <2>1, <2>11, <2>12, LatestOverride
<1> QED BY <1>1, <1>3, <1>4, LatestList

\* Findings none of which HMA made follow lists that nothing overwrote.
LEMMA Untouched ==
    ASSUME NEW c, NEW s, IsChain(c), IsChain(s), Rewritten(c, s), Held(s),
           NEW i \in 1..Len(s), \A id \in DOMAIN Findings(Before(s, i)) : id.by # None
    PROVE  /\ Findings(Before(c, i)) = Findings(Before(s, i))
           /\ ActiveWaivers(Before(c, i)) = ActiveWaivers(Before(s, i))
<1> DEFINE b == Before(c, i)
           t == Before(s, i)
<1>1. /\ Chained(b) /\ Len(b) = i - 1 /\ Chained(t) /\ Len(t) = i - 1
      /\ \A j \in 1..(i - 1) : b[j] = c[j] /\ t[j] = s[j] /\ j \in 1..Len(s)
  <2>1. Befores(b, t, c, s, i)
    BY BothBefore
  <2> HIDE DEF b, t
  <2> QED BY <2>1 DEF Befores
<1>2. Held(t)
  <2>1. i \in 1..(Len(s) + 1)
    BY DEF IsChain
  <2> QED BY <2>1, HeldPrefix
<1>3. \A id \in DOMAIN Findings(t) : id.by # None
  OBVIOUS
<1> HIDE DEF b, t
<1>4. \A j \in 1..Len(t) : Told(b[j], t[j]) /\ b[j].findings = t[j].findings
  <2> SUFFICES ASSUME NEW j \in 1..Len(t)
               PROVE  Told(b[j], t[j]) /\ b[j].findings = t[j].findings
    OBVIOUS
  <2>1. b[j] = c[j] /\ t[j] = s[j] /\ j \in 1..Len(s)
    BY <1>1
  <2>2. /\ Told(c[j], s[j])
        /\ \/ c[j].findings = s[j].findings
           \/ ~s[j].snapshot /\ s[j].findings # NoMap
    BY <2>1, RewrittenFacts
  <2>3. ASSUME ~s[j].snapshot, s[j].findings # NoMap PROVE FALSE
    <3>1. PICK id \in DOMAIN t[j].findings : id.by = None
      BY <1>2, <2>1, <2>3 DEF Held
    <3>2. id \in DOMAIN Findings(t)
      BY <1>1, <1>2, <3>1, HeldFindings
    <3> QED BY <1>3, <3>1, <3>2
  <2> QED BY <2>1, <2>2, <2>3
<1>5. Findings(b) = Findings(t)
  BY <1>1, <1>4, FindingsSame
<1>6. \A j \in 1..Len(t) : b[j].resolution = t[j].resolution
  BY <1>4 DEF Told, SameBut
<1>7. ActiveWaivers(b) = ActiveWaivers(t)
  BY <1>1, <1>6, WaiversSame
<1> QED BY <1>5, <1>7 DEF b, t

\* Nothing a record respected is lost when lists before it are overwritten.
LEMMA RewrittenReviewed ==
    ASSUME NEW c, NEW s, IsChain(c), IsChain(s), Rewritten(c, s), AllReviewed(s)
    PROVE  AllReviewed(c)
<1>1. Len(c) = Len(s) /\ Len(s) \in Nat
  BY DEF Rewritten, IsChain
<1>2. Held(s) /\ Held(c)
  BY <1>1, HeldOf, HeldRewritten
<1> SUFFICES ASSUME NEW i \in 1..Len(s)
             PROVE  Reviewed(Before(c, i), c[i])
  BY <1>1 DEF AllReviewed
<1> DEFINE b == Before(c, i)
           t == Before(s, i)
           q == c[i]
           r == s[i]
           FB == Findings(b)
           FT == Findings(t)
           AB == ActiveWaivers(b)
           AT == ActiveWaivers(t)
<1>3. /\ StopResolved(t, r) /\ ExitResolved(t, r) /\ WaiverAlternates(t, r)
      /\ ForeignKept(t, r) /\ HmaHeld(t, r)
  BY DEF AllReviewed, Reviewed
<1>4. /\ q.kind = r.kind /\ q.control = r.control /\ q.unit = r.unit
      /\ q.outcome = r.outcome /\ q.approval = r.approval
      /\ q.resolution = r.resolution /\ q.snapshot = r.snapshot
  BY RewrittenFacts DEF Told, SameBut
<1>5. (\A id \in DOMAIN FT : id.by # None) => FB = FT /\ AB = AT
  BY <1>2, Untouched
<1>6. \A id \in DOMAIN FT : id.by = None => FT[id].disp = "BLOCK" /\ FT[id].unit = None
  <2>1. i \in 1..(Len(s) + 1)
    BY <1>1
  <2>2. Held(t)
    BY <1>2, <2>1, HeldPrefix
  <2>3. Chained(t)
    BY <2>1, BeforeChained
  <2> HIDE DEF t
  <2> QED BY <2>2, <2>3, HeldFindings
<1>7. SetsFindings(r) => FB = FT
  BY ListsAgree
<1>8. AB = AT
  <2>1. /\ Chained(b) /\ Len(b) = i - 1 /\ Chained(t) /\ Len(t) = i - 1
        /\ \A j \in 1..(i - 1) : b[j] = c[j] /\ t[j] = s[j] /\ j \in 1..Len(s)
    <3>1. Befores(b, t, c, s, i)
      BY BothBefore
    <3> HIDE DEF b, t
    <3> QED BY <3>1 DEF Befores
  <2> HIDE DEF b, t
  <2>2. \A j \in 1..Len(t) : b[j].resolution = t[j].resolution
    BY <2>1, RewrittenFacts DEF Told, SameBut
  <2> QED BY <2>1, <2>2, WaiversSame
<1>9. \A id \in DOMAIN FT : FT[id].disp # "BLOCK" =>
          id \in DOMAIN FB /\ FB[id].disp # "BLOCK"
  BY <1>2, StaysWaivable
<1>10. r.snapshot => q.findings = r.findings
  BY RewrittenFacts
<1>11. StopResolved(b, q)
  <2> SUFFICES ASSUME r.outcome = "PARTIAL" PROVE StopResolved(b, q)
    BY <1>4 DEF StopResolved
  <2>1. /\ \A id \in DOMAIN FT : FT[id].disp # "BLOCK"
        /\ \A id \in DOMAIN FT : FT[id].disp = "WAIVABLE" =>
              [kind |-> "finding", target |-> id] \in AT
    BY <1>3 DEF StopResolved
  <2>2. FB = FT
    BY <1>5, <1>6, <2>1
  <2> HIDE DEF FB, FT, AB, AT
  <2>3. /\ \A id \in DOMAIN FB : FB[id].disp # "BLOCK"
        /\ \A id \in DOMAIN FB : FB[id].disp = "WAIVABLE" =>
              [kind |-> "finding", target |-> id] \in AB
    BY <1>8, <2>1, <2>2
  <2> QED BY <2>3 DEF StopResolved, FB, AB
<1>12. ExitResolved(b, q)
  <2> SUFFICES ASSUME Applied(r), ReviewEdge(r.approval) PROVE ExitResolved(b, q)
    BY <1>4 DEF ExitResolved, Applied
  <2>1. \A id \in DOMAIN FT : FT[id].unit \in {None, r.unit} =>
            \/ FT[id].disp = "ADVISORY"
            \/ /\ FT[id].disp = "WAIVABLE"
               /\ [kind |-> "finding", target |-> id] \in AT
    BY <1>3 DEF ExitResolved
  <2>2. FB = FT
    BY <1>5, <1>6, <2>1
  <2> HIDE DEF FB, FT, AB, AT
  <2>3. \A id \in DOMAIN FB : FB[id].unit \in {None, q.unit} =>
            \/ FB[id].disp = "ADVISORY"
            \/ /\ FB[id].disp = "WAIVABLE"
               /\ [kind |-> "finding", target |-> id] \in AB
    BY <1>4, <1>8, <2>1, <2>2
  <2> QED BY <2>3 DEF ExitResolved, FB, AB
<1>13. WaiverAlternates(b, q)
  <2> SUFFICES ASSUME r.kind = "waiver_operation" PROVE WaiverAlternates(b, q)
    BY <1>4 DEF WaiverAlternates
  <2> DEFINE o == r.resolution
  <2>1. /\ o.op = "GRANT" <=> o.scope \notin AT
        /\ o.op = "GRANT" /\ o.scope.kind = "finding" =>
              o.scope.target \in DOMAIN FT /\ FT[o.scope.target].disp # "BLOCK"
    BY <1>3 DEF WaiverAlternates
  <2> HIDE DEF FB, FT, AB, AT
  <2>2. /\ o.op = "GRANT" <=> o.scope \notin AB
        /\ o.op = "GRANT" /\ o.scope.kind = "finding" =>
              o.scope.target \in DOMAIN FB /\ FB[o.scope.target].disp # "BLOCK"
    BY <1>8, <1>9, <2>1
  <2> QED BY <1>4, <2>2 DEF WaiverAlternates, FB, AB
<1>14. ForeignKept(b, q)
  <2> SUFFICES ASSUME r.snapshot PROVE ForeignKept(b, q)
    BY <1>4 DEF ForeignKept
  <2>1. \A id \in DOMAIN FT : FT[id].unit # r.unit =>
            id \in DOMAIN r.findings /\ r.findings[id] = FT[id]
    BY <1>3 DEF ForeignKept
  <2>2. FB = FT
    BY <1>7 DEF SetsFindings
  <2> HIDE DEF FB, FT
  <2>3. \A id \in DOMAIN FB : FB[id].unit # q.unit =>
            id \in DOMAIN q.findings /\ q.findings[id] = FB[id]
    BY <1>4, <1>10, <2>1, <2>2
  <2> QED BY <2>3 DEF ForeignKept, FB
<1>15. HmaHeld(b, q)
  <2>1. i \in 1..Len(c)
    BY <1>1
  <2> HIDE DEF b, q
  <2> QED BY <1>2, <2>1, HeldRecord DEF b, q
<1> HIDE DEF b, q
<1> QED BY <1>11, <1>12, <1>13, <1>14, <1>15 DEF Reviewed, b, q

\* A replay that is written back is such a rewriting.
LEMMA ReplayRewrites ==
    ASSUME NEW c, IsChain(c), SpendsOnce(c), Held(c)
    PROVE  Rewritten(Replayed(c), c)
<1> DEFINE d == Replayed(c)
<1>1. Len(c) \in Nat /\ DOMAIN c = 1..Len(c) /\ Len(d) = Len(c)
  <2>1. Len(d) = Len(c) /\ Len(c) \in Nat
    BY ReplayedSpends
  <2> QED BY <2>1 DEF IsChain
<1> SUFFICES ASSUME NEW i \in 1..Len(c)
             PROVE  /\ Told(d[i], c[i])
                    /\ \/ d[i].findings = c[i].findings
                       \/ /\ ~c[i].snapshot
                          /\ d[i].findings # NoMap /\ c[i].findings # NoMap
                          /\ DOMAIN d[i].findings = DOMAIN c[i].findings
                          /\ \A id \in DOMAIN c[i].findings :
                                d[i].findings[id] = c[i].findings[id]
                                  \/ Overridden(d, c, i, id)
  BY <1>1 DEF Rewritten
<1> DEFINE later == {j \in (i + 1)..Len(c) : SetsFindings(c[j])}
           m == CHOOSE j \in later : \A k \in later : j <= k
           upTo == IF later = {} THEN c ELSE Before(c, m)
           fs == FindingsSince(upTo, i)
<1>2. d[i] = IF c[i].findings = NoMap \/ c[i].snapshot THEN c[i]
             ELSE [c[i] EXCEPT !.findings = fs]
  BY <1>1 DEF Replayed
<1>3. CASE c[i].findings = NoMap \/ c[i].snapshot
  <2>1. d[i] = c[i]
    BY <1>2, <1>3
  <2> QED BY <2>1 DEF Told, SameBut
<1>4. CASE c[i].findings # NoMap /\ ~c[i].snapshot
  <2>1. d[i] = [c[i] EXCEPT !.findings = fs]
    BY <1>2, <1>4
  <2>2. {"kind", "control", "stage", "unit", "outcome", "approval", "evidence",
         "resolution", "criteria", "findings", "snapshot", "sealed"} \subseteq DOMAIN c[i]
    <3>1. DOMAIN c[i] = DOMAIN Blank
      BY <1>1 DEF IsChain
    <3> QED BY <3>1 DEF Blank
  <2>3. \E L \in i..Len(c) : /\ Chained(upTo) /\ Len(upTo) = L
                             /\ \A j \in 1..L : upTo[j] = c[j]
                             /\ \A j \in (i + 1)..L : ~SetsFindings(c[j])
    <3>1. CASE later = {}
      <4>1. upTo = c /\ Chained(c) /\ Len(c) \in i..Len(c)
        BY <1>1, <3>1, ChainChained
      <4>2. \A j \in (i + 1)..Len(c) : ~SetsFindings(c[j])
        BY <3>1
      <4> HIDE DEF upTo, later
      <4> QED BY <4>1, <4>2
    <3>2. CASE later # {}
      <4>1. later \subseteq Nat
        BY <1>1
      <4>2. m \in later /\ \A k \in later : m <= k
        <5> HIDE DEF later
        <5>1. \E j \in later : \A k \in later : j <= k
          BY <3>2, <4>1, LeastOf
        <5> QED BY <5>1
      <4>3. m \in (i + 1)..Len(c) /\ \A j \in (i + 1)..(m - 1) : ~SetsFindings(c[j])
        <5>1. m \in (i + 1)..Len(c)
          BY <4>2
        <5>2. ASSUME NEW j \in (i + 1)..(m - 1), SetsFindings(c[j]) PROVE FALSE
          <6> HIDE DEF m
          <6>1. j \in later /\ j < m
            BY <1>1, <5>1, <5>2
          <6> HIDE DEF later
          <6> QED BY <1>1, <4>2, <5>1, <6>1
        <5> QED BY <5>1, <5>2
      <4> HIDE DEF m
      <4>4. m \in 1..(Len(c) + 1) /\ m - 1 \in i..Len(c)
        BY <1>1, <4>3
      <4>5. /\ Chained(Before(c, m)) /\ Len(Before(c, m)) = m - 1
            /\ \A j \in 1..(m - 1) : Before(c, m)[j] = c[j]
        BY <4>4, BeforeChained
      <4>6. upTo = Before(c, m)
        BY <3>2
      <4> HIDE DEF upTo, later
      <4> QED BY <4>3, <4>4, <4>5, <4>6
    <3> QED BY <3>1, <3>2
  <2> HIDE DEF upTo, later, m
  <2>4. PICK L \in i..Len(c) : /\ Chained(upTo) /\ Len(upTo) = L
                               /\ \A j \in 1..L : upTo[j] = c[j]
                               /\ \A j \in (i + 1)..L : ~SetsFindings(c[j])
    BY <2>3
  <2>5. i \in 1..Len(upTo) /\ upTo[i] = c[i]
        /\ \A j \in (i + 1)..L : j \in 1..L /\ j \in (i + 1)..Len(c)
    BY <1>1, <2>4
  <2>6. DOMAIN fs = DOMAIN c[i].findings
    BY <2>4, <2>5, SinceAt
  <2>7. fs # NoMap
    <3>1. \E id \in DOMAIN c[i].findings : id.by = None
      BY <1>4 DEF Held
    <3>2. DOMAIN NoMap = {}
      BY DEF NoMap
    <3> HIDE DEF fs
    <3> QED BY <2>6, <3>1, <3>2
  <2>8. d[i].findings = fs
    <3> HIDE DEF fs, d
    <3> QED BY <2>1, <2>2
  <2>9. Told(d[i], c[i])
    <3> HIDE DEF fs, d
    <3> QED BY <2>1, <2>2 DEF Told, SameBut
  <2>10. ASSUME NEW id \in DOMAIN c[i].findings
         PROVE  fs[id] = c[i].findings[id] \/ Overridden(d, c, i, id)
    <3>1. CASE \A j \in (i + 1)..Len(upTo) : ~Overrides(upTo[j], id)
      <4>1. fs[id] = upTo[i].findings[id]
        BY <2>4, <2>5, <3>1, SinceAt
      <4> QED BY <2>5, <4>1
    <3>2. CASE \E j \in (i + 1)..Len(upTo) : /\ Overrides(upTo[j], id)
                    /\ \A k \in (j + 1)..Len(upTo) : ~Overrides(upTo[k], id)
      <4>1. PICK j \in (i + 1)..Len(upTo) : /\ Overrides(upTo[j], id)
                    /\ \A k \in (j + 1)..Len(upTo) : ~Overrides(upTo[k], id)
        BY <3>2
      <4>2. fs[id] = Disposed(upTo[i].findings[id], upTo[j].resolution.disp)
        BY <2>4, <2>5, <4>1, SinceAt
      <4>3. j \in (i + 1)..Len(c) /\ upTo[j] = c[j]
        BY <2>4, <2>5
      <4>4. \A k \in (i + 1)..j : k \in (i + 1)..L
        BY <1>1, <2>4
      <4> HIDE DEF fs, d
      <4>5. d[i].findings[id] = Disposed(c[i].findings[id], c[j].resolution.disp)
        BY <2>5, <2>8, <4>2, <4>3
      <4> QED BY <2>4, <4>1, <4>3, <4>4, <4>5 DEF Overridden
    <3> QED BY <2>4, <2>5, <3>1, <3>2, LatestOverride
  <2> HIDE DEF fs, d
  <2> QED BY <1>4, <2>6, <2>7, <2>8, <2>9, <2>10
<1> QED BY <1>3, <1>4

-----------------------------------------------------------------------------
(* Records that respect what is there.                                     *)

\* A record without findings, which decides nothing.
Bare(r) ==
    /\ ~Applied(r) /\ r.outcome # "PARTIAL" /\ r.kind # "waiver_operation"
    /\ r.findings = NoMap /\ ~r.snapshot /\ r.resolution = None

LEMMA BareReviewed == ASSUME NEW c, NEW r, Bare(r) PROVE Reviewed(c, r)
<1>1. DOMAIN r.findings = {} /\ ~SetsFindings(r)
  BY DEF Bare, NoMap, SetsFindings
<1>2. StopResolved(c, r) /\ ExitResolved(c, r) /\ WaiverAlternates(c, r) /\ ForeignKept(c, r)
  BY DEF Bare, StopResolved, ExitResolved, WaiverAlternates, ForeignKept
<1>3. HmaHeld(c, r)
  BY <1>1 DEF Bare, HmaHeld
<1> QED BY <1>2, <1>3 DEF Reviewed

\* A chain continued by a record that respects it, and by bare ones.
LEMMA ContinuedReviewed ==
    ASSUME NEW c, IsChain(c), AllReviewed(c), NEW d, IsChain(d), Len(d) >= Len(c),
           \A i \in 1..Len(c) : d[i] = c[i],
           \A i \in (Len(c) + 1)..Len(d) :
               Bare(d[i]) \/ (i = Len(c) + 1 /\ Reviewed(c, d[i]))
    PROVE  AllReviewed(d)
<1>1. Len(c) \in Nat /\ Len(d) \in Nat
  BY DEF IsChain
<1>2. c = [j \in 1..Len(c) |-> c[j]]
  BY DEF IsChain
<1>3. ASSUME NEW e, IsChain(e), NEW i \in 1..(Len(e) + 1)
      PROVE  Before(e, i) = [j \in 1..(i - 1) |-> e[j]]
  <2>1. Before(e, i) = [j \in 1..Len(Before(e, i)) |-> Before(e, i)[j]]
    <3> DEFINE S == {e[j] : j \in DOMAIN e}
    <3>1. e \in Seq(S) /\ Len(e) \in Nat
      BY <1>3 DEF IsChain
    <3> HIDE DEF S
    <3>2. Before(e, i) \in Seq(S)
      BY <3>1 DEF Before
    <3> QED BY <3>2
  <2>2. Len(Before(e, i)) = i - 1 /\ \A j \in 1..(i - 1) : Before(e, i)[j] = e[j]
    BY <1>3, BeforeRecord
  <2> QED BY <2>1, <2>2
<1> SUFFICES ASSUME NEW i \in 1..Len(d) PROVE Reviewed(Before(d, i), d[i])
  BY DEF AllReviewed
<1>4. CASE i <= Len(c)
  <2>1. i \in 1..Len(c) /\ i \in 1..(Len(c) + 1) /\ i \in 1..(Len(d) + 1)
    BY <1>1, <1>4
  <2>2. Before(c, i) = [j \in 1..(i - 1) |-> c[j]] /\ Before(d, i) = [j \in 1..(i - 1) |-> d[j]]
    BY <1>3, <2>1
  <2>3. \A j \in 1..(i - 1) : d[j] = c[j]
    BY <1>1, <1>4
  <2>4. Before(d, i) = Before(c, i) /\ d[i] = c[i]
    BY <2>1, <2>2, <2>3
  <2> QED BY <2>1, <2>4 DEF AllReviewed
<1>5. CASE i > Len(c)
  <2>1. i \in (Len(c) + 1)..Len(d)
    BY <1>1, <1>5
  <2>2. CASE Bare(d[i])
    BY <2>2, BareReviewed
  <2>3. CASE i = Len(c) + 1 /\ Reviewed(c, d[i])
    <3>1. i \in 1..(Len(d) + 1) /\ i - 1 = Len(c)
      BY <1>1, <2>1, <2>3
    <3>2. Before(d, i) = [j \in 1..(i - 1) |-> d[j]]
      BY <1>3, <3>1
    <3>3. Before(d, i) = c
      BY <1>2, <3>1, <3>2
    <3> QED BY <2>3, <3>3
  <2> QED BY <2>1, <2>2, <2>3
<1> QED BY <1>1, <1>4, <1>5

\* A transition the host gate admitted on the chain it is applied to.
LEMMA AppliedReviewed ==
    ASSUME NEW c, NEW a,
           ReviewEdge(a) => FindingsResolved(c, a.unit),
           ClaimsSuccess(a) => FindingsResolved(c, None)
    PROVE  Reviewed(c, AppliedRecord(c, a))
<1> DEFINE r == AppliedRecord(c, a)
           F == Findings(c)
           W == ActiveWaivers(c)
<1>1. /\ r.approval = a /\ r.resolution = None /\ r.unit = a.unit
      /\ r.findings = NoMap /\ ~r.snapshot
      /\ r.kind \in {"classification", "outcome", "stage_transition"}
      /\ r.outcome \in {None, a.outcome}
  BY DEF AppliedRecord, Blank
<1> HIDE DEF r
<1>2. DOMAIN r.findings = {} /\ ~SetsFindings(r)
  BY <1>1 DEF NoMap, SetsFindings
<1>3. StopResolved(c, r)
  <2> SUFFICES ASSUME r.outcome = "PARTIAL" PROVE StopResolved(c, r)
    BY DEF StopResolved
  <2>1. None # "PARTIAL"
    BY NoneAssumption DEF Outcomes, stoppingOutcomes
  <2>2. FindingsResolved(c, None)
    BY <1>1, <2>1 DEF ClaimsSuccess
  <2>3. \A id \in DOMAIN F : \/ F[id].disp = "ADVISORY"
                             \/ /\ F[id].disp = "WAIVABLE"
                                /\ [kind |-> "finding", target |-> id] \in W
    BY <2>2 DEF FindingsResolved
  <2> HIDE DEF F, W
  <2>4. /\ \A id \in DOMAIN F : F[id].disp # "BLOCK"
        /\ \A id \in DOMAIN F : F[id].disp = "WAIVABLE" =>
              [kind |-> "finding", target |-> id] \in W
    BY <2>3
  <2> QED BY <2>4 DEF StopResolved, F, W
<1>4. ExitResolved(c, r)
  <2> SUFFICES ASSUME ReviewEdge(a) PROVE ExitResolved(c, r)
    BY <1>1 DEF ExitResolved
  <2>1. \A id \in DOMAIN F : \/ None \notin {a.unit, F[id].unit} /\ F[id].unit # a.unit
                             \/ F[id].disp = "ADVISORY"
                             \/ /\ F[id].disp = "WAIVABLE"
                                /\ [kind |-> "finding", target |-> id] \in W
    BY DEF FindingsResolved
  <2> HIDE DEF F, W
  <2>2. \A id \in DOMAIN F : F[id].unit \in {None, r.unit} =>
            \/ F[id].disp = "ADVISORY"
            \/ /\ F[id].disp = "WAIVABLE"
               /\ [kind |-> "finding", target |-> id] \in W
    BY <1>1, <2>1
  <2> QED BY <2>2 DEF ExitResolved, F, W
<1>5. WaiverAlternates(c, r) /\ ForeignKept(c, r)
  BY <1>1 DEF WaiverAlternates, ForeignKept
<1>6. HmaHeld(c, r)
  BY <1>1, <1>2 DEF HmaHeld
<1> QED BY <1>3, <1>4, <1>5, <1>6 DEF Reviewed, r

\* A resolution the chain admits.
LEMMA ResolutionReviewed ==
    ASSUME NEW c, IsChain(c), AllReviewed(c), NEW o \in Operations, NEW n \in Nonces,
           AdmitsResolution(c, Resolution(o, n))
    PROVE  Reviewed(c, ResolutionRecord(Resolution(o, n)))
<1> DEFINE s == Resolution(o, n)
           r == ResolutionRecord(s)
           F == Findings(c)
           W == ActiveWaivers(c)
<1>1. /\ s.op = o.op /\ s.disp = o.disp /\ s # None
      /\ s.op = "OVERRIDE" => s.disp # "BLOCK"
  BY NoneAssumption, InputsAssumption DEF Resolution
<1>2. \/ s.op = "GRANT" /\ AdmitsGrant(c, s.scope)
      \/ s.op \in {"EXPIRE", "WITHDRAW"} /\ s.scope \in W
      \/ s.op = "OVERRIDE" /\ AdmitsOverride(c, s.scope.target)
  BY DEF AdmitsResolution
<1> HIDE DEF s
<1>3. /\ r.approval = None /\ r.control = None /\ r.outcome = None /\ r.resolution = s
      /\ r.findings = NoMap /\ ~r.snapshot
      /\ r.kind = "waiver_operation" => s.op # "OVERRIDE"
  BY DEF ResolutionRecord, Blank
<1> HIDE DEF r
<1>4. DOMAIN r.findings = {} /\ ~SetsFindings(r)
  BY <1>3 DEF NoMap, SetsFindings
<1>5. StopResolved(c, r) /\ ExitResolved(c, r) /\ ForeignKept(c, r)
  <2>1. None # "PARTIAL"
    BY NoneAssumption DEF Outcomes, stoppingOutcomes
  <2> QED BY <1>3, <2>1 DEF StopResolved, ExitResolved, ForeignKept, Applied
<1>6. WaiverAlternates(c, r)
  <2> HIDE DEF F, W
  <2>1. s.op = "GRANT" => /\ s.scope \notin W
                          /\ s.scope.kind = "finding" =>
                                s.scope.target \in DOMAIN F /\ F[s.scope.target].disp # "BLOCK"
    BY <1>2 DEF AdmitsGrant, F, W
  <2>2. s.op \in {"EXPIRE", "WITHDRAW"} => s.scope \in W
    BY <1>2
  <2>3. s.op # "OVERRIDE" =>
            /\ s.op = "GRANT" <=> s.scope \notin W
            /\ s.op = "GRANT" /\ s.scope.kind = "finding" =>
                  s.scope.target \in DOMAIN F /\ F[s.scope.target].disp # "BLOCK"
    BY <1>2, <2>1, <2>2
  <2> QED BY <1>3, <2>3 DEF WaiverAlternates, F, W
<1>7. HmaHeld(c, r)
  <2>1. Chained(c) /\ Held(c)
    BY ChainChained, HeldOf
  <2>2. \A id \in DOMAIN F : id.by = None => F[id].disp = "BLOCK"
    BY <2>1, HeldFindings
  <2>3. s.op = "OVERRIDE" => s.scope.target.by # None /\ s.disp # "BLOCK"
    BY <1>1, <1>2, <2>2 DEF AdmitsOverride
  <2> QED BY <1>3, <1>4, <2>3 DEF HmaHeld
<1> QED BY <1>5, <1>6, <1>7 DEF Reviewed, r, s

\* A review's findings, as they are merged into those of the chain.
LEMMA ImportReviewed ==
    ASSUME NEW c, IsChain(c), AllReviewed(c), NEW rep \in Reports,
           FindingsDistinct(Findings(c), rep.unit, rep.imported)
    PROVE  Reviewed(c, SnapshotRecord(c, rep))
<1> DEFINE r == SnapshotRecord(c, rep)
           F == Findings(c)
           u == rep.unit
           fs == SnapshotFindings(F, u, rep.imported, rep.verdict)
           theirs == {id \in DOMAIN F : F[id].unit # u}
           new == {FindingID(u, n) : n \in DOMAIN rep.imported}
<1>1. /\ r.approval = None /\ r.control = None /\ r.outcome = None /\ r.resolution = None
      /\ r.findings = fs /\ r.snapshot /\ r.unit = u /\ r.kind = "finding"
  BY DEF SnapshotRecord, Blank
<1>2. u # None
  BY NoneAssumption, InputsAssumption
<1>3. /\ \A id \in new : id.by = u
      /\ \A id \in new : id \in DOMAIN F => F[id].unit = u
  BY DEF FindingsDistinct, FindingID
<1>4. /\ theirs \subseteq DOMAIN fs
      /\ \A id \in DOMAIN fs : id \in new \/ id \in DOMAIN F
      /\ \A id \in DOMAIN fs :
            \/ id \in DOMAIN F /\ fs[id] = F[id]
            \/ id \in new /\ fs[id] = [disp |-> rep.imported[id.name], unit |-> u]
  <2> DEFINE ours == DOMAIN F \ theirs
             kept == {id \in ours \ new : strength(F[id].disp) > 0}
             holds(id) == /\ id \in ours
                          /\ rep.verdict # "APPROVE"
                          /\ strength(F[id].disp) > strength(rep.imported[id.name])
             D == theirs \cup new \cup (IF rep.verdict = "APPROVE" THEN {} ELSE kept)
  <2>1. fs = [id \in D |-> IF id \in new /\ ~holds(id)
                           THEN [disp |-> rep.imported[id.name], unit |-> u] ELSE F[id]]
    BY DEF SnapshotFindings
  <2>2. theirs \subseteq DOMAIN F /\ kept \subseteq DOMAIN F
    OBVIOUS
  <2>3. \A id : holds(id) => id \in DOMAIN F
    OBVIOUS
  <2> HIDE DEF fs, theirs, new, kept, holds
  <2>4. DOMAIN fs = D
    BY <2>1
  <2>5. \A id \in D : \/ id \in DOMAIN F /\ fs[id] = F[id]
                      \/ id \in new /\ fs[id] = [disp |-> rep.imported[id.name], unit |-> u]
    BY <2>1, <2>2, <2>3
  <2> QED BY <2>4, <2>5
<1>5. /\ \A i \in DOMAIN c : \A id \in DOMAIN c[i].findings :
            id.by = None => id \in DOMAIN F
      /\ \A id \in DOMAIN F :
            /\ DOMAIN F[id] = {"disp", "unit"}
            /\ id.by = None => F[id].disp = "BLOCK" /\ F[id].unit = None
  <2>1. Chained(c) /\ Held(c)
    BY ChainChained, HeldOf
  <2>2. DOMAIN c = 1..Len(c)
    BY <2>1 DEF Chained
  <2> QED BY <2>1, <2>2, HeldFindings
<1>6. \A id \in theirs : id \in DOMAIN F /\ F[id].unit # u
  OBVIOUS
<1>7. \A id \in DOMAIN F : F[id].unit # u => id \in theirs
  OBVIOUS
<1> HIDE DEF r, F, u, fs, theirs, new
<1>8. StopResolved(c, r) /\ ExitResolved(c, r) /\ WaiverAlternates(c, r)
  <2>1. None # "PARTIAL"
    BY NoneAssumption DEF Outcomes, stoppingOutcomes
  <2> QED BY <1>1, <2>1 DEF StopResolved, ExitResolved, WaiverAlternates, Applied
<1>9. ForeignKept(c, r)
  <2>1. \A id \in DOMAIN F : F[id].unit # r.unit =>
            id \in DOMAIN r.findings /\ r.findings[id] = F[id]
    BY <1>1, <1>3, <1>4, <1>7
  <2> QED BY <2>1 DEF ForeignKept, F
<1>10. HmaHeld(c, r)
  <2>1. \A id \in DOMAIN fs :
            /\ DOMAIN fs[id] = {"disp", "unit"}
            /\ id.by = None => fs[id].disp = "BLOCK" /\ fs[id].unit = None
    <3> SUFFICES ASSUME NEW id \in DOMAIN fs
                 PROVE  /\ DOMAIN fs[id] = {"disp", "unit"}
                        /\ id.by = None => fs[id].disp = "BLOCK" /\ fs[id].unit = None
      OBVIOUS
    <3>1. CASE id \in DOMAIN F /\ fs[id] = F[id]
      BY <1>5, <3>1
    <3>2. CASE id \in new /\ fs[id] = [disp |-> rep.imported[id.name], unit |-> u]
      <4>1. DOMAIN fs[id] = {"disp", "unit"}
        BY <3>2
      <4>2. id.by # None
        BY <1>2, <1>3, <3>2
      <4> QED BY <4>1, <4>2
    <3> QED BY <1>4, <3>1, <3>2
  <2>2. \A i \in DOMAIN c : \A id \in DOMAIN c[i].findings :
            id.by = None => id \in DOMAIN fs
    BY <1>2, <1>4, <1>5, <1>7
  <2> QED BY <1>1, <2>1, <2>2 DEF HmaHeld
<1> QED BY <1>8, <1>9, <1>10 DEF Reviewed, r

-----------------------------------------------------------------------------
(* The commands.                                                           *)

\* What a command's records respect, if they still are for the end of the
\* chain: between the host gate and the evaluation, and until they land.
JobReviewed(p) ==
    /\ pc[p] = "evaluate" /\ job[p].at = Len(chain) + 1 =>
          /\ ReviewEdge(job[p].packet) => FindingsResolved(chain, job[p].packet.unit)
          /\ ClaimsSuccess(job[p].packet) => FindingsResolved(chain, None)
    /\ pc[p] = "append" =>
          /\ job[p].at = Len(chain) + 1 => Reviewed(chain, job[p].want[1])
          /\ \A i \in 2..Len(job[p].want) : Bare(job[p].want[i])

ReviewInv ==
    /\ IInv
    /\ AllReviewed(chain)
    /\ \A p \in Procs : JobReviewed(p)

\* A step of one command that appends nothing.
LEMMA JobStepReviewed ==
    ASSUME ReviewInv, IInv', NEW p \in Procs, chain' = chain,
           \A q \in Procs \ {p} : pc'[q] = pc[q] /\ job'[q] = job[q],
           JobReviewed(p)'
    PROVE  ReviewInv'
<1>1. ASSUME NEW q \in Procs PROVE JobReviewed(q)'
  <2>1. CASE q = p
    BY <2>1
  <2>2. CASE q # p
    <3>1. JobReviewed(q) /\ pc'[q] = pc[q] /\ job'[q] = job[q]
      BY <2>2 DEF ReviewInv
    <3> QED BY <3>1 DEF JobReviewed
  <2> QED BY <2>1, <2>2
<1> QED BY <1>1 DEF ReviewInv

\* One that leaves its command where nothing is held for it.
LEMMA IdleReviewed ==
    ASSUME ReviewInv, IInv', NEW p \in Procs, NEW l, l \notin {"evaluate", "append"},
           Goto(p, l), chain' = chain, \A q \in Procs \ {p} : job'[q] = job[q]
    PROVE  ReviewInv'
<1>1. DOMAIN pc = Procs
  BY DEF ReviewInv, IInv
<1>2. pc'[p] = l /\ \A q \in Procs \ {p} : pc'[q] = pc[q]
  BY <1>1 DEF Goto
<1>3. JobReviewed(p)'
  BY <1>2 DEF JobReviewed
<1> QED BY <1>2, <1>3, JobStepReviewed

\* One that decides to append rs.
LEMMA DecideReviewed ==
    ASSUME ReviewInv, IInv', NEW p \in Procs, Goto(p, "append"),
           chain' = chain, \A q \in Procs \ {p} : job'[q] = job[q],
           NEW rs, job'[p].want = rs,
           Reviewed(chain, rs[1]), \A i \in 2..Len(rs) : Bare(rs[i])
    PROVE  ReviewInv'
<1>1. DOMAIN pc = Procs
  BY DEF ReviewInv, IInv
<1>2. pc'[p] = "append" /\ \A q \in Procs \ {p} : pc'[q] = pc[q]
  BY <1>1 DEF Goto
<1>3. JobReviewed(p)'
  BY <1>2 DEF JobReviewed
<1> QED BY <1>2, <1>3, JobStepReviewed

\* One that decides to append the one record r to the chain as it is.
LEMMA IntendReviewed ==
    ASSUME ReviewInv, IInv', NEW p \in Procs, NEW r, Intend(p, <<r>>),
           chain' = chain, Reviewed(chain, r)
    PROVE  ReviewInv'
<1>1. DOMAIN job = Procs /\ JobOK(p)
  BY DEF ReviewInv, IInv
<1>2. job' = [job EXCEPT ![p].at = Len(chain) + 1, ![p].want = <<r>>]
      /\ Goto(p, "append")
  BY DEF Intend
<1>3. job'[p].want = <<r>> /\ \A q \in Procs \ {p} : job'[q] = job[q]
  BY <1>1, <1>2 DEF JobOK
<1>4. Reviewed(chain, <<r>>[1]) /\ 2..Len(<<r>>) = {}
  OBVIOUS
<1> QED BY <1>2, <1>3, <1>4, DecideReviewed

\* hma transition, up to its append.
LEMMA TransitionReviewed ==
    ASSUME ReviewInv, IInv', NEW p \in Procs,
           TransitionBegin(p) \/ TransitionGate(p) \/ TransitionEvaluate(p)
    PROVE  ReviewInv'
<1>0. DOMAIN pc = Procs /\ DOMAIN job = Procs /\ JobOK(p) /\ JobReviewed(p)
  BY DEF ReviewInv, IInv
<1>1. CASE TransitionBegin(p)
  <2>1. Goto(p, "gate") /\ chain' = chain /\ \A q \in Procs \ {p} : job'[q] = job[q]
    BY <1>0, <1>1 DEF TransitionBegin, Present
  <2> QED BY <2>1, IdleReviewed
<1>2. CASE TransitionGate(p)
  <2>1. /\ chain' = chain /\ job' = job /\ Goto(p, "evaluate")
        /\ ReviewEdge(job[p].packet) => FindingsResolved(chain, job[p].packet.unit)
        /\ ClaimsSuccess(job[p].packet) => FindingsResolved(chain, None)
    BY <1>2 DEF TransitionGate, HostAdmits
  <2>2. pc'[p] = "evaluate" /\ \A q \in Procs \ {p} : pc'[q] = pc[q]
    BY <1>0, <2>1 DEF Goto
  <2>3. JobReviewed(p)'
    BY <2>1, <2>2 DEF JobReviewed
  <2> QED BY <2>1, <2>2, <2>3, JobStepReviewed
<1>3. CASE TransitionEvaluate(p)
  <2> DEFINE a == job[p].packet
  <2>1. /\ AdmitsTransition(chain, a, job[p].at, job[p].seen.wt)
        /\ Intend(p, <<AppliedRecord(chain, a)>>) /\ chain' = chain
        /\ pc[p] = "evaluate"
    BY <1>3 DEF TransitionEvaluate
  <2>2. job[p].at = Len(chain) + 1
    BY <2>1 DEF AdmitsTransition, AdmitsApproval
  <2>3. /\ ReviewEdge(a) => FindingsResolved(chain, a.unit)
        /\ ClaimsSuccess(a) => FindingsResolved(chain, None)
    BY <1>0, <2>1, <2>2 DEF JobReviewed
  <2> HIDE DEF a
  <2>4. Reviewed(chain, AppliedRecord(chain, a))
    BY <2>3, AppliedReviewed
  <2> QED BY <2>1, <2>4, IntendReviewed
<1> QED BY <1>1, <1>2, <1>3

\* The commands whose records are of evidence and criteria.
LEMMA BareCommandReviewed ==
    ASSUME ReviewInv, IInv', NEW p \in Procs,
           \/ PilotBegin(p) \/ PilotEvaluate(p) \/ PilotCapture(p)
           \/ CIBegin(p) \/ CICapture(p) \/ CriteriaBaseline(p)
    PROVE  ReviewInv'
<1>0. DOMAIN pc = Procs /\ DOMAIN job = Procs /\ JobOK(p)
  BY DEF ReviewInv, IInv
<1>n. None # "PARTIAL" /\ None # "APPROVED"
  BY NoneAssumption DEF Outcomes, stoppingOutcomes
<1>1. CASE PilotBegin(p) \/ PilotEvaluate(p) \/ CIBegin(p)
  <2>1. /\ Goto(p, "pilotLoad") \/ Goto(p, "pilotCapture") \/ Goto(p, "ciCapture")
        /\ chain' = chain /\ \A q \in Procs \ {p} : job'[q] = job[q]
    BY <1>0, <1>1 DEF PilotBegin, PilotEvaluate, CIBegin, Present
  <2>2. PICK l : l \in {"pilotLoad", "pilotCapture", "ciCapture"} /\ Goto(p, l)
    BY <2>1
  <2> QED BY <2>1, <2>2, IdleReviewed
<1>2. CASE PilotCapture(p)
  <2>1. PICK d \in Digests :
            job' = [job EXCEPT ![p].want = PilotRecords(job[p].packet, d, repo)]
    BY <1>2 DEF PilotCapture
  <2>2. Goto(p, "append") /\ chain' = chain
    BY <1>2 DEF PilotCapture
  <2> DEFINE rs == PilotRecords(job[p].packet, d, repo)
  <2>3. job'[p].want = rs /\ \A q \in Procs \ {p} : job'[q] = job[q]
    BY <1>0, <2>1 DEF JobOK
  <2>4. Len(rs) = 2 /\ Bare(rs[1]) /\ Bare(rs[2])
    BY <1>n DEF PilotRecords, Bare, Applied, Blank
  <2> HIDE DEF rs
  <2>5. \A i \in 2..Len(rs) : Bare(rs[i])
    <3>1. \A i \in 2..Len(rs) : i = 2
      BY <2>4
    <3> QED BY <2>4, <3>1
  <2> QED BY <2>2, <2>3, <2>4, <2>5, BareReviewed, DecideReviewed
<1>3. CASE CICapture(p)
  <2>1. PICK r : job' = [job EXCEPT ![p].want = <<r>>] /\ Bare(r)
    <3>1. PICK d \in Digests :
              job' = [job EXCEPT ![p].want =
                <<[Blank EXCEPT !.kind = "evidence", !.stage = job[p].packet.from,
                      !.evidence = [digest |-> d, base |-> job[p].packet.base,
                                    head |-> repo.head]]>>]
      BY <1>3 DEF CICapture
    <3> DEFINE r == [Blank EXCEPT !.kind = "evidence", !.stage = job[p].packet.from,
                        !.evidence = [digest |-> d, base |-> job[p].packet.base,
                                      head |-> repo.head]]
    <3>2. Bare(r)
      BY <1>n DEF Bare, Applied, Blank
    <3> QED BY <3>1, <3>2
  <2>2. Goto(p, "append") /\ chain' = chain
    BY <1>3 DEF CICapture
  <2>3. job'[p].want = <<r>> /\ \A q \in Procs \ {p} : job'[q] = job[q]
    BY <1>0, <2>1 DEF JobOK
  <2>4. <<r>>[1] = r /\ 2..Len(<<r>>) = {}
    OBVIOUS
  <2> QED BY <2>1, <2>2, <2>3, <2>4, BareReviewed, DecideReviewed
<1>4. CASE CriteriaBaseline(p)
  <2>1. PICK k \in Contracts :
          Intend(p, <<[Blank EXCEPT !.kind = "criterion", !.stage = "ACCEPTANCE_CRITERIA",
                          !.criteria = [c \in CriteriaOf[k] |-> "PENDING"]]>>)
    BY <1>4 DEF CriteriaBaseline
  <2> DEFINE r == [Blank EXCEPT !.kind = "criterion", !.stage = "ACCEPTANCE_CRITERIA",
                      !.criteria = [c \in CriteriaOf[k] |-> "PENDING"]]
  <2>2. Bare(r)
    BY <1>n DEF Bare, Applied, Blank
  <2>3. Intend(p, <<r>>) /\ chain' = chain
    BY <1>4, <2>1 DEF CriteriaBaseline
  <2> HIDE DEF r
  <2> QED BY <2>2, <2>3, BareReviewed, IntendReviewed
<1> QED BY <1>1, <1>2, <1>3, <1>4

\* hma resolve, and hma host findings-import.
LEMMA ReviewCommandReviewed ==
    ASSUME ReviewInv, IInv', NEW p \in Procs, Resolve(p) \/ FindingsImport(p)
    PROVE  ReviewInv'
<1>0. IsChain(chain) /\ AllReviewed(chain)
  BY DEF ReviewInv, IInv
<1>1. CASE Resolve(p)
  <2>1. PICK o \in Operations, n \in Nonces :
            /\ AdmitsResolution(chain, Resolution(o, n))
            /\ Intend(p, <<ResolutionRecord(Resolution(o, n))>>)
    BY <1>1 DEF Resolve
  <2>2. chain' = chain
    BY <1>1 DEF Resolve
  <2>3. Reviewed(chain, ResolutionRecord(Resolution(o, n)))
    BY <1>0, <2>1, ResolutionReviewed
  <2> QED BY <2>1, <2>2, <2>3, IntendReviewed
<1>2. CASE FindingsImport(p)
  <2>1. PICK rep \in Reports :
            /\ FindingsDistinct(Findings(chain), rep.unit, rep.imported)
            /\ Intend(p, <<SnapshotRecord(chain, rep)>>)
    BY <1>2 DEF FindingsImport
  <2>2. chain' = chain
    BY <1>2 DEF FindingsImport
  <2>3. Reviewed(chain, SnapshotRecord(chain, rep))
    BY <1>0, <2>1, ImportReviewed
  <2> QED BY <2>1, <2>2, <2>3, IntendReviewed
<1> QED BY <1>1, <1>2

\* A command left behind by a longer chain relies on it no more.
LEMMA LeftBehindReviewed ==
    ASSUME ReviewInv, NEW q \in Procs, pc'[q] = pc[q], job'[q] = job[q],
           Len(chain) \in Nat, Len(chain') \in Nat, Len(chain') > Len(chain)
    PROVE  JobReviewed(q)'
<1>1. JobReviewed(q) /\ job[q].at \in Nat /\ job[q].at <= Len(chain) + 1
  BY DEF ReviewInv, IInv, JobOK
<1>2. job'[q].at # Len(chain') + 1
  BY <1>1
<1> QED BY <1>1, <1>2 DEF JobReviewed

\* Store.Append: the record lands on the chain it respects.
LEMMA AppendNextReviewed ==
    ASSUME ReviewInv, IInv', NEW p \in Procs, AppendNext(p)
    PROVE  ReviewInv'
<1> DEFINE rs == job[p].want
           r == Head(rs)
           d == Append(chain, r)
<1>1. /\ IsChain(chain) /\ AllReviewed(chain)
      /\ DOMAIN pc = Procs /\ DOMAIN job = Procs /\ JobOK(p) /\ JobReviewed(p)
      /\ pc[p] = "append" /\ job[p].at = Len(chain) + 1
      /\ chain' = d
  BY DEF ReviewInv, IInv, AppendNext, ExtendsChain
<1>2. /\ IsChain(rs) /\ Len(rs) >= 1
      /\ Reviewed(chain, rs[1])
      /\ \A i \in 2..Len(rs) : Bare(rs[i])
  BY <1>1 DEF JobOK, JobReviewed
<1>3. Len(rs) \in Nat /\ DOMAIN rs = 1..Len(rs) /\ r = rs[1]
  BY <1>2 DEF IsChain
<1>4. Reviewed(chain, r)
  BY <1>2, <1>3
<1>5. /\ Len(chain) \in Nat /\ Len(d) = Len(chain) + 1
      /\ d[Len(chain) + 1] = r
      /\ \A i \in 1..Len(chain) : d[i] = chain[i]
  <2> DEFINE S == {chain[i] : i \in DOMAIN chain} \cup {r}
  <2>1. chain \in Seq(S) /\ r \in S
    BY <1>1 DEF IsChain
  <2> HIDE DEF S, r
  <2> QED BY <2>1
<1>6. IsChain(chain')
  BY DEF IInv
<1> HIDE DEF rs, r, d
<1>7. AllReviewed(d)
  <2>1. IsChain(d) /\ Len(d) >= Len(chain)
    BY <1>1, <1>5, <1>6
  <2>2. \A i \in (Len(chain) + 1)..Len(d) :
            Bare(d[i]) \/ (i = Len(chain) + 1 /\ Reviewed(chain, d[i]))
    BY <1>4, <1>5
  <2> QED BY <1>1, <1>5, <2>1, <2>2, ContinuedReviewed
<1>8. \A q \in Procs \ {p} : pc'[q] = pc[q] /\ job'[q] = job[q]
  BY <1>1 DEF AppendNext, Finish, Goto
<1>9. \A q \in Procs \ {p} : JobReviewed(q)'
  BY <1>1, <1>5, <1>8, LeftBehindReviewed
<1>10. JobReviewed(p)'
  <2>1. CASE Len(rs) > 1
    <3>1. /\ job' = [job EXCEPT ![p].want = Tail(rs), ![p].at = job[p].at + 1]
          /\ pc' = pc
      BY <1>1, <2>1 DEF AppendNext, rs, JobOK
    <3>2. job'[p].want = Tail(rs) /\ pc'[p] = "append"
      BY <1>1, <3>1 DEF JobOK
    <3>3. /\ Len(Tail(rs)) = Len(rs) - 1
          /\ \A i \in 1..(Len(rs) - 1) : Tail(rs)[i] = rs[i + 1]
      <4> DEFINE S == {rs[i] : i \in DOMAIN rs}
      <4>1. rs \in Seq(S)
        BY <1>2 DEF IsChain
      <4> HIDE DEF S
      <4> QED BY <2>1, <4>1
    <3>4. \A i \in 1..Len(Tail(rs)) : Bare(Tail(rs)[i])
      <4>1. \A i \in 1..(Len(rs) - 1) : i + 1 \in 2..Len(rs)
        BY <1>3, <2>1
      <4> QED BY <1>2, <3>3, <4>1
    <3>5. 1 \in 1..Len(Tail(rs)) /\ \A i \in 2..Len(Tail(rs)) : i \in 1..Len(Tail(rs))
      BY <1>3, <2>1, <3>3
    <3>6. Reviewed(d, Tail(rs)[1])
      BY <3>4, <3>5, BareReviewed
    <3> QED BY <1>1, <3>2, <3>4, <3>5, <3>6 DEF JobReviewed
  <2>2. CASE ~(Len(rs) > 1)
    <3>1. Finish(p)
      BY <2>2 DEF AppendNext, rs
    <3> QED BY <1>1, <3>1 DEF Finish, Goto, JobReviewed
  <2> QED BY <2>1, <2>2
<1>11. \A q \in Procs : JobReviewed(q)'
  BY <1>9, <1>10
<1> QED BY <1>1, <1>7, <1>11 DEF ReviewInv

\* Commands that hold both locks, and write the replay they worked on back.
LEMMA GrowthReviewed ==
    ASSUME ReviewInv, IInv', pc' = pc, job' = job, AllReviewed(chain'),
           Len(chain') > Len(chain)
    PROVE  ReviewInv'
<1>1. Len(chain) \in Nat /\ Len(chain') \in Nat
  BY DEF ReviewInv, IInv, IsChain
<1>2. \A q \in Procs : JobReviewed(q)'
  BY <1>1, LeftBehindReviewed
<1> QED BY <1>2 DEF ReviewInv

\* The replay has the records, and respects what they did.
LEMMA ReplayReviewed ==
    ASSUME NEW c, IsChain(c), SpendsOnce(c), AllReviewed(c)
    PROVE  /\ IsChain(Replayed(c)) /\ AllReviewed(Replayed(c))
           /\ Len(Replayed(c)) = Len(c)
           /\ \A i \in 1..Len(c) : DOMAIN Replayed(c)[i].findings = DOMAIN c[i].findings
<1> DEFINE d == Replayed(c)
<1>1. IsChain(d) /\ Len(d) = Len(c)
  BY ReplayedSpends
<1>2. Rewritten(d, c)
  BY HeldOf, ReplayRewrites
<1> HIDE DEF d
<1> QED BY <1>1, <1>2, RewrittenReviewed, RewrittenFacts DEF d

\* One more record that the chain's own respect.
LEMMA AppendReviewed ==
    ASSUME NEW c, IsChain(c), AllReviewed(c), NEW r, DOMAIN r = DOMAIN Blank,
           Reviewed(c, r)
    PROVE  /\ IsChain(Append(c, r)) /\ AllReviewed(Append(c, r))
           /\ Len(Append(c, r)) = Len(c) + 1
<1> DEFINE d == Append(c, r)
<1>1. IsChain(<<r>>) /\ Len(c) \in Nat
  BY OneRecord DEF IsChain
<1>2. /\ Len(d) = Len(c) + 1 /\ d[Len(c) + 1] = r
      /\ \A i \in 1..Len(c) : d[i] = c[i]
  <2> DEFINE S == {c[i] : i \in DOMAIN c} \cup {r}
  <2>1. c \in Seq(S) /\ r \in S
    BY DEF IsChain
  <2> HIDE DEF S
  <2> QED BY <2>1
<1>3. IsChain(d)
  <2> DEFINE S == {c[i] : i \in DOMAIN c} \cup {r}
  <2>1. c \in Seq(S) /\ r \in S
    BY DEF IsChain
  <2>2. \A x \in S : DOMAIN x = DOMAIN Blank
    BY DEF IsChain
  <2> HIDE DEF S
  <2>3. d \in Seq(S)
    BY <2>1
  <2> HIDE DEF d
  <2> QED BY <2>2, <2>3, ChainOver
<1> HIDE DEF d
<1>4. \A i \in (Len(c) + 1)..Len(d) : i = Len(c) + 1
  BY <1>1, <1>2
<1>5. Len(d) >= Len(c)
  BY <1>1, <1>2
<1>6. AllReviewed(d)
  BY <1>2, <1>3, <1>4, <1>5, ContinuedReviewed
<1> QED BY <1>2, <1>3, <1>6 DEF d

\* The findings of a reconciliation: those there were, and HMA's own.
LEMMA ReconciledReviewed ==
    ASSUME IsChain(chain), SpendsOnce(chain), AllReviewed(chain),
           NEW ns, ~(DOMAIN UnauthorizedFindings(ns) \subseteq DOMAIN Findings(chain)),
           NEW fs,
           fs = [id \in DOMAIN Findings(chain) \cup DOMAIN UnauthorizedFindings(ns) |->
                    IF id \in DOMAIN Findings(chain) THEN Findings(chain)[id]
                    ELSE UnauthorizedFindings(ns)[id]],
           NEW r, r = [Blank EXCEPT !.kind = "finding", !.stage = CurrentStage(chain),
                                    !.findings = fs, !.sealed = fs]
    PROVE  Reviewed(Replayed(chain), r) /\ DOMAIN r = DOMAIN Blank
<1> DEFINE F == Findings(chain)
           G == UnauthorizedFindings(ns)
           d == Replayed(chain)
<1>1. /\ r.approval = None /\ r.control = None /\ r.outcome = None /\ r.resolution = None
      /\ r.findings = fs /\ ~r.snapshot /\ r.kind = "finding" /\ DOMAIN r = DOMAIN Blank
  BY DEF Blank
<1>2. /\ \A i \in 1..Len(chain) : \A id \in DOMAIN chain[i].findings :
            id.by = None => id \in DOMAIN F
      /\ \A id \in DOMAIN F :
            /\ DOMAIN F[id] = {"disp", "unit"}
            /\ id.by = None => F[id].disp = "BLOCK" /\ F[id].unit = None
  BY ChainChained, HeldOf, HeldFindings
<1>3. \A id \in DOMAIN G : id.by = None /\ G[id] = [disp |-> "BLOCK", unit |-> None]
  BY DEF UnauthorizedFindings, FindingID
<1>4. /\ DOMAIN fs = DOMAIN F \cup DOMAIN G
      /\ \A id \in DOMAIN F : fs[id] = F[id]
      /\ \A id \in DOMAIN G : id \notin DOMAIN F => fs[id] = G[id]
      /\ ~(DOMAIN G \subseteq DOMAIN F)
  <2> HIDE DEF F, G
  <2> QED BY DEF F, G
<1>5. /\ Len(d) = Len(chain) /\ DOMAIN d = 1..Len(d)
      /\ \A i \in 1..Len(chain) : DOMAIN d[i].findings = DOMAIN chain[i].findings
  <2>1. /\ IsChain(d) /\ Len(d) = Len(chain)
        /\ \A i \in 1..Len(chain) : DOMAIN d[i].findings = DOMAIN chain[i].findings
    BY ReplayReviewed
  <2> HIDE DEF d
  <2> QED BY <2>1 DEF IsChain
<1> HIDE DEF F, G, d
<1>6. StopResolved(d, r) /\ ExitResolved(d, r) /\ WaiverAlternates(d, r) /\ ForeignKept(d, r)
  <2>1. None # "PARTIAL"
    BY NoneAssumption DEF Outcomes, stoppingOutcomes
  <2> QED BY <1>1, <2>1 DEF StopResolved, ExitResolved, WaiverAlternates, ForeignKept, Applied
<1>7. HmaHeld(d, r)
  <2>1. \A id \in DOMAIN fs :
            /\ DOMAIN fs[id] = {"disp", "unit"}
            /\ id.by = None => fs[id].disp = "BLOCK" /\ fs[id].unit = None
    <3> SUFFICES ASSUME NEW id \in DOMAIN fs
                 PROVE  /\ DOMAIN fs[id] = {"disp", "unit"}
                        /\ id.by = None => fs[id].disp = "BLOCK" /\ fs[id].unit = None
      OBVIOUS
    <3>1. CASE id \in DOMAIN F
      BY <1>2, <1>4, <3>1
    <3>2. CASE id \notin DOMAIN F
      <4>1. fs[id] = [disp |-> "BLOCK", unit |-> None]
        BY <1>3, <1>4, <3>2
      <4> QED BY <4>1
    <3> QED BY <3>1, <3>2
  <2>2. \E id \in DOMAIN fs : id.by = None
    BY <1>3, <1>4
  <2>3. \A i \in DOMAIN d : \A id \in DOMAIN d[i].findings :
            id.by = None => id \in DOMAIN fs
    BY <1>2, <1>4, <1>5
  <2> QED BY <1>1, <2>1, <2>2, <2>3 DEF HmaHeld
<1> QED BY <1>1, <1>6, <1>7 DEF Reviewed, d

\* hma host reconcile and hma host loop evidence.
LEMMA ReconcileReviewed ==
    ASSUME ReviewInv, IInv', Reconcile \/ LoopEvidence
    PROVE  ReviewInv'
<1>1. IsChain(chain) /\ SpendsOnce(chain) /\ AllReviewed(chain) /\ Len(chain) \in Nat
  BY DEF ReviewInv, IInv, NoncesSpentOnce, IsChain
<1>n. None # "PARTIAL" /\ None # "APPROVED"
  BY NoneAssumption DEF Outcomes, stoppingOutcomes
<1>2. AllReviewed(chain') /\ Len(chain') > Len(chain)
  <2>1. CASE Reconcile
    <3>1. PICK ns \in SUBSET HmaNames :
            LET prior == Findings(chain)
                found == UnauthorizedFindings(ns)
                all == [id \in DOMAIN prior \cup DOMAIN found |->
                           IF id \in DOMAIN prior THEN prior[id] ELSE found[id]]
            IN  /\ ~(DOMAIN found \subseteq DOMAIN prior)
                /\ chain' = Append(Replayed(chain),
                               [Blank EXCEPT !.kind = "finding", !.stage = CurrentStage(chain),
                                             !.findings = all, !.sealed = all])
      BY <2>1, ZenonT(60) DEF Reconcile
    <3> DEFINE fs == [id \in DOMAIN Findings(chain) \cup DOMAIN UnauthorizedFindings(ns) |->
                         IF id \in DOMAIN Findings(chain) THEN Findings(chain)[id]
                         ELSE UnauthorizedFindings(ns)[id]]
               r == [Blank EXCEPT !.kind = "finding", !.stage = CurrentStage(chain),
                                  !.findings = fs, !.sealed = fs]
               d == Replayed(chain)
    <3>2. /\ ~(DOMAIN UnauthorizedFindings(ns) \subseteq DOMAIN Findings(chain))
          /\ chain' = Append(d, r)
      BY <3>1
    <3>3. Reviewed(d, r) /\ DOMAIN r = DOMAIN Blank
      BY <1>1, <3>2, ReconciledReviewed
    <3>4. IsChain(d) /\ AllReviewed(d) /\ Len(d) = Len(chain)
      BY <1>1, ReplayReviewed
    <3> HIDE DEF r, d
    <3>5. AllReviewed(Append(d, r)) /\ Len(Append(d, r)) = Len(d) + 1
      BY <3>3, <3>4, AppendReviewed
    <3> QED BY <1>1, <3>2, <3>4, <3>5
  <2>2. CASE LoopEvidence
    <3>1. PICK unit \in Units, base \in Bases, d \in Digests :
              chain' = Append(chain, EvidenceFor(unit, base, d))
      BY <2>2 DEF LoopEvidence
    <3> DEFINE r == EvidenceFor(unit, base, d)
    <3>2. Bare(r) /\ DOMAIN r = DOMAIN Blank
      BY <1>n DEF EvidenceFor, Blank, Bare, Applied
    <3> HIDE DEF r
    <3>3. AllReviewed(Append(chain, r)) /\ Len(Append(chain, r)) = Len(chain) + 1
      BY <1>1, <3>2, BareReviewed, AppendReviewed
    <3> QED BY <1>1, <3>1, <3>3 DEF r
  <2> QED BY <2>1, <2>2
<1>3. pc' = pc /\ job' = job
  BY DEF Reconcile, LoopEvidence
<1> QED BY <1>2, <1>3, GrowthReviewed

\* The records of two chains, one after the other.
LEMMA JoinedRecords ==
    ASSUME NEW S, NEW c \in Seq(S), NEW e \in Seq(S)
    PROVE  /\ Len(c \o e) = Len(c) + Len(e)
           /\ \A i \in 1..Len(c) : (c \o e)[i] = c[i]
           /\ \A i \in (Len(c) + 1)..Len(c \o e) : (c \o e)[i] = e[i - Len(c)]
OBVIOUS

\* hma host credit, however far it got.
LEMMA CreditReviewed ==
    ASSUME ReviewInv, IInv', Credit
    PROVE  ReviewInv'
<1>1. PICK unit \in Units, base \in Bases, d \in Digests : \E k : \E n \in 1..k :
          \/ chain' = Checked(unit, base, d, n)
          \/ \E results : chain' = Append(Checked(unit, base, d, n),
                                          CreditRecord(unit, results))
  BY DEF Credit
<1>2. PICK k : \E n \in 1..k :
          \/ chain' = Checked(unit, base, d, n)
          \/ \E results : chain' = Append(Checked(unit, base, d, n),
                                          CreditRecord(unit, results))
  BY <1>1
<1>3. PICK n \in 1..k :
          \/ chain' = Checked(unit, base, d, n)
          \/ \E results : chain' = Append(Checked(unit, base, d, n),
                                          CreditRecord(unit, results))
  BY <1>2
<1> DEFINE r == EvidenceFor(unit, base, d)
           e == [i \in 1..n |-> r]
           c == Replayed(chain)
           f == Checked(unit, base, d, n)
<1>4. /\ n \in Nat /\ n > 0 /\ Len(chain) \in Nat
      /\ IsChain(chain) /\ SpendsOnce(chain) /\ AllReviewed(chain)
  BY DEF ReviewInv, IInv, NoncesSpentOnce, IsChain
<1>5. None # "PARTIAL" /\ None # "APPROVED"
  BY NoneAssumption DEF Outcomes, stoppingOutcomes
<1>6. Bare(r) /\ DOMAIN r = DOMAIN Blank
  BY <1>5 DEF EvidenceFor, Blank, Bare, Applied
<1>7. f = c \o e /\ IsChain(f)
  BY <1>4, CheckedSpendsOnce DEF Checked, ReviewInv
<1>8. IsChain(c) /\ AllReviewed(c) /\ Len(c) = Len(chain)
  BY <1>4, ReplayReviewed
<1>9. /\ Len(f) = Len(c) + n
      /\ \A i \in 1..Len(c) : f[i] = c[i]
      /\ \A i \in (Len(c) + 1)..Len(f) : f[i] = r
  <2> DEFINE S == {c[i] : i \in DOMAIN c} \cup {r}
  <2>1. c \in Seq(S) /\ r \in S
    BY <1>8 DEF IsChain
  <2> HIDE DEF S, r, c
  <2>2. e \in Seq(S) /\ Len(e) = n /\ \A i \in 1..n : e[i] = r
    BY <1>4, <2>1
  <2>3. f = c \o e /\ Len(c) \in Nat
    BY <1>4, <1>7, <1>8
  <2> HIDE DEF e, f
  <2>4. /\ Len(f) = Len(c) + Len(e)
        /\ \A i \in 1..Len(c) : f[i] = c[i]
        /\ \A i \in (Len(c) + 1)..Len(f) : f[i] = e[i - Len(c)]
    BY <2>1, <2>2, <2>3, JoinedRecords
  <2>5. \A i \in (Len(c) + 1)..Len(f) : i - Len(c) \in 1..n
    BY <1>4, <2>2, <2>3, <2>4
  <2> QED BY <2>2, <2>4, <2>5
<1> HIDE DEF r, e, f, c
<1>10. AllReviewed(f) /\ Len(f) > Len(chain)
  <2>1. Len(f) >= Len(c) /\ Len(f) > Len(chain)
    BY <1>4, <1>8, <1>9
  <2> QED BY <1>6, <1>7, <1>8, <1>9, <2>1, ContinuedReviewed
<1>11. AllReviewed(chain') /\ Len(chain') > Len(chain)
  <2>1. CASE chain' = f
    BY <1>10, <2>1
  <2>2. ASSUME NEW results, chain' = Append(f, CreditRecord(unit, results))
        PROVE  AllReviewed(chain') /\ Len(chain') > Len(chain)
    <3> DEFINE last == CreditRecord(unit, results)
    <3>1. Bare(last) /\ DOMAIN last = DOMAIN Blank
      BY <1>5 DEF CreditRecord, Blank, Bare, Applied
    <3> HIDE DEF last
    <3>2. AllReviewed(Append(f, last)) /\ Len(Append(f, last)) = Len(f) + 1
      BY <1>7, <1>10, <3>1, BareReviewed, AppendReviewed
    <3>3. Len(f) \in Nat
      BY <1>7 DEF IsChain
    <3> QED BY <1>4, <1>10, <2>2, <3>2, <3>3 DEF last
  <2> QED BY <1>3, <2>1, <2>2 DEF f
<1>12. pc' = pc /\ job' = job
  BY DEF Credit
<1> QED BY <1>11, <1>12, GrowthReviewed

\* Every step keeps every record in order.
LEMMA NextReviewed == ReviewInv /\ [Next]_vars => ReviewInv'
<1> SUFFICES ASSUME ReviewInv, [Next]_vars PROVE ReviewInv'
  OBVIOUS
<1>1. IInv'
  BY NextIInv DEF ReviewInv
<1>2. ASSUME NEW p \in Procs, Abandon(p) PROVE ReviewInv'
  <2>1. DOMAIN job = Procs
    BY DEF ReviewInv, IInv
  <2>2. Goto(p, "idle") /\ chain' = chain /\ \A q \in Procs \ {p} : job'[q] = job[q]
    BY <1>2, <2>1 DEF Abandon, Finish
  <2>3. "idle" \notin {"evaluate", "append"}
    OBVIOUS
  <2> QED BY <1>1, <2>2, <2>3, IdleReviewed
<1>3. CASE RepositoryChange \/ UNCHANGED vars
  BY <1>1, <1>3 DEF RepositoryChange, vars, ReviewInv, JobReviewed
<1>4. ASSUME NEW p \in Procs,
             \/ TransitionBegin(p) \/ TransitionGate(p) \/ TransitionEvaluate(p)
             \/ PilotBegin(p) \/ PilotEvaluate(p) \/ PilotCapture(p)
             \/ CIBegin(p) \/ CICapture(p)
             \/ Resolve(p) \/ CriteriaBaseline(p) \/ FindingsImport(p)
             \/ AppendNext(p)
      PROVE  ReviewInv'
  BY <1>1, <1>4, TransitionReviewed, BareCommandReviewed, ReviewCommandReviewed,
     AppendNextReviewed
<1> QED BY <1>1, <1>2, <1>3, <1>4, ReconcileReviewed, CreditReviewed DEF Next

LEMMA InitReviewed == Init => ReviewInv
<1> SUFFICES ASSUME Init PROVE ReviewInv
  OBVIOUS
<1>1. AllReviewed(chain)
  <2>1. IsChain(chain) /\ \A i \in DOMAIN chain : Reviewed(Before(chain, i), chain[i])
    BY SeedsAssumption, ReviewedSeedsAssumption DEF Init
  <2> QED BY <2>1 DEF AllReviewed, IsChain
<1>2. \A p \in Procs : JobReviewed(p)
  BY DEF Init, JobReviewed
<1> QED BY <1>1, <1>2, InitIInv DEF ReviewInv

\* What the order of every record says of the chain.
LEMMA ReviewMeans ==
    ReviewInv => /\ PartialResolved(chain) /\ ReviewExitResolved /\ WaiversAlternate
                 /\ FindingsKept
<1> SUFFICES ASSUME ReviewInv
             PROVE  /\ PartialResolved(chain) /\ ReviewExitResolved /\ WaiversAlternate
                    /\ FindingsKept
  OBVIOUS
<1>1. IsChain(chain) /\ AllReviewed(chain)
  BY DEF ReviewInv, IInv
<1>2. \A i \in DOMAIN chain : Reviewed(Before(chain, i), chain[i])
  BY <1>1 DEF AllReviewed, IsChain
<1>3. PartialResolved(chain) /\ ReviewExitResolved /\ WaiversAlternate /\ ForeignFindingsKept
  BY <1>2 DEF PartialResolved, ReviewExitResolved, WaiversAlternate, ForeignFindingsKept,
              Reviewed
<1>4. UnauthorizedStays
  BY <1>1, HeldOf, HeldStays
<1> QED BY <1>3, <1>4 DEF FindingsKept

\* A run ends only as the chain its outcome lands on allows: for the worst
\* failure standing there, or PARTIAL under a contract, with the criteria as
\* they then are and every finding disposed of, whatever was recorded between
\* the host gate's reads and Store.Append.
THEOREM EndsAreJustified == Spec => []EndJustified
<1>1. BoundInv /\ ReviewInv => EndJustified
  BY BoundMeans, ReviewMeans DEF EndJustified
<1> QED BY <1>1, InitBacked, NextBacked, InitReviewed, NextReviewed, PTL DEF Spec

\* A unit leaves implementation review with no BLOCK of its own or of no
\* owner and every WAIVABLE finding under a waiver, in the chain its decision
\* lands on, although reviews, overrides and waivers land while it is made.
THEOREM ReviewsExitResolved == Spec => []ReviewExitResolved
BY InitReviewed, NextReviewed, ReviewMeans, PTL DEF Spec

\* A scope's waivers are granted and given up in turn, and none is granted for
\* a finding that is gone or is a BLOCK, whatever commands race.
THEOREM WaiversTakeTurns == Spec => []WaiversAlternate
BY InitReviewed, NextReviewed, ReviewMeans, PTL DEF Spec

\* A review leaves other owners' findings as they are when its snapshot lands,
\* and what HMA found of a launch nobody authorized stands for good, although
\* a replay that is written back overwrites lists of findings.
THEOREM FindingsAreKept == Spec => []FindingsKept
BY InitReviewed, NextReviewed, ReviewMeans, PTL DEF Spec
-----------------------------------------------------------------------------
(* Types.  What a command appends is well formed because its packet is,    *)
(* and stays within the bound because a command starts only with room for  *)
(* its records and loses it only with its position.                        *)

AllFormed(c) == \A i \in 1..Len(c) : WellFormed(c[i])

\* The bound leaves room for n more records.
Fits(n) == \E seed \in Seeds : Len(chain) + n <= Len(seed) + Growth[seed]

\* The records the command has room for, if its position is still the end of
\* the chain, and the packet or records it holds.
JobTyped(p) ==
    /\ pc[p] \in {"gate", "evaluate"} => hostLock = p
    /\ pc[p] = "idle" => hostLock # p /\ job[p] = NoJob
    /\ pc[p] \notin {"idle", "append"} => job[p].packet \in Approvals
    /\ pc[p] = "append" => AllFormed(job[p].want)
    /\ job[p].at = Len(chain) + 1 =>
          /\ pc[p] \in {"gate", "evaluate", "ciCapture"} => Fits(1)
          /\ pc[p] \in {"pilotLoad", "pilotCapture"} => Fits(2)
          /\ pc[p] = "append" => Fits(Len(job[p].want))

Places == {"idle", "gate", "evaluate", "append", "pilotLoad", "pilotCapture", "ciCapture"}

TypeInv ==
    /\ IInv
    /\ AllFormed(chain)
    /\ Fits(0)
    /\ repo \in Repos
    /\ hostLock \in Procs \cup {None}
    /\ pc \in [Procs -> Places]
    /\ \A p \in Procs : JobTyped(p)

\* The run is always in a stage.
LEMMA StageFormed ==
    ASSUME NEW c, IsChain(c), AllFormed(c)
    PROVE  CurrentStage(c) \in Stages
<1> DEFINE I == {i \in 1..Len(c) : ApprovedMove(c[i])}
<1>1. SelectLastInSeq(c, ApprovedMove) = IF I # {} THEN Max(I) ELSE 0
  BY DEF SelectLastInSeq
<1>2. CASE I = {}
  BY <1>1, <1>2 DEF CurrentStage, Stages
<1>3. CASE I # {}
  <2>1. Len(c) \in Nat /\ I \subseteq 1..Len(c)
    BY DEF IsChain
  <2>2. Max(I) \in I
    <3> HIDE DEF I
    <3> QED BY <1>3, <2>1, MaxOf
  <2>3. c[Max(I)].approval.to \in Stages
    BY <2>2 DEF AllFormed, WellFormed, ApprovedMove, Approvals
  <2>4. CurrentStage(c) = c[Max(I)].approval.to
    <3>1. Max(I) # 0
      BY <2>2
    <3> HIDE DEF I
    <3> QED BY <1>1, <1>3, <3>1 DEF CurrentStage
  <2> QED BY <2>3, <2>4
<1> QED BY <1>2, <1>3

\* A record of which nothing but the kind, stage, unit, evidence, maps and
\* resolution is filled in.
LEMMA PlainFormed ==
    ASSUME NEW r,
           r.kind \in {"evidence", "criterion", "waiver_operation", "finding_override",
                       "finding"},
           r.control = None, r.stage \in Stages \cup {None}, r.unit \in Units \cup {None},
           r.outcome = None, r.approval = None, r.evidence \in Evidences \cup {None}
    PROVE  WellFormed(r)
BY DEF WellFormed

\* The record of an approved decision.
LEMMA AppliedFormed ==
    ASSUME NEW c, NEW a \in Approvals
    PROVE  WellFormed(AppliedRecord(c, a))
<1> DEFINE r == AppliedRecord(c, a)
<1>1. /\ r.kind \in {"classification", "outcome", "stage_transition"}
      /\ r.control = "APPROVED" /\ r.stage = a.from /\ r.unit = a.unit /\ r.approval = a
      /\ r.outcome \in {None, a.outcome} /\ r.evidence = None
  BY DEF AppliedRecord, Blank
<1>2. /\ a.from \in Stages /\ a.unit \in Units \cup {None}
      /\ a.outcome \in Outcomes \cup {None}
  BY DEF Approvals
<1> HIDE DEF r
<1> QED BY <1>1, <1>2 DEF WellFormed, r

\* What a pilot files.
LEMMA PilotFormed ==
    ASSUME NEW a \in Approvals, NEW d \in Digests, NEW s, s.head \in Heads
    PROVE  AllFormed(PilotRecords(a, d, s))
<1> DEFINE rs == PilotRecords(a, d, s)
           e == [digest |-> d, base |-> a.base, head |-> s.head]
<1>1. a.from \in Stages /\ e \in Evidences
  BY DEF Approvals, Evidences
<1>2. /\ Len(rs) = 2
      /\ rs[1].kind = "stage_transition" /\ rs[1].control = "READY_FOR_REVIEW"
      /\ rs[1].stage = a.from /\ rs[1].unit = None /\ rs[1].outcome = None
      /\ rs[1].approval = a /\ rs[1].evidence = None
      /\ rs[2].kind = "evidence" /\ rs[2].control = "READY_FOR_REVIEW"
      /\ rs[2].stage = a.from /\ rs[2].unit = None /\ rs[2].outcome = None
      /\ rs[2].approval = None /\ rs[2].evidence = e
  BY DEF PilotRecords, Blank
<1> HIDE DEF rs, e
<1>3. WellFormed(rs[1]) /\ WellFormed(rs[2])
  BY <1>1, <1>2 DEF WellFormed
<1> QED BY <1>2, <1>3 DEF AllFormed, rs

\* Replaying a chain changes nothing but findings.
LEMMA ReplayFormed ==
    ASSUME NEW c, IsChain(c), SpendsOnce(c), AllFormed(c)
    PROVE  AllFormed(Replayed(c)) /\ Len(Replayed(c)) = Len(c)
<1> DEFINE d == Replayed(c)
<1>1. Len(c) \in Nat /\ DOMAIN c = 1..Len(c) /\ Len(d) = Len(c)
  <2>1. Len(d) = Len(c) /\ Len(c) \in Nat
    BY ReplayedSpends
  <2>2. DOMAIN c = 1..Len(c)
    BY DEF IsChain
  <2> QED BY <2>1, <2>2
<1>2. ASSUME NEW i \in 1..Len(c) PROVE WellFormed(d[i])
  <2>1. DOMAIN c[i] = DOMAIN Blank
    BY <1>1 DEF IsChain
  <2>2. {"kind", "control", "stage", "unit", "outcome", "approval", "evidence"}
            \subseteq DOMAIN c[i]
    BY <2>1 DEF Blank
  <2>3. d[i] = c[i] \/ \E f : d[i] = [c[i] EXCEPT !.findings = f]
    BY <1>1 DEF Replayed
  <2>4. /\ d[i].kind = c[i].kind /\ d[i].control = c[i].control /\ d[i].stage = c[i].stage
        /\ d[i].unit = c[i].unit /\ d[i].outcome = c[i].outcome
        /\ d[i].approval = c[i].approval /\ d[i].evidence = c[i].evidence
    BY <2>2, <2>3
  <2>5. WellFormed(c[i])
    BY DEF AllFormed
  <2> HIDE DEF d
  <2> QED BY <2>4, <2>5 DEF WellFormed
<1> HIDE DEF d
<1> QED BY <1>1, <1>2 DEF AllFormed, d

\* A record joins a chain.
LEMMA AppendFormed ==
    ASSUME NEW c, IsChain(c), AllFormed(c), NEW r, WellFormed(r)
    PROVE  AllFormed(Append(c, r)) /\ Len(Append(c, r)) = Len(c) + 1
<1> DEFINE S == {c[i] : i \in DOMAIN c} \cup {r}
           e == Append(c, r)
<1>1. c \in Seq(S) /\ r \in S
  BY DEF IsChain
<1>2. /\ Len(c) \in Nat /\ Len(e) = Len(c) + 1
      /\ \A i \in 1..Len(c) : e[i] = c[i]
      /\ e[Len(c) + 1] = r
  <2> HIDE DEF S
  <2> QED BY <1>1
<1> HIDE DEF S, e
<1>3. \A i \in 1..Len(e) : i \in 1..Len(c) \/ i = Len(c) + 1
  BY <1>2
<1> QED BY <1>2, <1>3 DEF AllFormed, e

\* A chain that grows has used up some of the room there was.
LEMMA GrownFits ==
    ASSUME IsChain(chain), NEW m \in Nat, NEW n \in Nat, Fits(m + n),
           NEW d, Len(d) = Len(chain) + m
    PROVE  \E seed \in Seeds : Len(d) + n <= Len(seed) + Growth[seed]
<1>1. PICK seed \in Seeds : Len(chain) + (m + n) <= Len(seed) + Growth[seed]
  BY DEF Fits
<1>2. Len(chain) \in Nat /\ Len(seed) \in Nat /\ Growth[seed] \in Nat
  BY SeedsAssumption, TypesAssumption DEF IsChain
<1>3. Len(d) + n <= Len(seed) + Growth[seed]
  BY <1>1, <1>2
<1> QED BY <1>3

LEMMA RoomFits == ASSUME NEW n, Room(n) PROVE Fits(n)
BY DEF Room, Fits

\* A step of one command that appends nothing.
LEMMA JobStepTyped ==
    ASSUME TypeInv, IInv', NEW p \in Procs, NEW l \in Places, Goto(p, l),
           chain' = chain, repo' = repo, \A q \in Procs \ {p} : job'[q] = job[q],
           hostLock' \in Procs \cup {None},
           \A q \in Procs \ {p} : hostLock' = q <=> hostLock = q,
           JobTyped(p)'
    PROVE  TypeInv'
<1>1. pc \in [Procs -> Places] /\ pc' = [pc EXCEPT ![p] = l]
  BY DEF TypeInv, Goto
<1>2. pc' \in [Procs -> Places] /\ \A q \in Procs \ {p} : pc'[q] = pc[q]
  BY <1>1
<1>3. ASSUME NEW q \in Procs PROVE JobTyped(q)'
  <2>1. CASE q = p
    BY <2>1
  <2>2. CASE q # p
    <3>1. /\ JobTyped(q) /\ pc'[q] = pc[q] /\ job'[q] = job[q]
          /\ hostLock' = q <=> hostLock = q
      BY <1>2, <2>2 DEF TypeInv
    <3> QED BY <3>1 DEF JobTyped, Fits
  <2> QED BY <2>1, <2>2
<1> QED BY <1>2, <1>3 DEF TypeInv, Fits

\* One that starts on packet, for the next position.
LEMMA TakeTyped ==
    ASSUME TypeInv, IInv', NEW p \in Procs, NEW l, Goto(p, l),
           chain' = chain, repo' = repo,
           \/ l = "gate" /\ hostLock = None /\ hostLock' = p /\ Fits(1)
           \/ l = "ciCapture" /\ hostLock' = hostLock /\ Fits(1)
           \/ l = "pilotLoad" /\ hostLock' = hostLock /\ Fits(2),
           NEW packet \in Approvals, NEW seen,
           job' = [job EXCEPT ![p] = [NoJob EXCEPT !.packet = packet,
                                                   !.at = Len(chain) + 1,
                                                   !.seen = seen]]
    PROVE  TypeInv'
<1>1. DOMAIN pc = Procs /\ DOMAIN job = Procs /\ None \notin Procs
  BY NoneAssumption DEF TypeInv, IInv
<1>2. job'[p].packet = packet /\ \A q \in Procs \ {p} : job'[q] = job[q]
  BY <1>1 DEF NoJob
<1>3. pc'[p] = l /\ l \in Places \ {"idle", "append"}
  BY <1>1 DEF Goto, Places
<1>4. /\ hostLock' \in Procs \cup {None}
      /\ \A q \in Procs \ {p} : hostLock' = q <=> hostLock = q
      /\ l \in {"gate", "evaluate"} => hostLock' = p
  BY <1>1 DEF TypeInv
<1>5. JobTyped(p)'
  BY <1>2, <1>3, <1>4 DEF JobTyped, Fits
<1> QED BY <1>2, <1>3, <1>4, <1>5, JobStepTyped

\* One that presents a packet.
LEMMA PresentTyped ==
    ASSUME TypeInv, IInv', NEW p \in Procs, NEW l, Present(p, l),
           chain' = chain, repo' = repo,
           \/ l = "gate" /\ hostLock = None /\ hostLock' = p /\ Fits(1)
           \/ l = "pilotLoad" /\ hostLock' = hostLock /\ Fits(2)
    PROVE  TypeInv'
<1>1. PICK k \in Packets, n \in Nonces :
          job' = [job EXCEPT ![p] = [NoJob EXCEPT !.packet = Approval(k, n, repo),
                                                  !.at = Len(chain) + 1,
                                                  !.seen = repo]]
  BY DEF Present
<1>2. Approval(k, n, repo) \in Approvals
  BY TypesAssumption DEF TypeInv
<1>3. Goto(p, l)
  BY DEF Present
<1> QED BY <1>1, <1>2, <1>3, TakeTyped

\* One that decides to append rs.
LEMMA DecideTyped ==
    ASSUME TypeInv, IInv', NEW p \in Procs, Goto(p, "append"),
           chain' = chain, repo' = repo, \A q \in Procs \ {p} : job'[q] = job[q],
           \/ hostLock' = hostLock
           \/ hostLock = None /\ hostLock' = p,
           NEW rs, job'[p].want = rs, AllFormed(rs),
           job'[p].at = Len(chain) + 1 => Fits(Len(rs))
    PROVE  TypeInv'
<1>1. DOMAIN pc = Procs /\ None \notin Procs
  BY NoneAssumption DEF TypeInv, IInv
<1>2. pc'[p] = "append" /\ "append" \in Places
  BY <1>1 DEF Goto, Places
<1>3. /\ hostLock' \in Procs \cup {None}
      /\ \A q \in Procs \ {p} : hostLock' = q <=> hostLock = q
  BY <1>1 DEF TypeInv
<1>4. JobTyped(p)'
  BY <1>2 DEF JobTyped, Fits
<1> QED BY <1>2, <1>3, <1>4, JobStepTyped

\* One that decides to append the one record r to the chain as it is.
LEMMA IntendTyped ==
    ASSUME TypeInv, IInv', NEW p \in Procs, NEW r, Intend(p, <<r>>),
           chain' = chain, repo' = repo,
           \/ hostLock' = hostLock
           \/ hostLock = None /\ hostLock' = p,
           WellFormed(r), Fits(1)
    PROVE  TypeInv'
<1>1. DOMAIN job = Procs /\ JobOK(p)
  BY DEF TypeInv, IInv
<1>2. job' = [job EXCEPT ![p].at = Len(chain) + 1, ![p].want = <<r>>]
      /\ Goto(p, "append")
  BY DEF Intend
<1>3. job'[p].want = <<r>> /\ \A q \in Procs \ {p} : job'[q] = job[q]
  BY <1>1, <1>2 DEF JobOK
<1>4. AllFormed(<<r>>) /\ Len(<<r>>) = 1
  BY DEF AllFormed
<1> QED BY <1>2, <1>3, <1>4, DecideTyped

\* hma transition, up to its append.
LEMMA TransitionTyped ==
    ASSUME TypeInv, IInv', NEW p \in Procs,
           TransitionBegin(p) \/ TransitionGate(p) \/ TransitionEvaluate(p)
    PROVE  TypeInv'
<1>0. DOMAIN pc = Procs /\ DOMAIN job = Procs /\ JobOK(p) /\ JobTyped(p)
  BY DEF TypeInv, IInv
<1>1. CASE TransitionBegin(p)
  BY <1>1, PresentTyped, RoomFits DEF TransitionBegin, Starts
<1>2. CASE TransitionGate(p)
  <2>1. /\ pc[p] = "gate" /\ Goto(p, "evaluate") /\ "evaluate" \in Places
        /\ UNCHANGED <<chain, repo, hostLock, job>>
    BY <1>2 DEF TransitionGate, Places
  <2>2. pc'[p] = "evaluate"
    BY <1>0, <2>1 DEF Goto
  <2>3. JobTyped(p)'
    BY <1>0, <2>1, <2>2 DEF JobTyped, Fits
  <2> QED BY <2>1, <2>3, JobStepTyped DEF TypeInv
<1>3. CASE TransitionEvaluate(p)
  <2> DEFINE a == job[p].packet
             r == AppliedRecord(chain, a)
  <2>1. /\ pc[p] = "evaluate" /\ job[p].at = Len(chain) + 1
        /\ Intend(p, <<r>>) /\ UNCHANGED <<chain, repo, hostLock>>
    BY <1>3 DEF TransitionEvaluate, AdmitsTransition, AdmitsApproval
  <2>2. WellFormed(r) /\ Fits(1)
    BY <1>0, <2>1, AppliedFormed DEF JobTyped
  <2> HIDE DEF r
  <2> QED BY <2>1, <2>2, IntendTyped
<1> QED BY <1>1, <1>2, <1>3

\* hma pilot, up to its appends.
LEMMA PilotCommandTyped ==
    ASSUME TypeInv, IInv', NEW p \in Procs,
           PilotBegin(p) \/ PilotEvaluate(p) \/ PilotCapture(p)
    PROVE  TypeInv'
<1>0. DOMAIN pc = Procs /\ DOMAIN job = Procs /\ JobOK(p) /\ JobTyped(p)
  BY DEF TypeInv, IInv
<1>1. CASE PilotBegin(p)
  BY <1>1, PresentTyped, RoomFits DEF PilotBegin, Starts
<1>2. CASE PilotEvaluate(p)
  <2>1. /\ pc[p] = "pilotLoad" /\ Goto(p, "pilotCapture") /\ "pilotCapture" \in Places
        /\ UNCHANGED <<chain, repo, hostLock, job>>
    BY <1>2 DEF PilotEvaluate, Places
  <2>2. pc'[p] = "pilotCapture"
    BY <1>0, <2>1 DEF Goto
  <2>3. JobTyped(p)'
    BY <1>0, <2>1, <2>2 DEF JobTyped, Fits
  <2> QED BY <2>1, <2>3, JobStepTyped DEF TypeInv
<1>3. CASE PilotCapture(p)
  <2> DEFINE a == job[p].packet
  <2>1. PICK d \in Digests : job' = [job EXCEPT ![p].want = PilotRecords(a, d, repo)]
    BY <1>3 DEF PilotCapture
  <2> DEFINE rs == PilotRecords(a, d, repo)
  <2>2. /\ pc[p] = "pilotCapture" /\ Goto(p, "append")
        /\ UNCHANGED <<chain, repo, hostLock>>
    BY <1>3 DEF PilotCapture
  <2>3. /\ job'[p].want = rs /\ job'[p].at = job[p].at
        /\ \A q \in Procs \ {p} : job'[q] = job[q]
    BY <1>0, <2>1 DEF JobOK
  <2>4. a \in Approvals /\ repo.head \in Heads
    BY <1>0, <2>2 DEF JobTyped, TypeInv, Repos
  <2>5. AllFormed(rs) /\ Len(rs) = 2
    BY <2>4, PilotFormed, PilotRecordsSpend
  <2>6. job'[p].at = Len(chain) + 1 => Fits(Len(rs))
    BY <1>0, <2>2, <2>3, <2>5 DEF JobTyped
  <2> HIDE DEF rs
  <2> QED BY <2>2, <2>3, <2>5, <2>6, DecideTyped
<1> QED BY <1>1, <1>2, <1>3

\* hma ci github, up to its append: the packet is one of the chain's.
LEMMA CICommandTyped ==
    ASSUME TypeInv, IInv', NEW p \in Procs, CIBegin(p) \/ CICapture(p)
    PROVE  TypeInv'
<1>0. DOMAIN pc = Procs /\ DOMAIN job = Procs /\ JobOK(p) /\ JobTyped(p)
  BY DEF TypeInv, IInv
<1>1. CASE CIBegin(p)
  <2> DEFINE i == CIPacketAt(chain)
             a == chain[i].approval
             I == {j \in 1..Len(chain) :
                      chain[j].approval # None /\ chain[j].approval.from = CurrentStage(chain)}
  <2>1. /\ i # 0 /\ Goto(p, "ciCapture") /\ chain' = chain /\ repo' = repo
        /\ hostLock' = hostLock /\ Room(1)
        /\ job' = [job EXCEPT ![p] = [NoJob EXCEPT !.packet = a, !.at = Len(chain) + 1,
                                                   !.seen = repo]]
    BY <1>1 DEF CIBegin, AdmitsCI, Starts
  <2>2. i = Max(I) /\ I # {}
    BY <2>1 DEF CIPacketAt, SelectLastInSeq
  <2>3. Max(I) \in I
    <3>1. Len(chain) \in Nat /\ I \subseteq 1..Len(chain)
      BY DEF TypeInv, IInv, IsChain
    <3> HIDE DEF I, i
    <3> QED BY <2>2, <3>1, MaxOf
  <2>4. i \in 1..Len(chain) /\ chain[i].approval # None
    BY <2>2, <2>3
  <2>5. a \in Approvals
    <3> HIDE DEF i
    <3> QED BY <2>4 DEF TypeInv, AllFormed, WellFormed
  <2> HIDE DEF i, a
  <2> QED BY <2>1, <2>5, TakeTyped, RoomFits
<1>2. CASE CICapture(p)
  <2> DEFINE a == job[p].packet
  <2>1. PICK d \in Digests :
            job' = [job EXCEPT ![p].want =
              <<[Blank EXCEPT !.kind = "evidence", !.stage = a.from,
                    !.evidence = [digest |-> d, base |-> a.base, head |-> repo.head]]>>]
    BY <1>2 DEF CICapture
  <2> DEFINE e == [digest |-> d, base |-> a.base, head |-> repo.head]
             r == [Blank EXCEPT !.kind = "evidence", !.stage = a.from, !.evidence = e]
  <2>2. pc[p] = "ciCapture" /\ Goto(p, "append") /\ UNCHANGED <<chain, repo, hostLock>>
    BY <1>2 DEF CICapture
  <2>3. /\ job'[p].want = <<r>> /\ job'[p].at = job[p].at
        /\ \A q \in Procs \ {p} : job'[q] = job[q]
    BY <1>0, <2>1 DEF JobOK
  <2>4. a \in Approvals /\ repo.head \in Heads
    BY <1>0, <2>2 DEF JobTyped, TypeInv, Repos
  <2>5. a.from \in Stages /\ e \in Evidences
    BY <2>4 DEF Approvals, Evidences
  <2> HIDE DEF a, e
  <2>6. /\ r.kind = "evidence" /\ r.control = None /\ r.stage = a.from /\ r.unit = None
        /\ r.outcome = None /\ r.approval = None /\ r.evidence = e
    BY DEF Blank
  <2> HIDE DEF r
  <2>7. AllFormed(<<r>>) /\ Len(<<r>>) = 1
    BY <2>5, <2>6, PlainFormed DEF AllFormed
  <2>8. job'[p].at = Len(chain) + 1 => Fits(Len(<<r>>))
    BY <1>0, <2>2, <2>3, <2>7 DEF JobTyped
  <2> QED BY <2>2, <2>3, <2>7, <2>8, DecideTyped
<1> QED BY <1>1, <1>2

\* hma resolve, hmarun's criterion baseline, and hma host findings-import.
LEMMA PlainCommandTyped ==
    ASSUME TypeInv, IInv', NEW p \in Procs,
           Resolve(p) \/ CriteriaBaseline(p) \/ FindingsImport(p)
    PROVE  TypeInv'
<1>1. CASE Resolve(p)
  <2>1. PICK o \in Operations, n \in Nonces :
            Intend(p, <<ResolutionRecord(Resolution(o, n))>>)
    BY <1>1 DEF Resolve
  <2> DEFINE r == ResolutionRecord(Resolution(o, n))
  <2>2. /\ r.kind \in {"finding_override", "waiver_operation"}
        /\ r.control = None /\ r.stage = None /\ r.unit = o.unit
        /\ r.outcome = None /\ r.approval = None /\ r.evidence = None
    BY DEF ResolutionRecord, Resolution, Blank
  <2>3. Intend(p, <<r>>) /\ Fits(1) /\ UNCHANGED <<chain, repo, hostLock>>
    BY <1>1, <2>1, RoomFits DEF Resolve, Starts
  <2>4. o.unit \in Units \cup {None}
    BY TypesAssumption
  <2> HIDE DEF r
  <2>5. WellFormed(r)
    BY <2>2, <2>4, PlainFormed
  <2> QED BY <2>3, <2>5, IntendTyped
<1>2. CASE CriteriaBaseline(p)
  <2>1. PICK k \in Contracts :
          Intend(p, <<[Blank EXCEPT !.kind = "criterion", !.stage = "ACCEPTANCE_CRITERIA",
                          !.criteria = [c \in CriteriaOf[k] |-> "PENDING"]]>>)
    BY <1>2 DEF CriteriaBaseline
  <2> DEFINE r == [Blank EXCEPT !.kind = "criterion", !.stage = "ACCEPTANCE_CRITERIA",
                      !.criteria = [c \in CriteriaOf[k] |-> "PENDING"]]
  <2>2. /\ r.kind = "criterion" /\ r.control = None /\ r.stage = "ACCEPTANCE_CRITERIA"
        /\ r.unit = None /\ r.outcome = None /\ r.approval = None /\ r.evidence = None
    BY DEF Blank
  <2>3. Intend(p, <<r>>) /\ Fits(1) /\ UNCHANGED <<chain, repo, hostLock>>
    BY <1>2, <2>1, RoomFits DEF CriteriaBaseline, Starts
  <2> HIDE DEF r
  <2>4. WellFormed(r)
    BY <2>2, PlainFormed DEF Stages
  <2> QED BY <2>3, <2>4, IntendTyped
<1>3. CASE FindingsImport(p)
  <2>1. PICK rep \in Reports : Intend(p, <<SnapshotRecord(chain, rep)>>)
    BY <1>3 DEF FindingsImport
  <2> DEFINE r == SnapshotRecord(chain, rep)
  <2>2. /\ r.kind = "finding" /\ r.control = None /\ r.stage = None /\ r.unit = rep.unit
        /\ r.outcome = None /\ r.approval = None /\ r.evidence = None
    BY DEF SnapshotRecord, Blank
  <2>3. /\ Intend(p, <<r>>) /\ Fits(1) /\ UNCHANGED <<chain, repo>>
        /\ hostLock = None /\ hostLock' = p
    BY <1>3, <2>1, RoomFits DEF FindingsImport, Starts
  <2> HIDE DEF r
  <2>4. WellFormed(r)
    BY <2>2, InputsAssumption, PlainFormed
  <2> QED BY <2>3, <2>4, IntendTyped
<1> QED BY <1>1, <1>2, <1>3

\* A command that ends lets go of the host run lock, if it holds it.
LEMMA FinishTyped ==
    ASSUME TypeInv, NEW p \in Procs, Finish(p)
    PROVE  /\ pc' \in [Procs -> Places] /\ pc'[p] = "idle" /\ job'[p] = NoJob
           /\ hostLock' \in Procs \cup {None} /\ hostLock' # p
           /\ \A q \in Procs \ {p} :
                 /\ pc'[q] = pc[q] /\ job'[q] = job[q]
                 /\ hostLock' = q <=> hostLock = q
<1>1. pc \in [Procs -> Places] /\ DOMAIN job = Procs /\ None \notin Procs
  BY NoneAssumption DEF TypeInv, IInv
<1>2. /\ pc' = [pc EXCEPT ![p] = "idle"] /\ job' = [job EXCEPT ![p] = NoJob]
      /\ hostLock' = IF hostLock = p THEN None ELSE hostLock
  BY DEF Finish, Goto
<1>3. "idle" \in Places
  BY DEF Places
<1> QED BY <1>1, <1>2, <1>3 DEF TypeInv

\* Store.Append.
LEMMA AppendNextTyped ==
    ASSUME TypeInv, IInv', NEW p \in Procs, AppendNext(p)
    PROVE  TypeInv'
<1> DEFINE rs == job[p].want
           r == Head(rs)
<1>1. /\ IsChain(chain) /\ Len(chain) \in Nat
      /\ DOMAIN job = Procs /\ JobOK(p) /\ JobTyped(p)
      /\ pc[p] = "append" /\ job[p].at = Len(chain) + 1 /\ job[p].at \in Nat
      /\ chain' = Append(chain, r) /\ repo' = repo
  <2>1. IsChain(chain) /\ DOMAIN job = Procs /\ JobOK(p) /\ JobTyped(p)
    BY DEF TypeInv, IInv
  <2>2. Len(chain) \in Nat /\ job[p].at \in Nat
    BY <2>1 DEF IsChain, JobOK
  <2>3. /\ pc[p] = "append" /\ job[p].at = Len(chain) + 1
        /\ chain' = Append(chain, r) /\ repo' = repo
    BY DEF AppendNext, ExtendsChain
  <2> QED BY <2>1, <2>2, <2>3
<1>2. /\ IsChain(rs) /\ Len(rs) >= 1 /\ Len(rs) \in Nat /\ r = rs[1]
      /\ AllFormed(rs) /\ Fits(Len(rs))
  <2>1. IsChain(rs) /\ Len(rs) >= 1 /\ AllFormed(rs) /\ Fits(Len(rs))
    BY <1>1 DEF JobOK, JobTyped
  <2> HIDE DEF rs
  <2> QED BY <2>1 DEF IsChain
<1> HIDE DEF rs, r
<1>3. AllFormed(chain') /\ Len(chain') = Len(chain) + 1
  <2>1. WellFormed(r)
    BY <1>2 DEF AllFormed
  <2> QED BY <1>1, <2>1, AppendFormed DEF TypeInv
<1>4. ASSUME NEW n \in Nat, n < Len(rs)
      PROVE  \E seed \in Seeds : Len(chain') + n <= Len(seed) + Growth[seed]
  <2>1. PICK seed \in Seeds : Len(chain) + Len(rs) <= Len(seed) + Growth[seed]
    BY <1>2 DEF Fits
  <2>2. Len(seed) \in Nat /\ Growth[seed] \in Nat
    BY SeedsAssumption, TypesAssumption DEF IsChain
  <2>3. Len(chain') + n <= Len(seed) + Growth[seed]
    BY <1>1, <1>2, <1>3, <1>4, <2>1, <2>2
  <2> QED BY <2>3
<1>5. /\ pc' \in [Procs -> Places] /\ hostLock' \in Procs \cup {None}
      /\ \A q \in Procs \ {p} :
            /\ pc'[q] = pc[q] /\ job'[q] = job[q]
            /\ hostLock' = q <=> hostLock = q
      /\ JobTyped(p)'
  <2>1. CASE Len(rs) > 1
    <3>1. /\ job' = [job EXCEPT ![p].want = Tail(rs), ![p].at = job[p].at + 1]
          /\ pc' = pc /\ hostLock' = hostLock
      BY <1>1, <2>1 DEF AppendNext, rs, JobOK
    <3>2. /\ job'[p].want = Tail(rs)
          /\ \A q \in Procs \ {p} : job'[q] = job[q]
      BY <1>1, <3>1 DEF JobOK
    <3>3. /\ Len(Tail(rs)) \in Nat /\ Len(Tail(rs)) = Len(rs) - 1
          /\ \A i \in 1..Len(Tail(rs)) : Tail(rs)[i] = rs[i + 1] /\ i + 1 \in 1..Len(rs)
      <4> DEFINE S == {rs[i] : i \in DOMAIN rs}
      <4>1. rs \in Seq(S)
        BY <1>2 DEF IsChain
      <4> HIDE DEF S
      <4> QED BY <1>2, <2>1, <4>1
    <3>4. AllFormed(Tail(rs))
      BY <1>2, <3>3 DEF AllFormed
    <3>5. \E seed \in Seeds : Len(chain') + Len(job'[p].want) <= Len(seed) + Growth[seed]
      BY <1>2, <1>4, <3>2, <3>3
    <3>6. JobTyped(p)'
      BY <1>1, <3>1, <3>2, <3>4, <3>5 DEF JobTyped, Fits
    <3> QED BY <3>1, <3>2, <3>6 DEF TypeInv
  <2>2. CASE ~(Len(rs) > 1)
    <3>1. Finish(p)
      BY <2>2 DEF AppendNext, rs
    <3>2. JobTyped(p)'
      BY <3>1, FinishTyped DEF JobTyped
    <3> QED BY <3>1, <3>2, FinishTyped
  <2> QED BY <2>1, <2>2
<1>6. ASSUME NEW q \in Procs \ {p} PROVE JobTyped(q)'
  <2>1. /\ JobTyped(q) /\ JobOK(q) /\ pc'[q] = pc[q] /\ job'[q] = job[q]
        /\ hostLock' = q <=> hostLock = q
    BY <1>5 DEF TypeInv, IInv
  <2>2. job'[q].at # Len(chain') + 1
    BY <1>1, <1>3, <2>1 DEF JobOK
  <2> QED BY <2>1, <2>2 DEF JobTyped
<1>7. Fits(0)'
  BY <1>2, <1>4 DEF Fits
<1> QED BY <1>1, <1>3, <1>5, <1>6, <1>7 DEF TypeInv

\* Steps that lengthen the chain under every command in progress.
LEMMA GrowthTyped ==
    ASSUME TypeInv, IInv', UNCHANGED <<repo, hostLock, pc, job>>,
           AllFormed(chain'), Len(chain') > Len(chain),
           \E seed \in Seeds : Len(chain') + 0 <= Len(seed) + Growth[seed]
    PROVE  TypeInv'
<1>1. ASSUME NEW p \in Procs PROVE JobTyped(p)'
  <2>1. JobTyped(p) /\ JobOK(p) /\ Len(chain) \in Nat /\ Len(chain') \in Nat
    BY DEF TypeInv, IInv, IsChain
  <2>2. job'[p].at # Len(chain') + 1
    BY <2>1 DEF JobOK
  <2> QED BY <2>1, <2>2 DEF JobTyped
<1>2. Fits(0)'
  BY DEF Fits
<1> QED BY <1>1, <1>2 DEF TypeInv

\* Evidence of a credit's check, or of a loop's.
LEMMA EvidenceFormed ==
    ASSUME TypeInv, CurrentStage(chain) \in Stages,
           NEW unit \in Units, NEW base \in Bases, NEW d \in Digests
    PROVE  WellFormed(EvidenceFor(unit, base, d))
<1> DEFINE e == [digest |-> d, base |-> base, head |-> repo.head]
           r == EvidenceFor(unit, base, d)
<1>1. e \in Evidences
  BY DEF TypeInv, Repos, Evidences
<1>2. /\ r.kind = "evidence" /\ r.control = None /\ r.stage = CurrentStage(chain)
      /\ r.unit = unit /\ r.outcome = None /\ r.approval = None /\ r.evidence = e
  BY DEF EvidenceFor, Blank
<1> HIDE DEF e, r
<1> QED BY <1>1, <1>2, PlainFormed DEF r

\* hma host reconcile and hma host loop evidence.
LEMMA ReconcileTyped ==
    ASSUME TypeInv, IInv', Reconcile \/ LoopEvidence
    PROVE  TypeInv'
<1>1. IsChain(chain) /\ SpendsOnce(chain) /\ AllFormed(chain) /\ Len(chain) \in Nat
  BY DEF TypeInv, IInv, NoncesSpentOnce, IsChain
<1>2. CurrentStage(chain) \in Stages
  BY <1>1, StageFormed
<1>3. PICK c, r : /\ chain' = Append(c, r) /\ IsChain(c) /\ AllFormed(c)
                  /\ Len(c) = Len(chain) /\ WellFormed(r)
  <2>1. CASE Reconcile
    <3>1. PICK fs : chain' = Append(Replayed(chain),
                      [Blank EXCEPT !.kind = "finding", !.stage = CurrentStage(chain),
                                    !.findings = fs, !.sealed = fs])
      BY <2>1 DEF Reconcile
    <3> DEFINE r == [Blank EXCEPT !.kind = "finding", !.stage = CurrentStage(chain),
                                  !.findings = fs, !.sealed = fs]
    <3>2. /\ r.kind = "finding" /\ r.control = None /\ r.stage = CurrentStage(chain)
          /\ r.unit = None /\ r.outcome = None /\ r.approval = None /\ r.evidence = None
      BY DEF Blank
    <3>3. chain' = Append(Replayed(chain), r)
      BY <3>1
    <3> HIDE DEF r
    <3>4. WellFormed(r)
      BY <1>2, <3>2, PlainFormed
    <3> QED BY <1>1, <3>3, <3>4, ReplayFormed, ReplayedSpends
  <2>2. CASE LoopEvidence
    <3>1. PICK unit \in Units, base \in Bases, d \in Digests :
              chain' = Append(chain, EvidenceFor(unit, base, d))
      BY <2>2 DEF LoopEvidence
    <3>2. WellFormed(EvidenceFor(unit, base, d))
      BY <1>2, EvidenceFormed
    <3> QED BY <1>1, <3>1, <3>2
  <2> QED BY <2>1, <2>2
<1>4. AllFormed(chain') /\ Len(chain') = Len(chain) + 1
  BY <1>3, AppendFormed
<1>5. Fits(1 + 0) /\ UNCHANGED <<repo, hostLock, pc, job>>
  <2>1. Room(1) /\ UNCHANGED <<repo, hostLock, pc, job>>
    BY DEF Reconcile, LoopEvidence
  <2>2. 1 + 0 = 1
    OBVIOUS
  <2> QED BY <2>1, <2>2, RoomFits
<1>6. \E seed \in Seeds : Len(chain') + 0 <= Len(seed) + Growth[seed]
  BY <1>1, <1>4, <1>5, GrownFits
<1>7. Len(chain') > Len(chain)
  BY <1>1, <1>4
<1> QED BY <1>4, <1>5, <1>6, <1>7, GrowthTyped

\* The contract a run is under is one of the contracts.
LEMMA BoundFormed ==
    ASSUME NEW c, IsChain(c), AllFormed(c), BoundContractDigest(c) # None
    PROVE  BoundContractDigest(c) \in Contracts
<1> DEFINE I == {i \in 1..Len(c) : AcceptsContract(c[i])}
<1>1. SelectLastInSeq(c, AcceptsContract) = IF I # {} THEN Max(I) ELSE 0
  BY DEF SelectLastInSeq
<1>2. I # {}
  BY <1>1 DEF BoundContractDigest
<1>3. Len(c) \in Nat /\ I \subseteq 1..Len(c)
  BY DEF IsChain
<1>4. Max(I) \in I
  <2> HIDE DEF I
  <2> QED BY <1>2, <1>3, MaxOf
<1>5. c[Max(I)].approval.contract \in Contracts \cup {None}
  BY <1>4 DEF AllFormed, WellFormed, AcceptsContract, ApprovedMove, Approvals
<1>6. Max(I) # 0
  BY <1>4
<1> HIDE DEF I
<1>7. BoundContractDigest(c) = c[Max(I)].approval.contract
  BY <1>1, <1>2, <1>6 DEF BoundContractDigest
<1> QED BY <1>5, <1>7

\* hma host credit, however far it got: it checks finitely many criteria.
LEMMA CreditTyped ==
    ASSUME TypeInv, IInv', Credit
    PROVE  TypeInv'
<1>1. PICK unit \in Units, base \in Bases, d \in Digests,
           ids \in SUBSET CriteriaOf[BoundContractDigest(chain)] \ {{}} :
          /\ Room(Cardinality(ids) + 1)
          /\ \E n \in 1..Cardinality(ids) :
                \/ chain' = Checked(unit, base, d, n)
                \/ \E results : chain' = Append(Checked(unit, base, d, n),
                                                CreditRecord(unit, results))
  BY DEF Credit
<1> DEFINE k == Cardinality(ids)
<1>2. PICK n \in 1..k :
          \/ chain' = Checked(unit, base, d, n)
          \/ \E results : chain' = Append(Checked(unit, base, d, n),
                                          CreditRecord(unit, results))
  BY <1>1
<1>3. /\ IsChain(chain) /\ SpendsOnce(chain) /\ AllFormed(chain) /\ Len(chain) \in Nat
      /\ CurrentStage(chain) \in Stages
  BY StageFormed DEF TypeInv, IInv, NoncesSpentOnce, IsChain
<1>4. k \in Nat
  <2>1. BoundContractDigest(chain) \in Contracts
    BY <1>3, BoundFormed DEF Credit
  <2>2. IsFiniteSet(CriteriaOf[BoundContractDigest(chain)])
    BY <2>1, TypesAssumption
  <2>3. ids \subseteq CriteriaOf[BoundContractDigest(chain)]
    OBVIOUS
  <2>4. IsFiniteSet(ids)
    BY <2>2, <2>3, FS_Subset
  <2> QED BY <2>4, FS_CardinalityType
<1> HIDE DEF k
<1> DEFINE r == EvidenceFor(unit, base, d)
           e == [i \in 1..n |-> r]
           c == Replayed(chain)
           f == Checked(unit, base, d, n)
<1>5. n \in Nat /\ n >= 1 /\ n <= k
  BY <1>4
<1>6. WellFormed(r)
  BY <1>3, EvidenceFormed
<1>7. f = c \o e /\ IsChain(f) /\ Len(f) = Len(chain) + n
  <2>1. IsChain(f) /\ Len(f) = Len(chain) + n
    BY <1>5, CheckedSpendsOnce DEF TypeInv
  <2> QED BY <2>1 DEF Checked
<1>8. IsChain(c) /\ AllFormed(c) /\ Len(c) = Len(chain)
  BY <1>3, ReplayFormed, ReplayedSpends
<1>9. AllFormed(f)
  <2> DEFINE S == {c[i] : i \in DOMAIN c} \cup {r}
  <2>1. c \in Seq(S) /\ r \in S
    BY <1>8 DEF IsChain
  <2> HIDE DEF S, r, c
  <2>2. e \in Seq(S) /\ Len(e) = n /\ \A i \in 1..n : e[i] = r
    BY <1>5, <2>1
  <2>3. f = c \o e /\ Len(c) \in Nat
    BY <1>3, <1>7, <1>8
  <2> HIDE DEF e, f
  <2>4. /\ Len(f) = Len(c) + Len(e)
        /\ \A i \in 1..Len(c) : f[i] = c[i]
        /\ \A i \in (Len(c) + 1)..Len(f) : f[i] = e[i - Len(c)]
    <3>1. c \in Seq(S) /\ e \in Seq(S)
      BY <2>1, <2>2
    <3>2. /\ Len(c \o e) = Len(c) + Len(e)
          /\ \A i \in 1..Len(c) : (c \o e)[i] = c[i]
          /\ \A i \in (Len(c) + 1)..Len(c \o e) : (c \o e)[i] = e[i - Len(c)]
      BY <3>1, JoinedRecords
    <3>3. f = c \o e
      BY <2>3
    <3> QED BY <3>2, <3>3
  <2>5. \A i \in 1..Len(f) : i \in 1..Len(c) \/ f[i] = r
    BY <1>3, <1>5, <1>8, <2>2, <2>4
  <2> QED BY <1>6, <1>8, <2>4, <2>5 DEF AllFormed
<1> HIDE DEF r, e, f, c
<1>10. /\ AllFormed(chain')
       /\ \E m \in 1..(k + 1) : Len(chain') = Len(chain) + m
  <2>1. CASE chain' = f
    <3>1. n \in 1..(k + 1)
      BY <1>4, <1>5
    <3> QED BY <1>7, <1>9, <2>1, <3>1
  <2>2. ASSUME NEW results, chain' = Append(f, CreditRecord(unit, results))
        PROVE  /\ AllFormed(chain')
               /\ \E m \in 1..(k + 1) : Len(chain') = Len(chain) + m
    <3> DEFINE last == CreditRecord(unit, results)
    <3>1. /\ last.kind = "criterion" /\ last.control = None
          /\ last.stage = CurrentStage(chain) /\ last.unit = unit
          /\ last.outcome = None /\ last.approval = None /\ last.evidence = None
      BY DEF CreditRecord, Blank
    <3> HIDE DEF last
    <3>2. WellFormed(last)
      BY <1>3, <3>1, PlainFormed
    <3>3. AllFormed(Append(f, last)) /\ Len(Append(f, last)) = Len(f) + 1
      BY <1>7, <1>9, <3>2, AppendFormed
    <3>4. n + 1 \in 1..(k + 1) /\ Len(f) + 1 = Len(chain) + (n + 1)
      BY <1>3, <1>4, <1>5, <1>7
    <3> QED BY <2>2, <3>3, <3>4 DEF last
  <2> QED BY <1>2, <2>1, <2>2 DEF f
<1>11. PICK m \in 1..(k + 1) : Len(chain') = Len(chain) + m
  BY <1>10
<1>12. \E seed \in Seeds : Len(chain') + 0 <= Len(seed) + Growth[seed]
  <2>1. m \in Nat /\ k + 1 - m \in Nat /\ m + (k + 1 - m) = k + 1
    BY <1>4
  <2>2. Fits(m + (k + 1 - m))
    BY <1>1, <2>1, RoomFits DEF k
  <2>3. PICK seed \in Seeds : Len(chain') + (k + 1 - m) <= Len(seed) + Growth[seed]
    BY <1>3, <1>11, <2>1, <2>2, GrownFits
  <2>4. Len(seed) \in Nat /\ Growth[seed] \in Nat
    BY SeedsAssumption, TypesAssumption DEF IsChain
  <2>5. Len(chain') + 0 <= Len(seed) + Growth[seed]
    BY <1>3, <1>11, <2>1, <2>3, <2>4
  <2> QED BY <2>5
<1>13. Len(chain') > Len(chain) /\ UNCHANGED <<repo, hostLock, pc, job>>
  BY <1>3, <1>4, <1>11 DEF Credit
<1> QED BY <1>10, <1>12, <1>13, GrowthTyped

\* Every step keeps the types.
LEMMA NextTyped == TypeInv /\ [Next]_vars => TypeInv'
<1> SUFFICES ASSUME TypeInv, [Next]_vars PROVE TypeInv'
  OBVIOUS
<1>1. IInv'
  BY NextIInv DEF TypeInv
<1>2. ASSUME NEW p \in Procs, Abandon(p) PROVE TypeInv'
  <2>1. Finish(p) /\ Goto(p, "idle") /\ UNCHANGED <<chain, repo>> /\ "idle" \in Places
    BY <1>2 DEF Abandon, Finish, Places
  <2>2. JobTyped(p)'
    <3>1. JobTyped(p) /\ pc'[p] = "idle" /\ job'[p] = NoJob /\ hostLock' # p
      BY <2>1, FinishTyped DEF TypeInv
    <3> QED BY <3>1 DEF JobTyped
  <2> QED BY <1>1, <2>1, <2>2, FinishTyped, JobStepTyped
<1>3. CASE RepositoryChange
  BY <1>1, <1>3 DEF RepositoryChange, TypeInv, JobTyped, Fits
<1>4. CASE UNCHANGED vars
  BY <1>1, <1>4 DEF vars, TypeInv, JobTyped, Fits
<1>5. ASSUME NEW p \in Procs,
             \/ TransitionBegin(p) \/ TransitionGate(p) \/ TransitionEvaluate(p)
             \/ PilotBegin(p) \/ PilotEvaluate(p) \/ PilotCapture(p)
             \/ CIBegin(p) \/ CICapture(p)
             \/ Resolve(p) \/ CriteriaBaseline(p) \/ FindingsImport(p)
             \/ AppendNext(p)
      PROVE  TypeInv'
  BY <1>1, <1>5, TransitionTyped, PilotCommandTyped, CICommandTyped, PlainCommandTyped,
     AppendNextTyped
<1> QED BY <1>1, <1>2, <1>3, <1>4, <1>5, ReconcileTyped, CreditTyped DEF Next

LEMMA InitTyped == Init => TypeInv
<1> SUFFICES ASSUME Init PROVE TypeInv
  OBVIOUS
<1>1. IsChain(chain) /\ Len(chain) \in Nat /\ Growth[chain] \in Nat
  <2>1. chain \in Seeds
    BY DEF Init
  <2>2. IsChain(chain) /\ Growth[chain] \in Nat
    BY <2>1, SeedsAssumption, TypesAssumption
  <2> QED BY <2>2 DEF IsChain
<1>2. AllFormed(chain)
  BY <1>1, TypesAssumption DEF Init, AllFormed, IsChain
<1>3. Len(chain) + 0 <= Len(chain) + Growth[chain]
  BY <1>1
<1>4. Fits(0)
  BY <1>3 DEF Init, Fits
<1>5. ASSUME NEW p \in Procs PROVE JobTyped(p)
  <2>1. None \notin Procs
    BY NoneAssumption
  <2>2. pc[p] = "idle" /\ job[p] = NoJob /\ hostLock # p
    BY <2>1 DEF Init
  <2> QED BY <2>2 DEF JobTyped
<1>6. repo \in Repos /\ hostLock = None /\ pc \in [Procs -> Places]
  BY DEF Init, Places
<1> QED BY <1>2, <1>4, <1>5, <1>6, InitIInv DEF TypeInv

\* Every record is well formed, the chain never outgrows its bound, and only a
\* transition or an import in progress holds the host run lock.
THEOREM ChainTypesHold == Spec => []TypeOK
<1>1. TypeInv => TypeOK
  <2> SUFFICES ASSUME TypeInv PROVE TypeOK
    OBVIOUS
  <2>1. \A i \in DOMAIN chain : WellFormed(chain[i])
    BY DEF TypeInv, AllFormed, IInv, IsChain
  <2>2. \E seed \in Seeds : Len(chain) <= Len(seed) + Growth[seed]
    <3>1. Len(chain) + 0 = Len(chain)
      BY DEF TypeInv, IInv, IsChain
    <3> QED BY <3>1 DEF TypeInv, Fits
  <2> QED BY <2>1, <2>2 DEF TypeOK, TypeInv, JobTyped, Places
<1> QED BY <1>1, InitTyped, NextTyped, PTL DEF Spec
===============================================================================
