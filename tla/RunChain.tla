------------------------------- MODULE RunChain -------------------------------
(***************************************************************************)
(* The commands that write a run's core chain, interleaved: transition,    *)
(* pilot, resolve, ci github, host findings-import, host reconcile, host   *)
(* credit, host loop evidence and hmarun's criterion baseline, with the    *)
(* repository changing under them.                                         *)
(*                                                                         *)
(* The store is the one RunStore models, at the level of its contract: a   *)
(* load returns the committed chain, an append adds one record if its      *)
(* position still extends the chain, and Transact excludes every other     *)
(* load and append.  A command works on a chain it loaded earlier; job     *)
(* holds the records it decided to append and the position they were built *)
(* for.  transition and findings-import hold the host run lock throughout; *)
(* reconcile, credit and loop evidence hold both locks and are one step.   *)
(*                                                                         *)
(* A challenge packet is presented for the position after the chain as the *)
(* command starts: one made for an earlier position is refused by every    *)
(* evaluator, as a command that fails for any other reason is (Abandon).   *)
(***************************************************************************)
EXTENDS ChainGates

CONSTANTS
    Procs,        \* processes running commands
    Commands,     \* the commands they run
    Units,        \* units of work of the run's plan
    Nonces,       \* challenges humans answer
    Heads,        \* commits the repository's HEAD may name
    Dirty,        \* digests of uncommitted worktree contents
    Bases,        \* base revisions approvals may name
    Digests,      \* output digests of captured evidence
    Contracts,    \* acceptance contract documents
    Packets,      \* what humans approve, apart from nonce, head and worktree
    Operations,   \* resolution operations, apart from their nonce
    Reports,      \* imported reviews: unit, verdict and mapped findings
    Seeds,        \* chains the run may be picked up at
    Growth        \* bound, of each of them: records the commands add to it

VARIABLES
    chain,        \* the committed core chain
    repo,         \* the repository: HEAD and uncommitted content (None: clean)
    hostLock,     \* the holder of the host run lock
    pc,           \* where each process is
    job           \* what each process's command is working on

vars == <<chain, repo, hostLock, pc, job>>

\* A sequence of records, each with every field.
IsChain(c) ==
    /\ c \in Seq({c[i] : i \in DOMAIN c})
    /\ \A i \in DOMAIN c : DOMAIN c[i] = DOMAIN Blank

\* No two records spend the same challenge.
SpendsOnce(c) ==
    \A i, j \in DOMAIN c : i # j /\ Nonce(c[i]) # None => Nonce(c[i]) # Nonce(c[j])

Applied(r) == r.control = "APPROVED" /\ r.approval # None

\* Every approved decision left the stage the run was in, along a legal edge,
\* while the run was open.
DecidesLegally(c) ==
    \A i \in DOMAIN c : Applied(c[i]) =>
        /\ c[i].stage = CurrentStage(Before(c, i))
        /\ c[i].approval.to # None => IsLegalEdge(c[i].stage, c[i].approval.to)
        /\ \A j \in 1..(i - 1) : c[j].outcome = None

OutcomesEnd(c) == \A i \in DOMAIN c : c[i].outcome # None => c[i].kind = "outcome"

\* The chains the run is picked up at are chains of such decisions.
ASSUME SeedsAssumption ==
    \A c \in Seeds : IsChain(c) /\ SpendsOnce(c) /\ DecidesLegally(c) /\ OutcomesEnd(c)

-----------------------------------------------------------------------------
Repos == [head : Heads, wt : Dirty \cup {None}]

NoJob == [packet |-> None, at |-> 0, seen |-> None, want |-> <<>>]

\* Room for n more records under the bound.
Room(n) ==
    \E seed \in Seeds : IsPrefix(seed, chain) /\ Len(chain) + n <= Len(seed) + Growth[seed]

Init ==
    /\ chain \in Seeds
    /\ repo \in Repos
    /\ hostLock = None
    /\ pc = [p \in Procs |-> "idle"]
    /\ job = [p \in Procs |-> NoJob]

\* An idle process may start the command, with room for n records.
Starts(p, command, n) ==
    /\ command \in Commands
    /\ pc[p] = "idle"
    /\ Room(n)

Goto(p, l) == pc' = [pc EXCEPT ![p] = l]

\* The approval a human gives for packet k by answering challenge n, looking
\* at repository r.
Approval(k, n, r) ==
    [unit |-> k.unit, from |-> k.from, to |-> k.to, outcome |-> k.outcome,
     class |-> k.class, nonce |-> n, base |-> k.base,
     head |-> IF ApprovalBindsHeadDiff(k.from) THEN r.head ELSE None,
     wt |-> IF k.bindsWorktree THEN r.wt ELSE None,
     needs |-> k.needs, contract |-> k.contract]

\* The resolution a human decides on with operation o and challenge n.
Resolution(o, n) ==
    [op |-> o.op, scope |-> o.scope, disp |-> o.disp, unit |-> o.unit, nonce |-> n]

\* None is nothing whose absence it stands for.
ASSUME NoneAssumption ==
    /\ None \notin Stages \cup Outcomes \cup Nonces \cup Units \cup Procs
    /\ None \notin {"APPROVED", "READY_FOR_REVIEW"}
    /\ \A k \in Packets, n \in Nonces, r \in Repos : Approval(k, n, r) # None
    /\ \A o \in Operations, n \in Nonces : Resolution(o, n) # None

\* A report is a unit's, and an operation whose record ValidateRecord would
\* refuse, an override to BLOCK, is never recorded.
ASSUME InputsAssumption ==
    /\ \A rep \in Reports : rep.unit \in Units
    /\ \A o \in Operations : o.op = "OVERRIDE" => o.disp # "BLOCK"

\* A packet is presented for the next position, with the repository as is.
Present(p, l) ==
    \E k \in Packets, n \in Nonces :
        /\ job' = [job EXCEPT ![p] = [NoJob EXCEPT !.packet = Approval(k, n, repo),
                                                   !.at = Len(chain) + 1,
                                                   !.seen = repo]]
        /\ Goto(p, l)

\* The repository still is what the packet and the host declared: its
\* uncommitted content, and its HEAD where the packet binds one.
RepositoryMatches(p) ==
    LET a == job[p].packet IN
    /\ repo.wt = job[p].seen.wt
    /\ ApprovalBindsHeadDiff(a.from) => repo.head = a.head

\* Decide to append records rs after the chain as it is now.
Intend(p, rs) ==
    /\ job' = [job EXCEPT ![p].at = Len(chain) + 1, ![p].want = rs]
    /\ Goto(p, "append")

\* Mutant: the host run lock outlives the command.
FinishLocked(p) ==
    /\ Goto(p, "idle")
    /\ job' = [job EXCEPT ![p] = NoJob]
    /\ UNCHANGED hostLock

Finish(p) ==
    /\ Goto(p, "idle")
    /\ job' = [job EXCEPT ![p] = NoJob]
    /\ hostLock' = IF hostLock = p THEN None ELSE hostLock

-----------------------------------------------------------------------------
(* hma transition.                                                         *)

TransitionBegin(p) ==
    /\ Starts(p, "transition", 1)
    /\ hostLock = None
    /\ hostLock' = p
    /\ Present(p, "gate")
    /\ UNCHANGED <<chain, repo>>

\* The host gate and Apply's first look at the repository.
TransitionGate(p) ==
    /\ pc[p] = "gate"
    /\ Verifies(chain)
    /\ HostAdmits(chain, job[p].packet)
    /\ RepositoryMatches(p)
    /\ Goto(p, "evaluate")
    /\ UNCHANGED <<chain, repo, hostLock, job>>

\* Apply's own load and evaluation, then verifyRepositoryState.
TransitionEvaluate(p) ==
    LET a == job[p].packet IN
    /\ pc[p] = "evaluate"
    /\ Verifies(chain)
    /\ AdmitsTransition(chain, a, job[p].at, job[p].seen.wt)
    /\ \E doc \in Contracts \cup {None} : AdmitsContract(chain, a, doc)
    /\ RepositoryMatches(p)
    /\ Intend(p, <<AppliedRecord(chain, a)>>)
    /\ UNCHANGED <<chain, repo, hostLock>>

-----------------------------------------------------------------------------
(* hma pilot.                                                              *)

\* The approval, as a stage awaiting review, and the evidence captured for it.
PilotRecords(a, d, seen) ==
    LET filed == [Blank EXCEPT !.control = "READY_FOR_REVIEW", !.stage = a.from]
    IN  <<[filed EXCEPT !.kind = "stage_transition", !.approval = a],
          [filed EXCEPT !.kind = "evidence",
                        !.evidence = [digest |-> d, base |-> a.base, head |-> seen.head]]>>

PilotBegin(p) ==
    /\ Starts(p, "pilot", 2)
    /\ Present(p, "pilotLoad")
    /\ UNCHANGED <<chain, repo, hostLock>>

\* Run's load: only the approval binding is evaluated.
PilotEvaluate(p) ==
    /\ pc[p] = "pilotLoad"
    /\ Verifies(chain)
    /\ AdmitsApproval(chain, job[p].packet, job[p].at, job[p].seen.wt)
    /\ Goto(p, "pilotCapture")
    /\ UNCHANGED <<chain, repo, hostLock, job>>

\* The command ran; the repository must be as it was before.
PilotCapture(p) ==
    /\ pc[p] = "pilotCapture"
    /\ repo = job[p].seen
    /\ \E d \in Digests :
          job' = [job EXCEPT ![p].want = PilotRecords(job[p].packet, d, repo)]
    /\ Goto(p, "append")
    /\ UNCHANGED <<chain, repo, hostLock>>

-----------------------------------------------------------------------------
(* hma ci github: the packet it verifies comes from the chain.             *)

CIBegin(p) ==
    /\ Starts(p, "ci", 1)
    /\ Verifies(chain)
    /\ AdmitsCI(chain)
    /\ LET a == chain[CIPacketAt(chain)].approval IN
       /\ a.wt = None
       /\ repo = [head |-> a.head, wt |-> None]
       /\ job' = [job EXCEPT ![p] = [NoJob EXCEPT !.packet = a, !.at = Len(chain) + 1,
                                                  !.seen = repo]]
    /\ Goto(p, "ciCapture")
    /\ UNCHANGED <<chain, repo, hostLock>>

CICapture(p) ==
    LET a == job[p].packet IN
    /\ pc[p] = "ciCapture"
    /\ repo = job[p].seen
    /\ \E d \in Digests :
          job' = [job EXCEPT ![p].want =
             <<[Blank EXCEPT !.kind = "evidence", !.stage = a.from,
                   !.evidence = [digest |-> d, base |-> a.base, head |-> repo.head]]>>]
    /\ Goto(p, "append")
    /\ UNCHANGED <<chain, repo, hostLock>>

-----------------------------------------------------------------------------
(* hma resolve, and hmarun's criterion baseline.                           *)

ResolutionRecord(r) ==
    [Blank EXCEPT
        !.kind = IF r.op = "OVERRIDE" THEN "finding_override" ELSE "waiver_operation",
        !.unit = r.unit, !.resolution = r]

Resolve(p) ==
    /\ Starts(p, "resolve", 1)
    /\ Verifies(chain)
    /\ \E o \in Operations, n \in Nonces :
          /\ AdmitsResolution(chain, Resolution(o, n))
          /\ Intend(p, <<ResolutionRecord(Resolution(o, n))>>)
    /\ UNCHANGED <<chain, repo, hostLock>>

\* Every criterion of the run's contract starts PENDING.
CriteriaBaseline(p) ==
    /\ Starts(p, "baseline", 1)
    /\ Verifies(chain)
    /\ Criteria(chain) = NoMap
    /\ CurrentStage(chain) = "ACCEPTANCE_CRITERIA"
    /\ chain # <<>>
    /\ \E k \in Contracts :
          Intend(p, <<[Blank EXCEPT !.kind = "criterion", !.stage = "ACCEPTANCE_CRITERIA",
                          !.criteria = [c \in CriteriaOf[k] |-> "PENDING"]]>>)
    /\ UNCHANGED <<chain, repo, hostLock>>

-----------------------------------------------------------------------------
(* hma host findings-import, under the host run lock.                      *)

\* The review binds the chain's head as it is when the command loads it.
SnapshotRecord(c, rep) ==
    LET fs == SnapshotFindings(Findings(c), rep.unit, rep.imported, rep.verdict)
    IN  [Blank EXCEPT !.kind = "finding", !.unit = rep.unit, !.snapshot = TRUE,
                      !.findings = fs, !.sealed = fs]

FindingsImport(p) ==
    /\ Starts(p, "findings-import", 1)
    /\ hostLock = None
    /\ hostLock' = p
    /\ Verifies(chain)
    /\ chain # <<>>
    /\ ~Terminal(chain)
    /\ \E rep \in Reports :
          /\ FindingsDistinct(Findings(chain), rep.unit, rep.imported)
          /\ Intend(p, <<SnapshotRecord(chain, rep)>>)
    /\ UNCHANGED <<chain, repo>>

-----------------------------------------------------------------------------
(* Store.Append, one record of a job at a time.                            *)

\* The position check: the record was built for the end of the chain.
AppendsAnywhere(p) == job[p].at <= Len(chain) + 1   \* mutant: or for an earlier one
ExtendsChain(p) == job[p].at = Len(chain) + 1

AppendNext(p) ==
    /\ pc[p] = "append"
    /\ Verifies(chain)
    /\ ExtendsChain(p)
    /\ ValidateRecord(Head(job[p].want))
    /\ chain' = Append(chain, Head(job[p].want))
    /\ IF Len(job[p].want) > 1
       THEN /\ job' = [job EXCEPT ![p].want = Tail(@), ![p].at = @ + 1]
            /\ UNCHANGED <<pc, hostLock>>
       ELSE Finish(p)
    /\ UNCHANGED repo

-----------------------------------------------------------------------------
(* Commands that hold both run locks.  Store.Transact rewrites the stream  *)
(* from the records it handed to the command; when the command replayed    *)
(* them, those are Replayed(chain).                                        *)

\* hma host reconcile found launches nobody authorized: an unowned BLOCK for
\* each, besides the current findings, unless all are there already.
UnauthorizedFindings(ns) ==
    [id \in {FindingID(None, n) : n \in ns} |-> [disp |-> "BLOCK", unit |-> None]]

Reconcile ==
    LET prior == Findings(chain) IN
    /\ "reconcile" \in Commands /\ Room(1)
    /\ hostLock = None
    /\ Verifies(chain)
    /\ chain # <<>>
    /\ \E ns \in SUBSET HmaNames :
          LET found == UnauthorizedFindings(ns)
              all == [id \in DOMAIN prior \cup DOMAIN found |->
                         IF id \in DOMAIN prior THEN prior[id] ELSE found[id]]
          IN  /\ ~(DOMAIN found \subseteq DOMAIN prior)
              /\ chain' = Append(Replayed(chain),
                             [Blank EXCEPT !.kind = "finding", !.stage = CurrentStage(chain),
                                           !.findings = all, !.sealed = all])
    /\ UNCHANGED <<repo, hostLock, pc, job>>

\* An HMA check of one criterion: PASSED needs exit 0 and the report's pass.
\* A crash or an error leaves the evidence appended so far.
EvidenceFor(unit, base, d) ==
    [Blank EXCEPT !.kind = "evidence", !.stage = CurrentStage(chain), !.unit = unit,
                  !.evidence = [digest |-> d, base |-> base, head |-> repo.head]]

Checked(unit, base, d, n) ==
    Replayed(chain) \o [i \in 1..n |-> EvidenceFor(unit, base, d)]

CreditRecord(unit, results) ==
    LET prior == Criteria(chain) IN
    [Blank EXCEPT !.kind = "criterion", !.unit = unit, !.stage = CurrentStage(chain),
                  !.criteria = [c \in DOMAIN prior |->
                      IF c \in DOMAIN results THEN results[c] ELSE prior[c]]]

Credit ==
    /\ "credit" \in Commands
    /\ hostLock = None
    /\ Verifies(chain)
    /\ chain # <<>>
    /\ ~Terminal(chain)
    /\ BoundContractDigest(chain) # None
    /\ \E unit \in Units, base \in Bases, d \in Digests,
          ids \in SUBSET CriteriaOf[BoundContractDigest(chain)] \ {{}} :
       /\ ids \subseteq DOMAIN Criteria(chain)
       /\ Room(Cardinality(ids) + 1)
       /\ \E n \in 1..Cardinality(ids) :
             \/ chain' = Checked(unit, base, d, n)
             \/ /\ n = Cardinality(ids)
                /\ \E results \in [ids -> {"PASSED", "FAILED", "PENDING"}] :
                      chain' = Append(Checked(unit, base, d, n), CreditRecord(unit, results))
    /\ UNCHANGED <<repo, hostLock, pc, job>>

\* hma host loop evidence: the recaptured loop check.
LoopEvidence ==
    /\ "loop" \in Commands /\ Room(1)
    /\ hostLock = None
    /\ Verifies(chain)
    /\ chain # <<>>
    /\ ~Terminal(chain)
    /\ \E unit \in Units, base \in Bases, d \in Digests :
          chain' = Append(chain, EvidenceFor(unit, base, d))
    /\ UNCHANGED <<repo, hostLock, pc, job>>

-----------------------------------------------------------------------------
(* The environment.                                                        *)

\* The command is refused, fails or is killed; what it appended stays.
Abandon(p) ==
    /\ pc[p] # "idle"
    /\ Finish(p)
    /\ UNCHANGED <<chain, repo>>

\* Anyone commits, checks out or edits.
RepositoryChange ==
    /\ repo' \in Repos
    /\ UNCHANGED <<chain, hostLock, pc, job>>

Next ==
    \/ \E p \in Procs :
          \/ TransitionBegin(p) \/ TransitionGate(p) \/ TransitionEvaluate(p)
          \/ PilotBegin(p) \/ PilotEvaluate(p) \/ PilotCapture(p)
          \/ CIBegin(p) \/ CICapture(p)
          \/ Resolve(p) \/ CriteriaBaseline(p) \/ FindingsImport(p)
          \/ AppendNext(p) \/ Abandon(p)
    \/ Reconcile \/ Credit \/ LoopEvidence
    \/ RepositoryChange

Spec == Init /\ [][Next]_vars

-----------------------------------------------------------------------------
(* Properties.                                                             *)

\* Those still to be answered, and those spent before the run was picked up.
Challenges == Nonces \cup UNION {UsedNonces(c) : c \in Seeds}

Approvals ==
    [unit : Units \cup {None}, from : Stages, to : Stages \cup {None},
     outcome : Outcomes \cup {None}, class : BOOLEAN, nonce : Challenges, base : Bases,
     head : Heads \cup {None}, wt : Dirty \cup {None}, needs : SUBSET Digests,
     contract : Contracts \cup {None}]

Evidences == [digest : Digests, base : Bases, head : Heads]

\* Records but for the maps and operations they carry.
WellFormed(r) ==
    /\ r.kind \in {"stage_transition", "outcome", "classification", "evidence",
                    "criterion", "waiver_operation", "finding_override", "finding"}
    /\ r.control \in {"APPROVED", "READY_FOR_REVIEW", None}
    /\ r.stage \in Stages \cup {None}
    /\ r.unit \in Units \cup {None}
    /\ r.outcome \in Outcomes \cup {None}
    /\ r.approval \in Approvals \cup {None}
    /\ r.evidence \in Evidences \cup {None}

\* Humans answer about what there is, and the run is picked up well formed.
ASSUME TypesAssumption ==
    /\ \A k \in Packets, n \in Nonces, r \in Repos : Approval(k, n, r) \in Approvals
    /\ \A o \in Operations : o.unit \in Units \cup {None}
    /\ \A c \in Seeds : \A i \in DOMAIN c : WellFormed(c[i])
    /\ \A k \in Contracts : IsFiniteSet(CriteriaOf[k])
    /\ Growth \in [Seeds -> Nat]

\* Types, and who holds the host run lock: only a transition or an import in
\* progress does.
TypeOK ==
    /\ \A i \in DOMAIN chain : WellFormed(chain[i])
    /\ \E seed \in Seeds : Len(chain) <= Len(seed) + Growth[seed]
    /\ repo \in Repos
    /\ hostLock \in Procs \cup {None}
    /\ pc \in [Procs -> {"idle", "gate", "evaluate", "append", "pilotLoad",
                         "pilotCapture", "ciCapture"}]
    /\ \A p \in Procs : pc[p] \in {"gate", "evaluate"} => hostLock = p
    /\ \A p \in Procs : pc[p] = "idle" => hostLock # p /\ job[p] = NoJob

\* A challenge is answered once in a run, whatever the answer was for: two
\* records, of any families, never carry the same nonce.
NoncesSpentOnce == SpendsOnce(chain)

\* Every approved decision was made from the stage the run was in when it was
\* recorded, along a legal edge, and none was recorded after the run ended.
LegalHistory == DecidesLegally(chain)

\* The evidence an approved decision required was in the chain before it, and
\* was captured at the revision the approval binds.
EvidenceAtRevision(c) ==
    \A i \in DOMAIN c : Applied(c[i]) =>
        \A d \in c[i].approval.needs : \E j \in 1..(i - 1) :
            /\ c[j].evidence # None
            /\ c[j].evidence.digest = d
            /\ c[j].evidence.base = c[i].approval.base
            /\ c[i].approval.head \in {None, c[j].evidence.head}

\* So does evidence a pilot captured: it directly follows the approval it was
\* captured for, and no other record comes between.
PilotEvidencePaired(c) ==
    \A i \in DOMAIN c :
        c[i].kind = "evidence" /\ c[i].control = "READY_FOR_REVIEW" =>
            /\ i > 1
            /\ c[i - 1].kind = "stage_transition"
            /\ c[i - 1].control = "READY_FOR_REVIEW"
            /\ c[i - 1].stage = c[i].stage
            /\ c[i - 1].approval.head \in {None, c[i].evidence.head}

\* Evidence CI recorded is filed under the stage the open run was in, and was
\* taken at the head of a packet for leaving that stage which was recorded
\* after the run last entered it.
CIEvidenceApproved(c) ==
    \A i \in DOMAIN c :
        c[i].kind = "evidence" /\ c[i].control = None /\ c[i].unit = None =>
            /\ c[i].stage = CurrentStage(Before(c, i))
            /\ \A j \in 1..(i - 1) : c[j].outcome = None
            /\ \E j \in 1..(i - 1) :
                  /\ c[j].approval # None
                  /\ c[j].approval.from = c[i].stage
                  /\ c[j].approval.head = c[i].evidence.head
                  /\ \A k \in j..(i - 1) :
                        ApprovedMove(c[k]) => c[k].approval.to # c[i].stage

\* Evidence is of the revision its approval binds, whether the approval came
\* after it (a transition's), just before it (a pilot's) or some time ago (CI's).
EvidenceBound ==
    EvidenceAtRevision(chain) /\ PilotEvidencePaired(chain) /\ CIEvidenceApproved(chain)

\* A run ends with a failure outcome only while some unit is classified so and
\* none is classified worse: a classification a human superseded, even while
\* the decision to stop was being recorded, does not justify it.
FailureStands(c) ==
    \A i \in DOMAIN c : c[i].outcome \in FailureOutcomes =>
        LET stands(j) ==
                /\ c[j].kind = "classification"
                /\ \A k \in (j + 1)..(i - 1) : c[k].unit = c[j].unit =>
                      c[k].kind \notin {"classification", "waiver_operation",
                                            "finding_override"}
            rank(o) == CHOOSE n \in DOMAIN FailurePrecedence : FailurePrecedence[n] = o
        IN  /\ \E j \in 1..(i - 1) :
                  stands(j) /\ c[j].approval.outcome = c[i].outcome
            /\ \A j \in 1..(i - 1) :
                  stands(j) => rank(c[j].approval.outcome) >= rank(c[i].outcome)

\* A run that ends PARTIAL had accepted a contract, had no standing failure
\* classification, and records the criteria as they then were.
PartialAccounted(c) ==
    \A i \in DOMAIN c : c[i].outcome = "PARTIAL" =>
        /\ BoundContractDigest(Before(c, i)) # None
        /\ FailureOutcome(Before(c, i)) = None
        /\ c[i].criteria = Criteria(Before(c, i))

\* It had no blocking and no unwaived finding: nothing that lands between the
\* host gate's reads and the record invalidates what the gate saw.
StopResolved(c, r) ==
    r.outcome = "PARTIAL" =>
        LET fs == Findings(c) IN
        /\ \A id \in DOMAIN fs : fs[id].disp # "BLOCK"
        /\ \A id \in DOMAIN fs : fs[id].disp = "WAIVABLE" =>
              [kind |-> "finding", target |-> id] \in ActiveWaivers(c)
PartialResolved(c) == \A i \in DOMAIN c : StopResolved(Before(c, i), c[i])

\* A run is recorded as ended only as the chain it is recorded after allows,
\* whatever was recorded while the decision was on its way.
EndJustified ==
    FailureStands(chain) /\ PartialAccounted(chain) /\ PartialResolved(chain)

\* A unit leaves implementation review only with its findings disposed of: no
\* BLOCK of its own or of no owner, and every WAIVABLE one under a waiver.
ExitResolved(c, r) ==
    Applied(r) /\ ReviewEdge(r.approval) =>
        \A id \in DOMAIN Findings(c) :
            Findings(c)[id].unit \in {None, r.unit} =>
                \/ Findings(c)[id].disp = "ADVISORY"
                \/ /\ Findings(c)[id].disp = "WAIVABLE"
                   /\ [kind |-> "finding", target |-> id] \in ActiveWaivers(c)
ReviewExitResolved == \A i \in DOMAIN chain : ExitResolved(Before(chain, i), chain[i])

\* A scope is granted a waiver only while none is active for it, one is
\* withdrawn or expires only while active, and a finding is waived only while
\* it stands and is no BLOCK.
WaiverAlternates(c, r) ==
    r.kind = "waiver_operation" =>
        LET o == r.resolution
        IN  /\ o.op = "GRANT" <=> o.scope \notin ActiveWaivers(c)
            /\ o.op = "GRANT" /\ o.scope.kind = "finding" =>
                  /\ o.scope.target \in DOMAIN Findings(c)
                  /\ Findings(c)[o.scope.target].disp # "BLOCK"
WaiversAlternate == \A i \in DOMAIN chain : WaiverAlternates(Before(chain, i), chain[i])

\* Every approved decision carries the contract accepted before it, and names
\* exactly the run's criteria; a run under a contract stays under one.
CarriesContract(c) ==
    \A i \in DOMAIN c : Applied(c[i]) =>
        LET a == c[i].approval
            bound == BoundContractDigest(Before(c, i))
        IN  /\ ~AcceptsAnew(a) => a.contract = bound
            /\ a.contract # None => DOMAIN Criteria(Before(c, i)) = CriteriaOf[a.contract]
            /\ AcceptsAnew(a) /\ bound # None => a.contract # None

\* Once a contract is accepted, every approved decision carries the accepted
\* digest, and the run's criteria are exactly that contract's: thresholds
\* never change under the same ids without a human accepting them anew.
ContractCarried == CarriesContract(chain)

\* The BLOCK HMA raises for a launch nobody authorized belongs to no unit and
\* outlives every later record: no review, override or waiver removes it.
UnauthorizedStays ==
    \A i \in DOMAIN chain :
        LET then == Findings(SubSeq(chain, 1, i))
            now == Findings(chain)
        IN  \A id \in DOMAIN then : id.by = None =>
                id \in DOMAIN now /\ now[id].disp = "BLOCK"

\* A review's snapshot leaves every finding its unit does not own as it was
\* just before the snapshot landed, a disposition decided meanwhile included.
ForeignKept(c, r) ==
    r.snapshot =>
        LET prior == Findings(c) IN
        \A id \in DOMAIN prior : prior[id].unit # r.unit =>
            id \in DOMAIN r.findings /\ r.findings[id] = prior[id]
ForeignFindingsKept == \A i \in DOMAIN chain : ForeignKept(Before(chain, i), chain[i])

\* A review of one unit never disturbs what was found of another, nor what HMA
\* itself found, in whatever order reviews, overrides and reconciliations land.
FindingsKept == ForeignFindingsKept /\ UnauthorizedStays

\* How the run ended, None while it is open.
EndedAs(c) ==
    LET i == SelectLastInSeq(c, LAMBDA r : r.kind = "outcome")
    IN  IF i = 0 THEN None ELSE c[i].outcome

\* What the commands make of a record: resolutions are filed as such, a
\* classification names a failure, and a move changes no criteria.
Filed(r) ==
    /\ r.resolution # None <=> r.kind \in {"waiver_operation", "finding_override"}
    /\ r.kind = "classification" => r.approval.outcome \in FailureOutcomes
    /\ r.kind = "stage_transition" => r.criteria = NoMap

\* The run is picked up with evidence and contract in order.
ASSUME BoundSeedsAssumption ==
    \A c \in Seeds :
        /\ EvidenceAtRevision(c) /\ PilotEvidencePaired(c) /\ CIEvidenceApproved(c)
        /\ CarriesContract(c)
        /\ \A i \in DOMAIN c : Filed(c[i])

\* What HMA found itself, no unit's BLOCK, is in every later list of findings,
\* is in every list that is no review's, and is never overridden.
HmaHeld(c, r) ==
    /\ \A id \in DOMAIN r.findings :
          /\ DOMAIN r.findings[id] = {"disp", "unit"}
          /\ id.by = None => r.findings[id].disp = "BLOCK" /\ r.findings[id].unit = None
    /\ ~r.snapshot /\ r.findings # NoMap => \E id \in DOMAIN r.findings : id.by = None
    /\ SetsFindings(r) => \A i \in DOMAIN c : \A id \in DOMAIN c[i].findings :
          id.by = None => id \in DOMAIN r.findings
    /\ r.resolution # None /\ r.resolution.op = "OVERRIDE" =>
          r.resolution.scope.target.by # None /\ r.resolution.disp # "BLOCK"

\* Record r respects the findings and waivers chain c has.
Reviewed(c, r) ==
    /\ StopResolved(c, r) /\ ExitResolved(c, r) /\ WaiverAlternates(c, r)
    /\ ForeignKept(c, r) /\ HmaHeld(c, r)

\* The run is picked up with its reviews in order.
ASSUME ReviewedSeedsAssumption ==
    \A c \in Seeds : \A i \in DOMAIN c : Reviewed(Before(c, i), c[i])

\* The run is picked up open, in a stage.
ASSUME OpenAssumption ==
    \A c \in Seeds : ~Terminal(c) /\ CurrentStage(c) \in Stages

\* The commands, records and replay implement the abstract control of a run.
Control == INSTANCE RunControl WITH
    stage <- CurrentStage(chain), outcome <- EndedAs(chain), spent <- UsedNonces(chain),
    Nonces <- Challenges
ImplementsRunControl == Control!ControlSpec

-----------------------------------------------------------------------------
(* What documents and comments of the repository say, and the code does    *)
(* not ensure.                                                             *)

\* "it only reports what the chain already says" (engine/resolution.go): no
\* command's replay changes a committed record, so the chain stays readable.
ChainVerifies == Verifies(chain)
===============================================================================
