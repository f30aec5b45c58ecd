-------------------------------- MODULE Driver --------------------------------
(***************************************************************************)
(* hmarun run (src/cmd/hmarun/run.go): it takes one unit of a run from     *)
(* GROUNDING to PARTIAL, asking a human, calling hma, and having           *)
(* agent-dispatch run an implementer and a reviewer.                       *)
(*                                                                         *)
(* Every invocation walks all the steps and stops at the first that fails; *)
(* each step reads the chains again and passes over what is done.  An hma  *)
(* command is one step, taken or refused whole (HostReview and RunStore    *)
(* are about its parts), but for a credit, which may be cut short.  The    *)
(* agents run beside hmarun, and may outlive it.                           *)
(***************************************************************************)
EXTENDS HostRecords

CONSTANTS
    Unit, Contract, Base,
    Implementer, Reviewer,  \* the seats hmarun dispatches
    PacketTTL,              \* how long a review packet is good for
    Faults,                 \* what goes wrong, and
    MaxFaults               \* how often, in all

VARIABLES
    core, host,  \* the two chains, but for launch reconciliations, of which
                 \* only the latest is ever read:
    reconciled,  \* its core record, host record, ledger and refused runs
    commits,     \* what was committed on the base: in or out of scope
    ledger,      \* the runs of the reviewers' agent-dispatch namespace
    report,      \* the unit's report file, or None
    at,          \* the step an invocation is at, 0 when none is running
    agents,      \* the agent hmarun waits for, and one it left behind
    clock,       \* time, in preflight lifetimes
    room         \* bound: the faults still to come

vars == <<core, host, reconciled, commits, ledger, report, at, agents, clock, room>>
chains == <<core, host, reconciled>>
world == <<commits, ledger, report, agents, clock, room>>

runSteps ==
    <<"accept-criteria", "planning", "route-selection", "route-approval",
      "decision", "impl-preflight", "impl-dispatch", "worker",
      "implementation-review", "bind-repository", "review-preflight",
      "review-packet", "reviewer", "review-import", "findings-import",
      "reconcile", "verification", "independent-validation", "credit", "partial">>

At(step) == at # 0 /\ runSteps[at] = step

Init ==
    /\ core = <<>> /\ host = <<>> /\ reconciled = None
    /\ commits = <<>> /\ ledger = NoMap /\ report = None
    /\ at = 0 /\ agents = [child |-> None, orphan |-> None]
    /\ clock = 0 /\ room = MaxFaults

target == [head |-> commits, wt |-> None]
Done == Terminal(core)

\* A step done or passed over leads to the next; one that fails ends the
\* invocation.
Advance == at' = IF at = Len(runSteps) THEN 0 ELSE at + 1
Stop == at' = 0

Fault(kind) == kind \in Faults /\ room > 0 /\ room' = room - 1
FaultIf(faulty, kind) == IF faulty THEN Fault(kind) ELSE UNCHANGED room

-----------------------------------------------------------------------------
(* The stage transitions.                                                  *)

Order == <<"GROUNDING", "ACCEPTANCE_CRITERIA", "PLANNING", "ROUTE_SELECTION",
           "IMPLEMENTATION_AUTHORIZATION", "IMPLEMENTATION_REVIEW", "VERIFICATION",
           "INDEPENDENT_VALIDATION", "RELEASE_AND_CLOSURE">>
stageOrder(s) == SelectInSeq(Order, LAMBDA t : t = s)
Reached(s) == stageOrder(CurrentStage(core)) >= stageOrder(s)

Edges ==
    [step \in {"accept-criteria", "planning", "route-selection", "route-approval",
               "implementation-review", "verification", "independent-validation", "partial"} |->
        CASE step = "accept-criteria" -> <<"GROUNDING", "ACCEPTANCE_CRITERIA">>
          [] step = "planning" -> <<"ACCEPTANCE_CRITERIA", "PLANNING">>
          [] step = "route-selection" -> <<"PLANNING", "ROUTE_SELECTION">>
          [] step = "route-approval" -> <<"ROUTE_SELECTION", "IMPLEMENTATION_AUTHORIZATION">>
          [] step = "implementation-review" ->
                <<"IMPLEMENTATION_AUTHORIZATION", "IMPLEMENTATION_REVIEW">>
          [] step = "verification" -> <<"IMPLEMENTATION_REVIEW", "VERIFICATION">>
          [] step = "independent-validation" -> <<"VERIFICATION", "INDEPENDENT_VALIDATION">>
          [] step = "partial" -> <<"INDEPENDENT_VALIDATION", None>>]

\* The approval of a transition at this position, of the live head.
Approve(from, to) ==
    [unit |-> IF stageOrder(from) >= stageOrder("ROUTE_SELECTION") THEN Unit ELSE None,
     from |-> from, to |-> to, outcome |-> IF to = None THEN "PARTIAL" ELSE None,
     class |-> FALSE, nonce |-> Len(core) + 1, base |-> Base,
     head |-> IF ApprovalBindsHeadDiff(from) THEN commits ELSE None,
     wt |-> None, needs |-> {}, at |-> clock,
     contract |-> IF from = "GROUNDING" THEN None ELSE Contract]

UnauthorizedID(run) == [by |-> None, name |-> run]
HasUnauthorizedDispatch ==
    \E id \in DOMAIN Findings(core) : id.by = None /\ Findings(core)[id].disp = "BLOCK"

Packets == {i \in DOMAIN host : HasPacket(host[i])}

\* requireReconciledLaunches; a packet declares its ledger namespace.
LaunchesReconciled ==
    /\ ~HasUnauthorizedDispatch
    /\ Packets # {} =>
          /\ reconciled # None
          /\ \A i \in Packets : i <= reconciled.host
          /\ reconciled.refused = {} /\ reconciled.core = Len(core)
          /\ reconciled.ledger = ledger

\* hma transition: the host gates, then the core transition.
Admits(a, doc) ==
    /\ HostAdmits(core, a)
    /\ ImplementationEdge(a) => LaunchesReconciled /\ ImplementationGate(host, core, Unit)
    /\ ReviewEdge(a) => LaunchesReconciled /\ ReviewGate(host, core, a, target)
    /\ ClaimsSuccess(a) => requireIndependentCredit(host, core, target)
    /\ AdmitsTransition(core, a, Len(core) + 1, None)
    /\ AdmitsContract(core, a, doc)

NeedsBaseline == At("planning") /\ Criteria(core) = NoMap /\ CurrentStage(core) = "ACCEPTANCE_CRITERIA"

\* ensureCriteriaBaseline, before stepPlanning asks for the transition.
CriteriaBaseline ==
    /\ NeedsBaseline
    /\ core' = Append(core, [Blank EXCEPT !.kind = "criterion", !.stage = "ACCEPTANCE_CRITERIA",
                                !.criteria = [id \in CriteriaOf[Contract] |-> "PENDING"]])
    /\ UNCHANGED <<host, reconciled, at, world>>

\* The stage steps, all doTransition: pass over an edge the run is past, else
\* have the human approve it and hma record it.
doTransition ==
    /\ at # 0 /\ runSteps[at] \in DOMAIN Edges
    /\ ~NeedsBaseline
    /\ LET from == Edges[runSteps[at]][1]
           to   == Edges[runSteps[at]][2]
       IN  IF Done \/ (to # None /\ Reached(to))
           THEN Advance /\ UNCHANGED core
           ELSE \E a \in {Approve(from, to)} :
                IF CurrentStage(core) = from /\ Admits(a, IF to = "PLANNING" THEN Contract ELSE None)
                THEN Advance /\ core' = Append(core, AppliedRecord(core, a))
                ELSE Stop /\ UNCHANGED core
    /\ UNCHANGED <<host, reconciled, world>>

-----------------------------------------------------------------------------
(* The host records.                                                       *)

\* Mutant: a host record names the core record still to come.
EnvelopeAhead(kind) == [kind |-> kind, unit |-> Unit, core |-> Len(core) + 1, at |-> clock]

Envelope(kind) == [kind |-> kind, unit |-> Unit, core |-> Len(core), at |-> clock]
Route(seat) == [seat |-> seat, approval |-> approvedCoreRoute(core, Unit)]

\* An hma host command that records r, or refuses.
Command(admitted, r) ==
    /\ IF admitted /\ core # <<>> /\ ~Done
       THEN Advance /\ host' = Append(host, r)
       ELSE Stop /\ UNCHANGED host
    /\ UNCHANGED <<core, reconciled, world>>

PassOver == Advance /\ UNCHANGED <<chains, world>>
Refuse == Stop /\ UNCHANGED <<chains, world>>

stepDecision ==
    /\ At("decision")
    /\ LET d == Envelope("decision") ++ Route(Implementer) ++ [mode |-> "DELEGATE", supersedes |-> 0]
       IN  IF Of(host, "decision", Unit) # {} THEN PassOver
           ELSE Command(EvaluateDecision(host, d), d)

\* The role's latest preflight, 0 unless it is available and unexpired.
findLatestValidPreflight(role) ==
    LET i == Latest({j \in Of(host, "preflight", Unit) : host[j].role = role})
    IN  IF i # 0 /\ host[i].status = "AVAILABLE" /\ clock < host[i].expires THEN i ELSE 0

\* issuePreflight records what the agent said, and goes on if it is available.
stepPreflight(role, seat) ==
    /\ At(IF role = "review" THEN "review-preflight" ELSE "impl-preflight")
    /\ IF findLatestValidPreflight(role) # 0 THEN PassOver
       ELSE \E status \in {"AVAILABLE", "UNAVAILABLE"} :
            LET p == [kind |-> "preflight", unit |-> Unit, core |-> Len(core), at |-> clock,
                      seat |-> seat, approval |-> approvedCoreRoute(core, Unit),
                      role |-> role, status |-> status, expires |-> clock + TTL]
                ok == EvaluatePreflight(host, p, clock) /\ ~Done
            IN  /\ FaultIf(status # "AVAILABLE", "preflight")
                /\ IF ok THEN host' = Append(host, p) ELSE UNCHANGED host
                /\ IF ok /\ status = "AVAILABLE" THEN Advance ELSE Stop
                /\ UNCHANGED <<core, reconciled, commits, ledger, report, agents, clock>>

stepImplDispatch ==
    /\ At("impl-dispatch")
    /\ LET p == findLatestValidPreflight("implementation")
           d == [kind |-> "dispatch", unit |-> Unit, core |-> Len(core), at |-> clock,
                 seat |-> Implementer, approval |-> approvedCoreRoute(core, Unit),
                 role |-> "implementation", preflight |-> p]
       IN  IF implementationContributions(host, Unit) # {} THEN PassOver
           ELSE IF p = 0 THEN Refuse
           ELSE Command(EvaluateDispatch(host, d, clock), d)

stepBindRepository ==
    /\ At("bind-repository")
    /\ IF RunRepository(host) THEN PassOver
       ELSE Command(\E i \in DOMAIN core : ApprovedMove(core[i]), Envelope("repository"))

-----------------------------------------------------------------------------
(* The review.                                                             *)

\* The unit's latest packet for the implementation as it is.
findReviewDispatch ==
    Latest({i \in Packets : host[i].implementation = RequireImplementation(host, Unit)})

Imported(i) == \E j \in Of(host, "review", Unit) : host[j].dispatch = i

\* The run has a receipt with an exit code, and there is a report file.
OutputUsable(i) ==
    LET run == host[i].packet.run
    IN  run \in DOMAIN ledger /\ ledger[run].exit # None /\ report # None

\* Mutant: a dispatch is kept once its reviewer was launched.
Unlaunched(i) == ~Imported(i) /\ host[i].packet.run \notin DOMAIN ledger

\* Mutant: a verdict against the work gets another review.
ReissuesRejected(i) ==
    IF Imported(i)
    THEN \E j \in Of(host, "review", Unit) : host[j].dispatch = i /\ host[j].verdict # "APPROVE"
    ELSE ~OutputUsable(i)

reviewDispatchNeedsReissue(i) == ~Imported(i) /\ ~OutputUsable(i)

\* The first packet's run id is fixed; a packet issued anew has a fresh one.
DispatchRunID(i) == IF i = 0 THEN 0 ELSE Len(host) + 1

stepReviewPacket ==
    /\ At("review-packet")
    /\ LET i == findReviewDispatch
           p == findLatestValidPreflight("review")
           packet == [run |-> DispatchRunID(i), reason |-> 3, until |-> clock + PacketTTL,
                      contract |-> BoundContractDigest(core), triggers |-> {}, family |-> FALSE]
           d == [kind |-> "dispatch", unit |-> Unit, core |-> Len(core), at |-> clock,
                 seat |-> Reviewer, approval |-> approvedCoreRoute(core, Unit),
                 role |-> "review", preflight |-> p, target |-> target,
                 implementation |-> RequireImplementation(host, Unit),
                 risk |-> High, disputed |-> FALSE, final |-> FALSE, packet |-> packet]
       IN  IF i # 0 /\ ~reviewDispatchNeedsReissue(i) THEN PassOver
           ELSE IF p = 0 \/ d.implementation = 0 THEN Refuse
           ELSE Command(/\ requireApprovedRepository(host, core, Unit, Base)
                        /\ EvaluateDispatch(host, d, clock), d)

\* hma host review-import of dispatch i.
Importable(i) ==
    LET run == host[i].packet.run IN
    /\ host[i].core = Len(core) /\ host[i].target = target
    /\ requireApprovedRepository(host, core, Unit, Base)
    /\ ledger[run].exit = 0 /\ ledger[run].listed = report
    /\ EvaluateReviewImport(host, i, ledger[run], report)

ReviewOf(i) ==
    Envelope("review")
    ++ [dispatch |-> i, implementation |-> host[i].implementation, target |-> host[i].target,
        verdict |-> MapReportVerdict(report), receipt |-> host[i].packet.run,
        isolation |-> report.isolation]

stepReviewImport ==
    /\ At("review-import")
    /\ \E i \in {findReviewDispatch} :
          IF i = 0 THEN Refuse
          ELSE IF Imported(i) THEN PassOver
          ELSE IF ~OutputUsable(i) THEN Refuse
          ELSE \E v \in {ReviewOf(i)} : Command(Importable(i) /\ EvaluateReview(host, v), v)

latestImportedReview == Latest(Of(host, "review", Unit))

\* What a review is of is still there: its report, and the content reviewed.
Stands(j) ==
    /\ RequireLatestImportedReview(host, j)
    /\ host[j].target = target
    /\ report = ledger[host[j].receipt].listed

\* What HMA establishes of the content itself, whatever the report says: that
\* a budget of the plan is exceeded, or that a kernel rule holds.
Established == {NoMap, [budget |-> "WAIVABLE"], [rule |-> "BLOCK"]}

\* The findings snapshot of review j, where HMA establishes facts.
SnapshotOf(j, facts) ==
    LET fs == SnapshotFindings(Findings(core), Unit, facts ++ report.findings, host[j].verdict)
    IN  [Blank EXCEPT !.unit = Unit, !.snapshot = TRUE, !.findings = fs, !.sealed = fs]
        ++ [source |-> j]

stepFindingsImport ==
    /\ At("findings-import")
    /\ LET j == latestImportedReview
       IN  IF j = 0 THEN Refuse
           ELSE IF \E k \in DOMAIN core : core[k].snapshot /\ core[k].source = j THEN PassOver
           ELSE IF ~(Stands(j) /\ host[j].core = Len(core)) \/ Done THEN Refuse
           ELSE \E facts \in Established :
                /\ FaultIf(facts # NoMap, "facts")
                /\ core' = Append(core, SnapshotOf(j, facts))
                /\ Advance
                /\ UNCHANGED <<host, reconciled, commits, ledger, report, agents, clock>>

-----------------------------------------------------------------------------
(* Reconciliation and credit.                                              *)

\* Launch l was as dispatch d says, before the lease generation then current
\* ended (validity).
AccountsFor(c, d, l) ==
    LET g == currentIssuer(SubSeq(c, 1, d.core), d.unit)
        a == c[g].approval
    IN  /\ ReviewLaunchMatches(d, l)
        /\ g # 0 /\ l.started < a.at + PlanUnit[a.contract].wall

\* The runs no packet accounts for: without a receipt, or not as authorized.
Unaccounted ==
    {run \in DOMAIN ledger :
        ledger[run].exit = None \/ ~\E i \in Packets : AccountsFor(core, host[i], ledger[run])}

stepReconcile ==
    /\ At("reconcile")
    /\ IF \/ Reached("VERIFICATION") \/ Done
          \/ reconciled # None /\ reconciled.core = Len(core) /\ reconciled.refused = {}
       THEN PassOver
       ELSE LET prior == Findings(core)
                new   == {UnauthorizedID(run) : run \in Unaccounted} \ DOMAIN prior
                fs    == [id \in DOMAIN prior \cup new |->
                             IF id \in new THEN [disp |-> "BLOCK", unit |-> None] ELSE prior[id]]
            IN  /\ core' = IF new = {} THEN core
                           ELSE Append(core, [Blank EXCEPT !.findings = fs, !.sealed = fs])
                /\ reconciled' = [core |-> Len(core'), host |-> Len(host),
                                  ledger |-> ledger, refused |-> Unaccounted]
                /\ Advance
                /\ UNCHANGED <<host, world>>

advanced == PlanUnit[Contract].criteria
Credited == \A id \in advanced : id \in DOMAIN Criteria(core) /\ Criteria(core)[id] = "PASSED"

\* hma host credit runs the criterion's check; the core records land before
\* the host record, and a credit cut short leaves some of them.
stepCredit ==
    /\ At("credit")
    /\ LET j == latestImportedReview IN
       IF Credited THEN PassOver
       ELSE IF j = 0 THEN Refuse
       ELSE IF ~(Stands(j) /\ Creditable(host, core, j, target, Base)) \/ Done THEN Refuse
       ELSE \E exit \in {0, 1}, cut \in BOOLEAN :
            LET results == [id \in advanced |-> criterionDisposition(exit, report.status)]
                whole   == CreditRecords(core, Unit, results)
                credit  == [Envelope("credit") EXCEPT !.core = Len(core) + Len(whole)]
                           ++ [review |-> j, target |-> target, results |-> results,
                               contract |-> BoundContractDigest(core),
                               issuer |-> currentIssuer(core, Unit),
                               record |-> Len(core) + Len(whole)]
            IN  /\ ~(cut /\ exit = 1)
                /\ FaultIf(cut \/ exit = 1, IF cut THEN "credit" ELSE "check")
                /\ IF cut
                   THEN /\ \E n \in 1..Len(whole) : core' = core \o SubSeq(whole, 1, n)
                        /\ Stop /\ UNCHANGED host
                   ELSE /\ core' = core \o whole
                        /\ Advance /\ host' = Append(host, credit)
                /\ UNCHANGED <<reconciled, commits, ledger, report, agents, clock>>

-----------------------------------------------------------------------------
(* The agents.                                                             *)

Worker(attempt) == [role |-> "worker", attempt |-> attempt, run |-> None, did |-> FALSE, exit |-> None]
ReviewerOf(run) == [role |-> "reviewer", attempt |-> 1, run |-> run, did |-> FALSE, exit |-> None]
Waiting(c) == [agents EXCEPT !.child = c]
NoChild == agents.child = None
Exited == ~NoChild /\ agents.child.exit # None

\* stepWorkerDispatch: no second worker on top of a commit.
LaunchWorker ==
    /\ At("worker") /\ NoChild
    /\ IF commits # <<>> THEN PassOver
       ELSE /\ agents' = Waiting(Worker(1))
            /\ UNCHANGED <<chains, commits, ledger, report, at, clock, room>>

\* A commit must be confined to the unit's files and exit cleanly; a worker
\* that committed nothing is tried once more.
CheckWorker ==
    /\ At("worker") /\ Exited
    /\ IF commits # <<>>
       THEN /\ agents' = Waiting(None)
            /\ IF agents.child.exit = 0 /\ \A k \in DOMAIN commits : commits[k] = "in"
               THEN Advance ELSE Stop
       ELSE IF agents.child.attempt = 1
       THEN agents' = Waiting(Worker(agents.child.attempt + 1)) /\ UNCHANGED at
       ELSE agents' = Waiting(None) /\ Stop
    /\ UNCHANGED <<chains, commits, ledger, report, clock, room>>

\* What the ledger has of the launch of packet i, until its receipt.
Launched(i) ==
    [run |-> host[i].packet.run, mode |-> "review", worker |-> Reviewer.worker,
     model |-> Reviewer.model, target |-> target, started |-> clock, packet |-> i,
     exit |-> None, listed |-> None]

\* stepReviewerDispatch: agent-dispatch makes the run's directory first, and
\* refuses a run id it has one for.
LaunchReviewer ==
    /\ At("reviewer") /\ NoChild
    /\ LET i == findReviewDispatch
           run == host[i].packet.run
       IN  IF i = 0 THEN Refuse
           ELSE IF Imported(i) \/ OutputUsable(i) THEN PassOver
           ELSE IF run \in DOMAIN ledger THEN Refuse
           ELSE /\ ledger' = [r \in DOMAIN ledger \cup {run} |-> IF r = run THEN Launched(i) ELSE ledger[r]]
                /\ agents' = Waiting(ReviewerOf(run))
                /\ UNCHANGED <<chains, commits, report, at, clock, room>>

CheckReviewer ==
    /\ At("reviewer") /\ Exited
    /\ agents' = Waiting(None)
    /\ IF OutputUsable(findReviewDispatch) THEN Advance ELSE Stop
    /\ UNCHANGED <<chains, commits, ledger, report, clock, room>>

Running(who) == agents[who] # None /\ agents[who].exit = None
Gone(who, code) ==
    [agents EXCEPT ![who] = IF who = "child" THEN [@ EXCEPT !.exit = code] ELSE None]

WorkerCommits(who) ==
    /\ Running(who) /\ agents[who].role = "worker" /\ ~agents[who].did
    /\ \E scope \in {"in", "out"} :
          FaultIf(scope = "out", "scope") /\ commits' = Append(commits, scope)
    /\ agents' = [agents EXCEPT ![who].did = TRUE]
    /\ UNCHANGED <<chains, ledger, report, at, clock>>

WorkerExits(who) ==
    /\ Running(who) /\ agents[who].role = "worker"
    /\ \E code \in {0, 1} :
          FaultIf(code # 0 \/ ~agents[who].did, "worker") /\ agents' = Gone(who, code)
    /\ UNCHANGED <<chains, commits, ledger, report, at, clock>>

Reports ==
    [packet : Nat, verdict : {"pass", "fix-required"}, isolation : {"isolated"},
     valid : {TRUE}, status : {"pass"}, findings : {NoMap, [f |-> "ADVISORY"]}]

\* The reviewer writes its report, on the packet it was given.  What it finds
\* binds only as far as HMA establishes it, and is advisory here.
ReviewerReports(who) ==
    /\ Running(who) /\ agents[who].role = "reviewer" /\ ~agents[who].did
    /\ \E verdict \in {"pass", "fix-required"} :
          /\ FaultIf(verdict # "pass", "verdict")
          /\ report' = [packet |-> ledger[agents[who].run].packet, verdict |-> verdict,
                        isolation |-> "isolated", valid |-> TRUE, status |-> "pass",
                        findings |-> IF verdict = "pass" THEN NoMap ELSE [f |-> "ADVISORY"]]
    /\ agents' = [agents EXCEPT ![who].did = TRUE]
    /\ UNCHANGED <<chains, commits, ledger, at, clock>>

\* It exits with a receipt, that lists its report as it then is, or dies
\* without one.
ReviewerExits(who) ==
    /\ Running(who) /\ agents[who].role = "reviewer"
    /\ \E code \in {0, 1}, receipt \in BOOLEAN :
          /\ ~receipt => code = 1
          /\ FaultIf(code # 0 \/ ~agents[who].did, IF receipt THEN "review" ELSE "reviewer")
          /\ agents' = Gone(who, code)
          /\ IF receipt
             THEN ledger' = [ledger EXCEPT
                     ![agents[who].run].exit = code,
                     ![agents[who].run].listed = IF agents[who].did THEN report ELSE None]
             ELSE UNCHANGED ledger
    /\ UNCHANGED <<chains, commits, report, at, clock>>

-----------------------------------------------------------------------------
(* hmarun run as a process.                                                *)

\* A host runs it, again if it stopped.
Invoke ==
    /\ at = 0 /\ ~Done
    /\ at' = 1
    /\ UNCHANGED <<chains, world>>

\* hmarun dies between two writes, with the agent it waits for or without it.
Crash ==
    /\ at # 0 /\ Stop
    /\ \/ /\ Fault("crash")
          /\ agents' = Waiting(None)
       \/ /\ Fault("orphan")
          /\ Running("child") /\ agents.orphan = None
          /\ agents' = [child |-> None, orphan |-> agents.child]
    /\ UNCHANGED <<chains, commits, ledger, report, clock>>

AsksHuman == at # 0 /\ runSteps[at] \in DOMAIN Edges \cup {"decision", "credit"}

\* A preflight's lifetime goes by while hmarun waits for somebody or is not
\* running.
TimePasses ==
    /\ at = 0 \/ ~NoChild \/ AsksHuman
    /\ ~Done
    /\ Fault("wait")
    /\ clock' = clock + 1
    /\ UNCHANGED <<chains, commits, ledger, report, at, agents>>

Step ==
    \/ CriteriaBaseline \/ doTransition
    \/ stepDecision \/ stepImplDispatch \/ stepBindRepository
    \/ stepPreflight("implementation", Implementer) \/ stepPreflight("review", Reviewer)
    \/ LaunchWorker \/ CheckWorker \/ LaunchReviewer \/ CheckReviewer
    \/ stepReviewPacket \/ stepReviewImport \/ stepFindingsImport
    \/ stepReconcile \/ stepCredit

Agent ==
    \E who \in {"child", "orphan"} :
        WorkerCommits(who) \/ WorkerExits(who) \/ ReviewerReports(who) \/ ReviewerExits(who)

Next == Invoke \/ Step \/ Agent \/ Crash \/ TimePasses

\* hmarun goes on unless it dies, an agent works until it exits, and somebody
\* runs hmarun again whenever it has stopped.
Spec == Init /\ [][Next]_vars /\ WF_vars(Invoke) /\ WF_vars(Step) /\ WF_vars(Agent)

-----------------------------------------------------------------------------
(* Properties.                                                             *)

\* A part that is absent is no stage, no outcome, no unit and no report, a
\* contract has at least one criterion (ValidateAcceptanceContract), and a unit
\* lists those it advances.
ASSUME DriverAssumption ==
    /\ None \notin Stages \cup Outcomes \cup {Unit} \cup Reports
    /\ CriteriaOf[Contract] # {}
    /\ IsFiniteSet(PlanUnit[Contract].criteria)
    /\ MaxFaults \in Nat

Moves == {k \in DOMAIN core : ApprovedMove(core[k])}
AtMostOne(S) == \A i, j \in S : i = j

\* Types, and that records name earlier ones.
TypeOK ==
    /\ at \in 0..Len(runSteps)
    /\ \A i \in DOMAIN host :
          /\ host[i].core \in 1..Len(core)
          /\ host[i].kind \in {"repository", "decision", "preflight", "dispatch", "review", "credit"}
          /\ host[i].kind = "review" => host[i].dispatch \in Packets /\ host[i].dispatch < i
    /\ \A run \in DOMAIN ledger : ledger[run].packet \in Packets
    /\ \A who \in DOMAIN agents :
          agents[who] # None /\ agents[who].role = "reviewer" => agents[who].run \in DOMAIN ledger
    /\ room \in 0..MaxFaults

\* However often it dies and is run again, it decides and dispatches the work
\* once, binds the repository once, takes each stage once, and imports each
\* review's findings once.
NothingTwice ==
    /\ AtMostOne(Of(host, "decision", Unit))
    /\ AtMostOne(Of(host, "repository", Unit))
    /\ AtMostOne(implementationContributions(host, Unit))
    /\ \A to \in Stages : AtMostOne({k \in Moves : core[k].approval.to = to})
    /\ AtMostOne({k \in DOMAIN core :
                    core[k].kind = "criterion" /\ core[k].stage = "ACCEPTANCE_CRITERIA"})
    /\ \A j \in DOMAIN host :
          AtMostOne({k \in DOMAIN core : core[k].snapshot /\ core[k].source = j})

\* A verdict a human may be looking at is never replaced: no review is asked
\* for after one was imported.
VerdictFinal ==
    \A j \in Of(host, "review", Unit) : \A i \in Packets \cup Of(host, "review", Unit) : i <= j

\* Running it again repeats nothing and takes nothing back.
NothingRedone == NothingTwice /\ VerdictFinal

\* A run that ends PARTIAL ends on the content its reviewer approved and HMA
\* credited, whatever an agent left behind commits meanwhile.
EndsReviewed ==
    Done => \E j \in Of(host, "review", Unit) :
        /\ host[j].verdict = "APPROVE"
        /\ host[j].target.head = core[Len(core)].approval.head
        /\ \E k \in Credits(host) : host[k].review = j

-----------------------------------------------------------------------------
(* Where running hmarun again does not help.                               *)

RunningFor(run) ==
    \E who \in DOMAIN agents :
        Running(who) /\ agents[who].role = "reviewer" /\ agents[who].run = run

\* A reviewer's launch agent-dispatch cannot account for, now or ever.
Unaccountable ==
    {run \in Unaccounted : ledger[run].exit = None => ~RunningFor(run)}

\* A latest packet with output import refuses, that is kept for its output.
Unanswerable(i) == ~Imported(i) /\ OutputUsable(i) /\ ~Importable(i)

\* A verdict against the work, or one whose report or content is gone.
Unusable(j) ==
    \/ host[j].verdict # "APPROVE"
    \/ host[j].target # target
    \/ ~Credited /\ report # ledger[host[j].receipt].listed

\* A criterion passed by a credit that was cut short.
Uncredited == Credited /\ \A k \in Credits(host) : host[k].record # CriteriaAt(core)

\* Besides these, a finding in the way of verification: a launch nobody
\* accounted for, or a fact HMA established.  hmarun has nothing waived.
DeadEnd ==
    /\ ~Done
    /\ \/ Unaccountable # {} \/ ~FindingsResolved(core, Unit)
       \/ \E i \in Packets : i = findReviewDispatch /\ Unanswerable(i)
       \/ \E j \in Of(host, "review", Unit) : j = latestImportedReview /\ Unusable(j)
       \/ Uncredited

\* Everywhere else running it again helps: the run reaches PARTIAL, whatever
\* agents fail, preflights expire or invocations die.
ReachesPartial == <>(DeadEnd \/ Done)

\* Once there, nothing hmarun or its agents do gets the run out.
DeadEndsStay == [][DeadEnd => DeadEnd']_vars

\* run.go:1980-1982: after a dead review dispatch, running hmarun again mints
\* a fresh packet, and the run goes on.
RerunRecovers == <>Done
===============
