----------------------------- MODULE HostRecords -----------------------------
(***************************************************************************)
(* The records of a run's host chain and what the code derives from them:  *)
(* the evaluators of src/internal/host and the host gates of cmd/hma.      *)
(*                                                                         *)
(* h is a host chain, c the core chain it is kept beside.  A host record   *)
(* names the core record it was written after by its index (core), other   *)
(* host records by theirs, a route by the worker's seat and the index of   *)
(* the core record approving it.  A seat is [worker, model, provider,      *)
(* family, context, writes]; 0 is no record.  The target of a review is    *)
(* the repository's head and uncommitted content at the approved base.     *)
(***************************************************************************)
EXTENDS ChainGates, Checkpoint

CONSTANTS
    RiskOf,     \* the risk of each acceptance contract
    PlanUnit,   \* the planned unit under each: perms, criteria, milestone flag, wall time
    ClassesAt,  \* the classes of each changed path, by target
    TTL         \* how long a preflight and a review packet are good for

Of(h, kind, unit) == {i \in DOMAIN h : h[i].kind = kind /\ h[i].unit = unit}
Latest(S) == IF S = {} THEN 0 ELSE Max(S)

-----------------------------------------------------------------------------
(* What the unit is bound to, and the repository.                          *)

currentBinding(c, unit) == <<BoundContractDigest(c), currentIssuer(c, unit)>>

\* The packet reviews the run's repository at the base the route approval names.
requireApprovedRepository(h, c, unit, base) ==
    LET a == approvedCoreRoute(c, unit) IN
    RunRepository(h) /\ a # 0 /\ c[a].approval.base = base

-----------------------------------------------------------------------------
(* Decisions, preflights and implementations.                              *)

sameRoute(r, s) ==
    /\ r.approval = s.approval
    /\ \A f \in {"worker", "model", "provider", "family", "writes"} : r.seat[f] = s.seat[f]

latestDecision(h, unit) == Latest(Of(h, "decision", unit))

failedPreflightAfter(h, unit, i) ==
    \E j \in Of(h, "preflight", unit) :
        j > i /\ h[j].role = "implementation" /\ h[j].status # "AVAILABLE"

\* A decision that changes route or mode names the one it replaces, and takes
\* a fresh approval unless the old route proved unavailable.
EvaluateDecision(h, d) ==
    LET p == latestDecision(h, d.unit)
        same == p # 0 /\ h[p].mode = d.mode /\ sameRoute(h[p], d)
    IN  /\ d.supersedes \in {p} \cup (IF same THEN {0} ELSE {})
        /\ p # 0 /\ ~same /\ h[p].approval = d.approval => failedPreflightAfter(h, d.unit, p)

Implements(r) == r.kind = "dispatch" /\ r.role = "implementation"

\* The record that stands for the unit's implementation: a direct decision
\* itself, else the latest dispatch of the decided route.
RequireImplementation(h, unit) ==
    LET d == latestDecision(h, unit) IN
    IF d = 0 THEN 0
    ELSE IF h[d].mode = "DIRECT" THEN d
    ELSE Latest({i \in Of(h, "dispatch", unit) :
                 i > d /\ Implements(h[i]) /\ sameRoute(h[i], h[d])})

EvaluatePreflight(h, p, at) ==
    LET d == latestDecision(h, p.unit) IN
    /\ p.expires > at
    /\ IF p.role = "implementation"
       THEN d # 0 /\ h[d].mode = "DELEGATE" /\ sameRoute(h[d], p)
       ELSE RequireImplementation(h, p.unit) # 0 /\ ~p.seat.writes

\* Everyone who implemented the unit: delegated workers and direct ones.
implementationContributions(h, unit) ==
    {i \in Of(h, "dispatch", unit) : Implements(h[i])}
    \cup {i \in Of(h, "decision", unit) : h[i].mode = "DIRECT"}

-----------------------------------------------------------------------------
(* Review dispatches.                                                      *)

Reviews(r) == r.kind = "dispatch" /\ r.role = "review"
HasPacket(r) == Reviews(r) /\ r.packet # None
packetMode(h) == \E i \in DOMAIN h : HasPacket(h[i])

latestReviewDispatch(h, unit) == Latest({i \in Of(h, "dispatch", unit) : Reviews(h[i])})

\* Whether the review needs another model family than the work's.
Strong(d) ==
    \/ d.risk >= High \/ d.disputed \/ d.final
    \/ d.packet # None /\ (d.packet.reason = 3 \/ d.packet.family)

Independent(s, w, strong) ==
    /\ s.worker # w.worker /\ s.model # w.model /\ s.context # w.context
    /\ strong => s.provider # w.provider /\ s.family # w.family

\* Mutant: only the current implementation counts.
IndependentOfCurrent(h, d) ==
    Independent(d.seat, h[RequireImplementation(h, d.unit)].seat, Strong(d))

IndependentOfAll(h, d) ==
    \A i \in implementationContributions(h, d.unit) :
        Independent(d.seat, h[i].seat, Strong(d))

\* The ids a packet gives its launch were not given to another packet's.
FreshPacket(h, d) == \A i \in DOMAIN h : HasPacket(h[i]) => h[i].packet.run # d.packet.run

EvaluateDispatch(h, d, at) ==
    /\ d.preflight \in Of(h, "preflight", d.unit)
    /\ LET p == h[d.preflight] IN
       /\ p.role = d.role /\ p.status = "AVAILABLE" /\ sameRoute(p, d)
       /\ p.at <= at /\ at <= p.expires
    /\ IF d.role = "implementation"
       THEN LET j == latestDecision(h, d.unit)
            IN  j # 0 /\ h[j].mode = "DELEGATE" /\ sameRoute(h[j], d)
       ELSE /\ d.implementation # 0
            /\ d.implementation = RequireImplementation(h, d.unit)
            /\ IF d.packet = None THEN ~packetMode(h) ELSE FreshPacket(h, d)
            /\ ~d.seat.writes
            /\ IndependentOfAll(h, d)

-----------------------------------------------------------------------------
(* Reviews.                                                                *)

\* A newer review dispatch of the unit, answered or not, supersedes a review.
AnswersLatestReviewDispatch(h, v) ==
    packetMode(h) => latestReviewDispatch(h, v.unit) = v.dispatch

EvaluateReview(h, v) ==
    LET d == h[v.dispatch] IN
    /\ v.implementation # 0
    /\ v.implementation = RequireImplementation(h, v.unit)
    /\ Reviews(d)
    /\ d.unit = v.unit /\ d.implementation = v.implementation /\ d.target = v.target
    /\ IF d.packet = None
       THEN v.receipt = None /\ ~packetMode(h) /\ v.verdict \in {"APPROVE", "BLOCK"}
       ELSE v.receipt # None

\* The agent-dispatch receipt l is of the launch the dispatch authorizes: its
\* route, packet and target, started while the packet was valid.
ReviewLaunchMatches(d, l) ==
    /\ l.run = d.packet.run /\ l.mode = "review"
    /\ l.worker = d.seat.worker /\ l.model = d.seat.model
    /\ l.target = d.target
    /\ d.at <= l.started /\ l.started < d.packet.until

\* Only the unit's latest review dispatch is answerable, once, while the
\* implementation it names is the current one.
Answerable(h, i) ==
    /\ i = latestReviewDispatch(h, h[i].unit)
    /\ h[i].implementation = RequireImplementation(h, h[i].unit)
    /\ \A j \in DOMAIN h : h[j].kind = "review" => h[j].dispatch # i

\* What importing a report makes of its verdict.  A report that breaks the
\* report contract, or a pass that cites an HMA rule, is not valid.
MapReportVerdict(rep) ==
    CASE rep.verdict = "pass" -> IF rep.valid THEN "APPROVE" ELSE "ESCALATE"
      [] rep.verdict = "fix-required" -> IF rep.valid THEN "REQUEST_CHANGES" ELSE "ESCALATE"
      [] OTHER -> "ESCALATE"

\* A pass that is not isolated cannot answer a final packet.
IsolationSuffices(d, rep) ==
    rep.verdict = "pass" /\ rep.isolation # "isolated" => d.packet.reason # 3 /\ ~d.final

EvaluateReviewImport(h, i, l, rep) ==
    /\ Answerable(h, i)
    /\ ReviewLaunchMatches(h[i], l)
    /\ rep.packet = i
    /\ IsolationSuffices(h[i], rep)

\* The imported review stands: of the current implementation, and no review or
\* review dispatch of the unit came after it.
RequireLatestImportedReview(h, i) ==
    /\ i \in DOMAIN h /\ h[i].kind = "review" /\ h[i].receipt # None
    /\ h[i].implementation = RequireImplementation(h, h[i].unit)
    /\ AnswersLatestReviewDispatch(h, h[i])
    /\ \A j \in Of(h, "review", h[i].unit) : j <= i

\* The latest review of the current implementation, 0 unless it approves.
ApprovedReview(h, unit) ==
    LET m == RequireImplementation(h, unit)
        i == Latest({j \in Of(h, "review", unit) : h[j].implementation = m})
    IN  IF /\ m # 0 /\ i # 0
           /\ AnswersLatestReviewDispatch(h, h[i]) /\ h[i].verdict = "APPROVE"
        THEN i ELSE 0

-----------------------------------------------------------------------------
(* The checkpoint classification of a unit, and the baseline it starts at. *)

firstContractAcceptance(c) ==
    LET i == SelectInSeq(c, AcceptsContract) IN IF i = 0 THEN None ELSE c[i].approval.contract

\* The unit as the plan of its current lease generation has it.
currentPlanUnit(c, unit) == PlanUnit[c[currentIssuer(c, unit)].approval.contract]

CurrentCovers(c, unit) ==
    [contract |-> BoundContractDigest(c), perms |-> currentPlanUnit(c, unit).perms]

\* The unit's permissions in the plan of its first lease generation.
firstLeasePermissionClasses(c, unit) ==
    LET i == SelectInSeq(c, LAMBDA r : IssuesLease(r, unit))
    IN  IF i = 0 THEN {} ELSE PlanUnit[c[i].approval.contract].perms

\* What the unit's latest approved checkpoint-grade review covered, else what
\* the run started with.
checkpointReviewBaseline(h, c, unit) ==
    LET i == Latest({j \in Of(h, "review", unit) :
                     /\ h[j].verdict = "APPROVE"
                     /\ HasPacket(h[h[j].dispatch])
                     /\ h[h[j].dispatch].packet.contract # None
                     /\ h[h[j].dispatch].packet.reason >= 2})
    IN  IF i # 0 THEN h[h[i].dispatch].packet.covers
        ELSE [contract |-> firstContractAcceptance(c),
              perms |-> firstLeasePermissionClasses(c, unit)]

\* A review of target requested at the given stage, risk and dispute flag.
CheckpointInput(h, c, unit, target, stage, risk, disputed) ==
    LET k == BoundContractDigest(c) IN
    [risk |-> RiskOf[k], baseline |-> checkpointReviewBaseline(h, c, unit),
     current |-> CurrentCovers(c, unit), manifest |-> ClassesAt[target],
     milestone |-> currentPlanUnit(c, unit).milestone, stage |-> stage, outcome |-> None,
     hostRisk |-> risk, disputed |-> disputed]
-----------------------------------------------------------------------------
(* The host gates of hma transition.                                       *)

\* The route the unit's decision, and its delegated implementation, claim is
\* the one the core chain approves.
requireApprovedHostRoute(h, c, unit) ==
    LET a == approvedCoreRoute(c, unit)
        m == RequireImplementation(h, unit)
    IN  a # 0 /\ m # 0 /\ h[latestDecision(h, unit)].approval = a /\ h[m].approval = a

ImplementationGate(h, c, unit) ==
    /\ requireApprovedHostRoute(h, c, unit)
    /\ h[RequireImplementation(h, unit)].core = Len(c)

ImportedFrom(r, i) == r.snapshot /\ r.source = i

\* Mutant: only moves of the unit count.
NoMoveSince(c, v, i) == \A j \in (v.core + 1)..Len(c) : ~ApprovedMove(c[j])

\* Since review i of h the core chain only took its own findings snapshots.
requireOnlyOwnSnapshotsSince(c, v, i) ==
    \A j \in (v.core + 1)..Len(c) : ImportedFrom(c[j], i)

\* An imported review counts once its findings are in the core chain.
SnapshotApplied(c, v, i) ==
    /\ requireOnlyOwnSnapshotsSince(c, v, i)
    /\ v.receipt # None => v.core < Len(c)

\* The approval binds head and, if it likes, uncommitted content; the
\* transition declares the live content.
ReviewedTarget(v, a, target) ==
    /\ a.wt \in {None, target.wt}
    /\ v.target = [head |-> a.head, wt |-> target.wt]

ReviewGate(h, c, a, target) ==
    LET i == ApprovedReview(h, a.unit) IN
    /\ i # 0
    /\ requireApprovedHostRoute(h, c, a.unit)
    /\ SnapshotApplied(c, h[i], i)
    /\ ReviewedTarget(h[i], a, target)

\* The unit's latest approval into INDEPENDENT_VALIDATION.
EnteredValidation(c, unit) ==
    SelectLastInSeq(c, LAMBDA r :
        /\ ApprovedMove(r) /\ r.approval.unit = unit
        /\ Edge(r.approval, "VERIFICATION", "INDEPENDENT_VALIDATION"))

\* Mutant: the reviewer need not have been isolated.
QualifiesUnisolated(h, c, unit, i) ==
    LET p == h[h[i].dispatch].packet IN
    /\ AnswersLatestReviewDispatch(h, h[i])
    /\ h[i].verdict = "APPROVE"
    /\ p # None /\ p.contract # None /\ p.reason >= 2
    /\ EnteredValidation(c, unit) # 0
    /\ EnteredValidation(c, unit) <= h[h[i].dispatch].core

\* Review i is checkpoint grade and was dispatched once the unit had entered
\* the stage.
CheckpointGrade(h, c, unit, i) ==
    LET p == h[h[i].dispatch].packet IN
    /\ AnswersLatestReviewDispatch(h, h[i])
    /\ h[i].verdict = "APPROVE" /\ h[i].isolation = "isolated"
    /\ p # None /\ p.contract # None /\ p.reason >= 2
    /\ EnteredValidation(c, unit) # 0
    /\ EnteredValidation(c, unit) <= h[h[i].dispatch].core

CheckpointGate(h, c, a, target) ==
    LET in == CheckpointInput(h, c, a.unit, target, "INDEPENDENT_VALIDATION", 0, FALSE)
        d == ClassifyCheckpoint(in)
        i == Latest(Of(h, "review", a.unit))
    IN  /\ approvedCoreRoute(c, a.unit) # 0
        /\ currentIssuer(c, a.unit) # 0
        /\ d.triggers # {} =>
              /\ FindingsResolved(c, a.unit)
              /\ i # 0
              /\ CheckpointGrade(h, c, a.unit, i)
              /\ SnapshotApplied(c, h[i], i)
              /\ LET v == h[i] p == h[v.dispatch].packet IN
                 /\ d.triggers \subseteq p.triggers
                 /\ p.contract = BoundContractDigest(c)
                 /\ h[v.dispatch].risk >= d.required
                 /\ ReviewedTarget(v, a, target)

-----------------------------------------------------------------------------
(* Credit, and what a claim of success requires of it.                     *)

Credits(h) == {i \in DOMAIN h : h[i].kind = "credit"}

\* The review was dispatched under the contract and lease now in force.
reviewBinding(h, c, v) ==
    LET then == SubSeq(c, 1, h[v.dispatch].core) IN
    /\ None \notin {BoundContractDigest(then)} /\ currentIssuer(then, v.unit) # 0
    /\ currentBinding(then, v.unit) = currentBinding(c, v.unit)

criterionDisposition(exit, status) ==
    IF exit # 0 THEN "FAILED" ELSE IF status = "pass" THEN "PASSED" ELSE "PENDING"

\* Review i can credit the criteria of the unit's plan on the live target.
Creditable(h, c, i, target, base) ==
    LET v == h[i] IN
    /\ RequireLatestImportedReview(h, i)
    /\ v.verdict = "APPROVE" /\ v.isolation = "isolated"
    /\ approvedCoreRoute(c, v.unit) # 0
    /\ reviewBinding(h, c, v)
    /\ requireApprovedRepository(h, c, v.unit, base)
    /\ v.target = target
    /\ currentPlanUnit(c, v.unit).criteria \subseteq DOMAIN Criteria(c)

EvidenceRecord(c, unit) ==
    [Blank EXCEPT !.kind = "evidence", !.unit = unit, !.stage = CurrentStage(c)]

CriteriaRecord(c, unit, results) ==
    [Blank EXCEPT !.kind = "criterion", !.unit = unit, !.stage = CurrentStage(c),
                  !.criteria = [id \in DOMAIN Criteria(c) |->
                      IF id \in DOMAIN results THEN results[id] ELSE Criteria(c)[id]]]

\* What crediting leaves in the core chain: the evidence of each check, then
\* the criteria with their results.
CreditRecords(c, unit, results) ==
    Append([n \in 1..Cardinality(DOMAIN results) |-> EvidenceRecord(c, unit)],
           CriteriaRecord(c, unit, results))

\* The core record of the latest criterion snapshot.
CriteriaAt(c) == SelectLastInSeq(c, LAMBDA r : r.kind = "criterion" /\ r.criteria # NoMap)

\* The latest credit with a result for the criterion.
LatestCredit(h, id) == Latest({i \in Credits(h) : id \in DOMAIN h[i].results})

\* Mutant: the criterion snapshot may have been written by anyone.
CreditStandsAlone(h, c, target, id) ==
    LET i == LatestCredit(h, id) IN
    /\ i # 0 /\ h[i].results[id] = "PASSED" /\ h[i].target = target
    /\ <<h[i].contract, h[i].issuer>> = currentBinding(c, h[i].unit)

\* Mutant: the live target need not be the one that was credited.
CreditStandsElsewhere(h, c, target, id) ==
    LET i == LatestCredit(h, id) IN
    /\ \E j \in Credits(h) : h[j].record = CriteriaAt(c)
    /\ i # 0 /\ h[i].results[id] = "PASSED"
    /\ <<h[i].contract, h[i].issuer>> = currentBinding(c, h[i].unit)
    /\ RequireLatestImportedReview(h, h[i].review)

\* The credit passed the criterion on the live target, under the contract and
\* lease in force, by a final audit that still stands.
CreditStands(h, c, target, id) ==
    LET i == LatestCredit(h, id) IN
    /\ \E j \in Credits(h) : h[j].record = CriteriaAt(c)
    /\ i # 0 /\ h[i].results[id] = "PASSED" /\ h[i].target = target
    /\ <<h[i].contract, h[i].issuer>> = currentBinding(c, h[i].unit)
    /\ RequireLatestImportedReview(h, h[i].review)
    /\ LET p == h[h[h[i].review].dispatch].packet IN
       p.reason = 3 /\ p.contract = BoundContractDigest(c)

requireIndependentCredit(h, c, target) ==
    \A id \in DOMAIN Criteria(c) : Criteria(c)[id] = "PASSED" => CreditStands(h, c, target, id)
===============================================================================
