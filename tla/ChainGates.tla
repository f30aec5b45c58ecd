------------------------------ MODULE ChainGates ------------------------------
(***************************************************************************)
(* The side-effect-free evaluators that decide whether a human decision    *)
(* may be recorded after a chain: src/internal/engine, and the part of the *)
(* host gates of cmd/hma that reads the core chain.                        *)
(*                                                                         *)
(* An approval a is what a human approved: the unit, the stage it leaves   *)
(* (from), its target stage or outcome, whether it classifies the outcome  *)
(* as a failure of the unit (class), its nonce, base, head and worktree    *)
(* digest (None where it binds none), required evidence and contract       *)
(* digest.  The diff an approval binds is determined by its base and head  *)
(* and is not a field.  Malformed and expired approvals, and approvals the *)
(* host expected otherwise, are refused without effect; only well-formed,  *)
(* fresh, expected ones are represented.                                   *)
(***************************************************************************)
EXTENDS ChainRecords

CONSTANTS
    CriteriaOf,  \* the criterion ids of each acceptance contract
    HmaNames     \* names of findings HMA establishes itself ("HMA-...")

Open == {"PENDING", "FAILED"}
Settled == {"PASSED", "WAIVED"}

-----------------------------------------------------------------------------
(* Stage transitions.                                                      *)

\* An approval proposes a stage or an outcome, not both.
ValidApprovalTarget(a) ==
    \/ a.outcome = None /\ a.to \in Stages
    \/ a.to = None /\ a.outcome \in Outcomes

\* EvaluateApprovalBinding: the target is one, the challenge is unspent, the
\* approval was made for exactly this chain position, and the worktree content
\* it binds, if any, is the live one.
AdmitsApproval(c, a, at, worktree) ==
    /\ ValidApprovalTarget(a)
    /\ a.nonce \notin UsedNonces(c)
    /\ at = Len(c) + 1
    /\ a.wt \in {None, worktree}

\* EvaluateTransition, and the outcomes EvaluateStageTransition implements.
LegalTarget(a) ==
    IF a.outcome = None
    THEN IsLegalEdge(a.from, a.to)
    ELSE a.outcome \in stoppingOutcomes

\* Mutant: evidence from any revision will do.
EvidencePresent(c, a) ==
    \A d \in a.needs : \E e \in Evidence(c) : e.digest = d

\* Every required digest is in the chain, captured at the bound revision.
EvidenceSatisfied(c, a) ==
    \A d \in a.needs : \E e \in Evidence(c) :
        /\ e.digest = d
        /\ e.base = a.base
        /\ a.head \in {None, e.head}

\* A failure outcome needs its live classification, PARTIAL needs none and
\* criteria of both sorts; a classification only needs to be well formed.
OutcomeSupported(c, a) ==
    IF a.class
    THEN a.outcome \in FailureOutcomes /\ a.unit # None
    ELSE /\ a.outcome \in FailureOutcomes => FailureOutcome(c) = a.outcome
         /\ a.outcome = "PARTIAL" =>
               /\ FailureOutcome(c) = None
               /\ \E d \in DOMAIN Criteria(c) : Criteria(c)[d] \in Settled
               /\ \E d \in DOMAIN Criteria(c) : Criteria(c)[d] \in Open

\* Mutant: the approval may leave a stage the run is not in.
AdmitsFromAnywhere(c, a, at, worktree) ==
    /\ ~Terminal(c)
    /\ LegalTarget(a)
    /\ AdmitsApproval(c, a, at, worktree)

AdmitsTransition(c, a, at, worktree) ==
    /\ ~Terminal(c)
    /\ a.from = CurrentStage(c)
    /\ LegalTarget(a)
    /\ AdmitsApproval(c, a, at, worktree)
    /\ EvidenceSatisfied(c, a)
    /\ OutcomeSupported(c, a)

\* EvaluateContractBinding, for an approval presented with contract document
\* doc (None when the host presents none).
AcceptsAnew(a) == a.from = "ACCEPTANCE_CRITERIA" /\ a.to = "PLANNING"

\* Mutant: only the accepting approval is checked.
AdmitsAcceptance(c, a, doc) ==
    AcceptsAnew(a) /\ a.contract # None =>
        doc = a.contract /\ CriteriaOf[doc] = DOMAIN Criteria(c)

AdmitsContract(c, a, doc) ==
    LET describes(d) == CriteriaOf[d] = DOMAIN Criteria(c)
        bound == BoundContractDigest(c)
    IN  IF AcceptsAnew(a)
        THEN /\ doc = a.contract
             /\ a.contract = None => ~usedContract(c)
             /\ a.contract # None => describes(doc)
        ELSE /\ a.contract = bound
             /\ doc \in {None, bound}
             /\ bound # None =>
                   /\ doc # None => describes(doc)
                   /\ DOMAIN AcceptedCriteria(c) = DOMAIN Criteria(c)

\* The record Apply files under the stage the approval leaves.
AppliedRecord(c, a) ==
    [Blank EXCEPT
        !.kind = IF a.class THEN "classification"
                 ELSE IF a.outcome # None THEN "outcome" ELSE "stage_transition",
        !.control = "APPROVED", !.stage = a.from, !.unit = a.unit, !.approval = a,
        !.outcome = IF a.class THEN None ELSE a.outcome,
        !.criteria = IF a.class \/ a.outcome = None THEN NoMap ELSE Criteria(c)]

-----------------------------------------------------------------------------
(* Host gates, as far as they read the core chain.                         *)

\* Mutant: a unit's findings are those it owns.
OwnFindingsResolved(c, unit) ==
    \A id \in DOMAIN Findings(c) :
        LET f == Findings(c)[id] IN
        \/ unit # None /\ f.unit # unit
        \/ f.disp = "ADVISORY"
        \/ f.disp = "WAIVABLE" /\ [kind |-> "finding", target |-> id] \in ActiveWaivers(c)

\* requireFindingsResolved for a unit, or for the whole run (None).  A
\* finding no unit owns concerns every unit.
FindingsResolved(c, unit) ==
    \A id \in DOMAIN Findings(c) :
        LET f == Findings(c)[id] IN
        \/ None \notin {unit, f.unit} /\ f.unit # unit
        \/ f.disp = "ADVISORY"
        \/ /\ f.disp = "WAIVABLE"
           /\ [kind |-> "finding", target |-> id] \in ActiveWaivers(c)

Edge(a, from, to) == a.from = from /\ a.to = to
ImplementationEdge(a) ==
    Edge(a, "IMPLEMENTATION_AUTHORIZATION", "IMPLEMENTATION_REVIEW")
ReviewEdge(a) == Edge(a, "IMPLEMENTATION_REVIEW", "VERIFICATION")
CheckpointEdge(a) == Edge(a, "INDEPENDENT_VALIDATION", "RELEASE_AND_CLOSURE")
ClaimsClosure(a) == a.outcome \in closureOutcomes   \* mutant: PARTIAL claims nothing
ClaimsSuccess(a) == a.outcome \in closureOutcomes \cup {"PARTIAL"}

\* requireHostTransitionGateIn, then the success-claim gate of runTransition.
\* The checks on host records (implementation, route, review, checkpoint and
\* credit records) can only refuse, which a transition may do at any point.
HostAdmits(c, a) ==
    /\ \/ ImplementationEdge(a)
       \/ ReviewEdge(a)
       \/ CheckpointEdge(a) /\ BoundContractDigest(c) # None
       => a.unit # None /\ ~Terminal(c)
    /\ ReviewEdge(a) => FindingsResolved(c, a.unit)
    /\ ClaimsSuccess(a) =>
          /\ BoundContractDigest(c) # None
          /\ FindingsResolved(c, None)
          /\ a.outcome = "VERIFIED_SUCCESS" => ActiveWaivers(c) = {}

-----------------------------------------------------------------------------
(* ValidateRecord, as far as a command's well-formed inputs can fail it.   *)

ValidateRecord(r) ==
    r.approval # None =>
        LET a == r.approval IN
        /\ r.unit = a.unit
        /\ r.stage = a.from
        /\ a.class => r.kind = "classification"
        /\ a.outcome # None =>
              r.control = "APPROVED" /\ r.kind \in {"outcome", "classification"}

-----------------------------------------------------------------------------
(* EvaluateResolution, for an operation r with its challenge.              *)

\* Mutant: a scope may be waived twice.
AdmitsGrantAgain(c, scope) ==
    \/ /\ scope.kind = "finding"
       /\ scope.target \in DOMAIN Findings(c)
       /\ Findings(c)[scope.target].disp # "BLOCK"
    \/ scope.kind = "artifact"

AdmitsGrant(c, scope) ==
    /\ \/ scope.kind = "criterion" /\ scope.target \in DOMAIN Criteria(c)
       \/ /\ scope.kind = "finding"
          /\ scope.target \in DOMAIN Findings(c)
          /\ Findings(c)[scope.target].disp # "BLOCK"
       \/ scope.kind = "artifact"
    /\ scope \notin ActiveWaivers(c)

AdmitsOverride(c, id) ==
    /\ id \in DOMAIN Findings(c)
    /\ Findings(c)[id].disp # "BLOCK"
    /\ id.name \notin HmaNames

AdmitsResolution(c, r) ==
    /\ r.nonce \notin UsedNonces(c)
    /\ \/ r.op = "GRANT" /\ AdmitsGrant(c, r.scope)
       \/ r.op \in {"EXPIRE", "WITHDRAW"} /\ r.scope \in ActiveWaivers(c)
       \/ r.op = "OVERRIDE" /\ AdmitsOverride(c, r.scope.target)

-----------------------------------------------------------------------------
(* Route approvals and leases.                                             *)

Restarts == {"GROUNDING", "ACCEPTANCE_CRITERIA", "PLANNING"}

\* The unit's approval of its route, 0 once the unit or the run went back to
\* choosing one, or any unit went back to planning or further.
approvedCoreRoute(c, unit) ==
    LET approves(r) ==
            /\ ApprovedMove(r) /\ r.unit = unit
            /\ Edge(r.approval, "ROUTE_SELECTION", "IMPLEMENTATION_AUTHORIZATION")
        revokes(r) ==
            /\ ApprovedMove(r)
            /\ \/ r.approval.to \in Restarts
               \/ r.approval.to = "ROUTE_SELECTION" /\ r.unit \in {unit, None}
        i == SelectLastInSeq(c, approves)
    IN  IF \E j \in (i + 1)..Len(c) : revokes(c[j]) THEN 0 ELSE i

IssuesLease(r, unit) ==
    /\ ApprovedMove(r) /\ r.unit = unit /\ unit # None
    /\ r.approval.to = "IMPLEMENTATION_AUTHORIZATION"
    /\ r.approval.from \in {"ROUTE_SELECTION", "INDEPENDENT_VALIDATION"}

\* The core record issuing the unit's current lease generation.
currentIssuer(c, unit) == SelectLastInSeq(c, LAMBDA r : IssuesLease(r, unit))

\* A chain's records are numbered from one.
Numbered(c) == c \in Seq({c[i] : i \in DOMAIN c})

\* A record with the fields of r beside its own.
e ++ r == [f \in DOMAIN e \cup DOMAIN r |-> IF f \in DOMAIN e THEN e[f] ELSE r[f]]

\* The host chain h binds the run to a repository.
RunRepository(h) == \E i \in DOMAIN h : h[i].kind = "repository"

-----------------------------------------------------------------------------
(* ci github: the approval packet CI verifies, and whether it may.         *)

\* The record at which the run entered its current stage.
EnteredAt(c) ==
    SelectLastInSeq(c, LAMBDA r : ApprovedMove(r) /\ r.approval.to = CurrentStage(c))

\* Mutant: the latest packet for leaving the stage, from any visit to it.
AnyCIPacketAt(c) ==
    SelectLastInSeq(c, LAMBDA r : r.approval # None /\ r.approval.from = CurrentStage(c))

\* The latest packet for leaving the current stage, recorded since then.
CIPacketAt(c) ==
    LET i == SelectLastInSeq(c, LAMBDA r :
                 r.approval # None /\ r.approval.from = CurrentStage(c))
    IN  IF i > EnteredAt(c) THEN i ELSE 0

AdmitsCI(c) ==
    /\ ~Terminal(c)
    /\ CIPacketAt(c) # 0
    /\ CurrentStage(c) \in {"VERIFICATION", "IMPLEMENTATION_REVIEW"}

-----------------------------------------------------------------------------
(* Findings snapshots (internal/host/findings_import.go).                  *)

strength(d) == CASE d = "BLOCK" -> 2 [] d = "WAIVABLE" -> 1 [] d = "ADVISORY" -> 0

FindingID(unit, name) == [by |-> unit, name |-> name]

\* A report's finding may not take the id of another owner's finding.
FindingsDistinct(prior, unit, imported) ==
    \A n \in DOMAIN imported :
        FindingID(unit, n) \in DOMAIN prior => prior[FindingID(unit, n)].unit = unit

\* SnapshotFindings: the run-wide findings after a review of unit reported
\* the dispositions imported, given the prior findings.
SnapshotFindings(prior, unit, imported, verdict) ==
    LET theirs == {id \in DOMAIN prior : prior[id].unit # unit}
        ours   == DOMAIN prior \ theirs
        new    == {FindingID(unit, n) : n \in DOMAIN imported}
        kept   == {id \in ours \ new : strength(prior[id].disp) > 0}
        found(id) == [disp |-> imported[id.name], unit |-> unit]
        holds(id) == /\ id \in ours
                     /\ verdict # "APPROVE"
                     /\ strength(prior[id].disp) > strength(imported[id.name])
    IN  [id \in theirs \cup new \cup (IF verdict = "APPROVE" THEN {} ELSE kept) |->
            IF id \in new /\ ~holds(id) THEN found(id) ELSE prior[id]]
===============================================================================
