------------------------------ MODULE MCRunChain ------------------------------
(***************************************************************************)
(* Small instances of RunChain.  Each cfg picks the run up at chains the   *)
(* commands themselves build (Walk: approved transitions, each spending    *)
(* its own nonce, numbered by its position), and gives humans a few        *)
(* packets, operations and reports that meet on one question.              *)
(***************************************************************************)
EXTENDS RunChain, TLC

CONSTANTS
    u1, u2,       \* units
    h1, h2,       \* heads
    b1,           \* base
    d1,           \* evidence digest
    c1, c2, c3,   \* contracts: c1 and c2 name the same criteria
    x, y,         \* criteria
    binary,       \* an artifact
    n1, n2, n3    \* challenges not spent yet

Nothing == {}
Symmetric == Permutations(Procs) \cup Permutations(Nonces)

MCCriteriaOf ==
    [k \in {c1, c2, c3} |-> IF k = c3 THEN {x} ELSE {x, y}]

\* A packet for leaving one stage for another, for the whole run.
Leave(from, to) ==
    [unit |-> None, from |-> from, to |-> to, outcome |-> None, class |-> FALSE,
     base |-> b1, bindsWorktree |-> FALSE, needs |-> {}, contract |-> None]

End(from, o) == [Leave(from, None) EXCEPT !.outcome = o]
Under(k, c) == [k EXCEPT !.contract = c]
For(k, u) == [k EXCEPT !.unit = u]

-----------------------------------------------------------------------------
(* Chains a run is picked up at.                                           *)

Road == <<"GROUNDING", "ACCEPTANCE_CRITERIA", "PLANNING", "ROUTE_SELECTION",
          "IMPLEMENTATION_AUTHORIZATION", "IMPLEMENTATION_REVIEW", "VERIFICATION",
          "INDEPENDENT_VALIDATION", "RELEASE_AND_CLOSURE">>

\* The record of the move along the i-th road edge, spending nonce n; the
\* edges into and out of implementation review are a unit's.
Moved(i, n, c) ==
    LET k == [Leave(Road[i], Road[i + 1]) EXCEPT !.unit = IF i \in {5, 6} THEN u1 ELSE None]
    IN  AppliedRecord(<<>>,
            [unit |-> k.unit, from |-> k.from, to |-> k.to, outcome |-> None,
             class |-> FALSE, nonce |-> n, base |-> b1,
             head |-> IF ApprovalBindsHeadDiff(k.from) THEN h1 ELSE None,
             wt |-> None, needs |-> {}, contract |-> c])

\* To the i-th stage of the road, without a contract.
Walk(i) == [j \in 1..(i - 1) |-> Moved(j, j, None)]

CriteriaRecord(cs) == [Blank EXCEPT !.kind = "criterion", !.criteria = cs]

\* The same with contract c1 accepted at the second edge, its criteria cs.
WalkUnder(i, cs) ==
    <<Moved(1, 1, None), CriteriaRecord(x :> "PENDING" @@ y :> "PENDING")>>
    \o [j \in 1..(i - 2) |-> Moved(j + 1, j + 1, c1)]
    \o (IF cs = NoMap THEN <<>> ELSE <<CriteriaRecord(cs)>>)

\* To VERIFICATION, evidence for leaving it, and back there again by another
\* route.
Revisit ==
    LET back == Moved(6, 8, None) IN
    Walk(7) \o PilotRecords(Moved(7, 7, None).approval, d1, [head |-> h1, wt |-> None])
            \o <<[back EXCEPT !.stage = "VERIFICATION",
                              !.approval.from = "VERIFICATION",
                              !.approval.to = "ROUTE_SELECTION"],
                 Moved(4, 9, None), Moved(5, 10, None), Moved(6, 11, None)>>

-----------------------------------------------------------------------------
(* Control: who moves the run, and what a challenge is spent on.           *)

ArtifactWaiver == [kind |-> "artifact", target |-> binary]
Operation(op, scope, u) == [op |-> op, scope |-> scope, disp |-> None, unit |-> u]

ControlSeeds == {<<>>}
ControlPackets ==
    {Leave("GROUNDING", "ACCEPTANCE_CRITERIA"), Leave("ACCEPTANCE_CRITERIA", "PLANNING"),
     Leave("ACCEPTANCE_CRITERIA", "ROUTE_SELECTION"), End("GROUNDING", "ABORTED"),
     End("ACCEPTANCE_CRITERIA", "ABORTED"), For(End("GROUNDING", "FAILED"), u1)}
ControlOperations ==
    {Operation("GRANT", ArtifactWaiver, None), Operation("WITHDRAW", ArtifactWaiver, None)}

-----------------------------------------------------------------------------
(* Evidence: what a decision relies on, and the revision it was taken at.  *)

EvidenceSeeds == {Revisit}
EvidencePackets ==
    {Leave("VERIFICATION", "INDEPENDENT_VALIDATION"),
     [Leave("VERIFICATION", "INDEPENDENT_VALIDATION") EXCEPT !.needs = {d1},
                                                             !.bindsWorktree = TRUE]}

-----------------------------------------------------------------------------
(* Control and evidence are checked in one run, each at its own seed.      *)

DecisionSeeds == ControlSeeds \cup EvidenceSeeds
DecisionPackets == ControlPackets \cup EvidencePackets
DecisionGrowth == [c \in DecisionSeeds |-> IF c \in EvidenceSeeds THEN 2 ELSE 4]

Presented(packets) ==
    \A p \in Procs : job[p].packet # None =>
        \E k \in packets : k.from = job[p].packet.from

\* Control is checked in one clean repository, evidence without operations.
OwnScenario ==
    IF IsPrefix(Revisit, chain)
    THEN /\ Presented(EvidencePackets)
         /\ \A p \in Procs : \A i \in DOMAIN job[p].want :
               job[p].want[i].kind # "waiver_operation"
    ELSE Presented(ControlPackets) /\ repo = [head |-> h1, wt |-> None]

-----------------------------------------------------------------------------
(* Contracts.                                                              *)

\* A contract accepted, then the run taken back to ACCEPTANCE_CRITERIA.
Reopened ==
    WalkUnder(4, NoMap)
    \o <<[Moved(4, 5, c1) EXCEPT !.approval.to = "GROUNDING"], Moved(1, 6, c1)>>

ContractSeeds == {Walk(2), WalkUnder(4, NoMap), Reopened}
ContractPackets ==
    {Under(Leave("ACCEPTANCE_CRITERIA", "PLANNING"), c) : c \in {c1, c3, None}}
    \cup {Under(Leave("PLANNING", "ROUTE_SELECTION"), c) : c \in {c1, c2, None}}
    \cup {Under(Leave("ROUTE_SELECTION", "PLANNING"), c) : c \in {c1, c2}}

-----------------------------------------------------------------------------
(* Review: findings, waivers, failures, and how the run may stop.          *)

Found(u, name, d) == [id \in {FindingID(u, name)} |-> [disp |-> d, unit |-> u]]
Imported(u, fs) ==
    [Blank EXCEPT !.unit = u, !.snapshot = TRUE, !.findings = fs, !.sealed = fs]
Report(u, v, fs) == [unit |-> u, verdict |-> v, imported |-> fs]
OnFinding(u, name) == [kind |-> "finding", target |-> FindingID(u, name)]
Override(u, name) == [Operation("OVERRIDE", OnFinding(u, name), None) EXCEPT !.disp = "ADVISORY"]
Classify(u, o) == [For(End("IMPLEMENTATION_REVIEW", o), u) EXCEPT !.class = TRUE]

ReviewSeeds ==
    {Walk(6),
     Append(WalkUnder(6, x :> "PASSED" @@ y :> "PENDING"),
            Imported(u1, Found(u1, "f", "WAIVABLE")))}
ReviewPackets ==
    {For(Leave("IMPLEMENTATION_REVIEW", "VERIFICATION"), u) : u \in {u1, u2}}
    \cup {Classify(u1, "BLOCKED"), Classify(u2, "FAILED"),
          End("IMPLEMENTATION_REVIEW", "BLOCKED"), End("IMPLEMENTATION_REVIEW", "FAILED"),
          Under(End("IMPLEMENTATION_REVIEW", "PARTIAL"), c1)}
ReviewOperations ==
    {Operation("GRANT", ArtifactWaiver, u1), Operation("WITHDRAW", ArtifactWaiver, u2),
     Operation("GRANT", OnFinding(u1, "f"), None),
     Operation("EXPIRE", OnFinding(u1, "f"), None), Override(u1, "f"),
     Operation("GRANT", [kind |-> "criterion", target |-> y], None)}
ReviewReports ==
    {Report(u1, "APPROVE", [f |-> "WAIVABLE"]), Report(u1, "REQUEST_CHANGES", NoMap),
     Report(u2, "APPROVE", [g |-> "BLOCK"])}

\* Contracts and reviews are checked in one run.
GovernedSeeds == ReviewSeeds \cup ContractSeeds
GovernedPackets == ReviewPackets \cup ContractPackets

GovernedGrowth == [c \in GovernedSeeds |-> 3]

AliasSeeds == {Walk(6)}
AliasGrowth == [c \in AliasSeeds |-> 4]
===============================================================================
