----------------------------- MODULE MCHostReview -----------------------------
(***************************************************************************)
(* Small instances of HostReview: one unit, picked up before it is         *)
(* implemented, in review, in validation and at its closure, with two      *)
(* contents of the repository and a few workers who share parts.           *)
(***************************************************************************)
EXTENDS HostReview, TLC

CONSTANTS u1, c1, c2, x, y, h1, h2, b1, j1, j2

\* Contract c2 is c1 renegotiated: riskier, and a milestone.
MCCriteriaOf == [k \in {c1, c2} |-> {x, y}]
MCRiskOf == c1 :> 1 @@ c2 :> 2
MCPlanUnit ==
    [k \in {c1, c2} |->
        [perms |-> {"bounded_write", "no_external_effect"}, milestone |-> k = c2,
         criteria |-> {x}]]

t1 == [head |-> h1, wt |-> None]
t2 == [head |-> h2, wt |-> None]
MCTargets == {t1, t2}

\* The classes of what each content changes, under the project's policy.
MCPolicy ==
    {[glob |-> <<"src", "**">>, classes |-> {"ordinary"}],
     [glob |-> <<"**", "auth", "*">>, classes |-> {"security"}]}
MCChanged ==
    t1 :> {<<"src", "main">>, <<"auth", "key">>}
    @@ t2 :> {<<"src", "main">>, <<"src", "util", "time">>}
MCClassesAt == [t \in MCTargets |-> classifyChangedPaths(MCPolicy, MCChanged[t])]

\* The policy is one hma takes.
ASSUME PolicyValid == ValidateCheckpointPolicy(MCPolicy)

\* What the table matchCheckpointGlob fills stands for: the path can be cut
\* into consecutive pieces, one per segment of the glob, a piece of any length
\* for "**" and of one fitting segment for any other.
Reading(glob, path) ==
    \E cut \in [0..Len(glob) -> 0..Len(path)] :
        /\ cut[0] = 0 /\ cut[Len(glob)] = Len(path)
        /\ \A i \in 1..Len(glob) :
              IF glob[i] = "**" THEN cut[i - 1] <= cut[i]
              ELSE cut[i] = cut[i - 1] + 1 /\ glob[i] \in {"*", path[cut[i]]}

\* The matcher computes that reading for all short globs and paths.
ASSUME GlobsReadRight ==
    \A n \in 1..3, k \in 1..3 :
        \A glob \in [1..n -> {"a", "b", "*", "**"}], path \in [1..k -> {"a", "b"}] :
            matchCheckpointGlob(glob, path) <=> Reading(glob, path)

MCEstablished == t1 :> NoMap @@ t2 :> [kernel |-> "BLOCK"]

\* ann and bob implement; cyd reviews, from another family; bea is bob again
\* under another name.
Seat(w, m, f, writes) ==
    [worker |-> w, model |-> m, provider |-> f, family |-> f, context |-> w, writes |-> writes]
ann == Seat("ann", "m1", "f1", TRUE)
bob == Seat("bob", "m2", "f2", TRUE)
bea == Seat("bea", "m2", "f2", FALSE)
cyd == Seat("cyd", "m3", "f3", FALSE)

MCDecisions == {[mode |-> "DELEGATE", seat |-> ann], [mode |-> "DIRECT", seat |-> bob]}
Offer(seat, reason, risk) ==
    [seat |-> seat, reason |-> reason, risk |-> risk, disputed |-> FALSE, final |-> FALSE]
MCOffers == {Offer(cyd, 2, 3), Offer(bea, 1, 3)}
Report(verdict, isolation) ==
    [verdict |-> verdict, isolation |-> isolation, valid |-> TRUE, findings |-> NoMap,
     status |-> "pass"]
MCLaunches ==
    {[seat |-> bea, report |-> Report("pass", "isolated")],
     [seat |-> cyd, report |-> Report("pass", "isolated")],
     [seat |-> cyd, report |-> Report("pass", "partial")],
     [seat |-> cyd, report |-> [Report("fix-required", "isolated") EXCEPT
                                    !.findings = [f |-> "BLOCK"]]]}
-----------------------------------------------------------------------------
(* Chains the unit is picked up at.                                        *)

Ask(from, to, k) ==
    [unit |-> u1, from |-> from, to |-> to, outcome |-> None, contract |-> k]

MCApprovals ==
    {Ask("IMPLEMENTATION_AUTHORIZATION", "IMPLEMENTATION_REVIEW", c1),
     Ask("IMPLEMENTATION_AUTHORIZATION", "IMPLEMENTATION_REVIEW", None),
     Ask("IMPLEMENTATION_REVIEW", "VERIFICATION", c1),
     Ask("IMPLEMENTATION_REVIEW", "VERIFICATION", None),
     Ask("VERIFICATION", "INDEPENDENT_VALIDATION", c2),
     Ask("INDEPENDENT_VALIDATION", "RELEASE_AND_CLOSURE", c2),
     Ask("INDEPENDENT_VALIDATION", "IMPLEMENTATION_AUTHORIZATION", c2),
     [Ask("INDEPENDENT_VALIDATION", None, c2) EXCEPT !.outcome = "PARTIAL", !.unit = None]}

Moved(n, from, to, unit, k) ==
    AppliedRecord(<<>>,
        [unit |-> unit, from |-> from, to |-> to, outcome |-> None, class |-> FALSE,
         nonce |-> n, base |-> b1, head |-> IF ApprovalBindsHeadDiff(from) THEN h1 ELSE None,
         wt |-> None, needs |-> {}, contract |-> k])

Baseline == [Blank EXCEPT !.kind = "criterion", !.criteria = x :> "PENDING" @@ y :> "PENDING"]

\* To IMPLEMENTATION_AUTHORIZATION under contract k: the route approval is the
\* fifth record.
Authorized(k) ==
    <<Moved(1, "GROUNDING", "ACCEPTANCE_CRITERIA", None, None), Baseline,
      Moved(3, "ACCEPTANCE_CRITERIA", "PLANNING", None, k),
      Moved(4, "PLANNING", "ROUTE_SELECTION", None, k),
      Moved(5, "ROUTE_SELECTION", "IMPLEMENTATION_AUTHORIZATION", u1, k)>>

\* The same with c1 accepted first and c2 accepted in its place.
Renegotiated ==
    <<Moved(1, "GROUNDING", "ACCEPTANCE_CRITERIA", None, None), Baseline,
      Moved(3, "ACCEPTANCE_CRITERIA", "PLANNING", None, c1),
      Moved(4, "PLANNING", "GROUNDING", None, c1),
      Moved(5, "GROUNDING", "ACCEPTANCE_CRITERIA", None, c1),
      Moved(6, "ACCEPTANCE_CRITERIA", "PLANNING", None, c2),
      Moved(7, "PLANNING", "ROUTE_SELECTION", None, c2),
      Moved(8, "ROUTE_SELECTION", "IMPLEMENTATION_AUTHORIZATION", u1, c2)>>

H(kind, at) == [kind |-> kind, unit |-> u1, core |-> at, at |-> 1]
On(seat, a) == [seat |-> seat, approval |-> a]
Decided_(seat, mode, a, s) ==
    H("decision", a) @@ On(seat, a) @@ [mode |-> mode, supersedes |-> s]
Preflown(seat, role, a, at) ==
    H("preflight", at) @@ On(seat, a) @@ [role |-> role, status |-> "AVAILABLE", expires |-> 2]
Implemented(seat, a, p) ==
    H("dispatch", a) @@ On(seat, a) @@ [role |-> "implementation", preflight |-> p]

\* Implemented by ann, after bob had a go; cyd and bea are at hand.
Worked(a) ==
    <<H("repository", a), Decided_(bob, "DIRECT", a, 0), Preflown(ann, "review", a, a),
      Decided_(ann, "DELEGATE", a, 2), Preflown(ann, "implementation", a, a),
      Implemented(ann, a, 5), Preflown(cyd, "review", a, a + 1),
      Preflown(bea, "review", a, a + 1)>>

Room(n, m, p, l) ==
    [core |-> n, host |-> m, packets |-> p, launches |-> l, shifts |-> 1]
Start(c, h, r) ==
    [core |-> c, host |-> h, ledger |-> {}, target |-> t1, room |-> r, gates |-> {}]

\* The review of packet d (recorded at core head at) by cyd on t1.
PacketOf(a, d, at, run, reason, k, trig, cov) ==
    H("dispatch", at) @@ On(cyd, a)
    @@ [role |-> "review", preflight |-> 7, target |-> t1, implementation |-> 6, risk |-> 3,
        disputed |-> FALSE, final |-> FALSE, required |-> 3,
        packet |-> [run |-> run, reason |-> reason, until |-> 2, contract |-> k,
                    triggers |-> trig, family |-> TRUE, covers |-> cov]]
ReviewedBy(d, at, run) ==
    H("review", at) @@ [dispatch |-> d, implementation |-> 6, target |-> t1,
                        verdict |-> "APPROVE", receipt |-> run, isolation |-> "isolated"]
Receipt(run, d) ==
    [run |-> run, mode |-> "review", worker |-> "cyd", model |-> "m3", target |-> t1,
     started |-> 1, report |-> Report("pass", "isolated") @@ [packet |-> d]]
Waived ==
    [Blank EXCEPT !.kind = "waiver_operation",
        !.resolution = [op |-> "GRANT", scope |-> [kind |-> "artifact", target |-> y],
                        disp |-> None, unit |-> None, nonce |-> 14]]
Snapshot(i) == [Blank EXCEPT !.unit = u1, !.snapshot = TRUE] @@ [source |-> i]

\* In review under c1, and in validation under c2, its permissions as in c1.
Covers(k) == [contract |-> k, perms |-> MCPlanUnit[k].perms]
InReview ==
    Append(Authorized(c1),
           Moved(6, "IMPLEMENTATION_AUTHORIZATION", "IMPLEMENTATION_REVIEW", u1, c1))
Validated ==
    Renegotiated
    \o <<Moved(9, "IMPLEMENTATION_AUTHORIZATION", "IMPLEMENTATION_REVIEW", u1, c2),
         Snapshot(10),
         Moved(11, "IMPLEMENTATION_REVIEW", "VERIFICATION", u1, c2),
         Moved(12, "VERIFICATION", "INDEPENDENT_VALIDATION", u1, c2)>>

Asked(a, d, at, run, reason, k) ==
    PacketOf(a, d, at, run, reason, k,
             {"CONTROL_LOGIC", "HIGH_RISK"}
             \cup (IF k = c2 THEN {"CONTRACT_OR_PERMISSION"} ELSE {})
             \cup (IF at > 9 THEN {"MILESTONE"} ELSE {}), Covers(k))
PerChangeReviewed == Worked(8) \o <<Asked(8, 9, 9, j1, 1, c2), ReviewedBy(9, 9, j1)>>
FinalReviewed == PerChangeReviewed \o <<Asked(8, 11, 12, j2, 3, c2), ReviewedBy(11, 12, j2)>>

MCStarts ==
    {Start(Authorized(c1), <<>>, Room(1, 3, 0, 0)),
     Start(Authorized(None),
           <<Decided_(bob, "DIRECT", 5, 0), Preflown(ann, "review", 5, 5),
             Decided_(ann, "DIRECT", 5, 1), Preflown(cyd, "review", 5, 5),
             Preflown(bea, "review", 5, 5)>>,
           Room(3, 2, 0, 0)),
     Start(InReview, Worked(5), Room(1, 2, 1, 0)),
     Start(InReview, Append(Worked(5), Asked(5, 9, 6, j1, 1, c1)), Room(2, 2, 0, 1)),
     [Start(InReview, Append(Worked(5), [Asked(5, 9, 6, j1, 1, c1) EXCEPT
                                             !.target = t2, !.packet.triggers = {"HIGH_RISK"}]),
            Room(2, 1, 0, 1)) EXCEPT !.target = t2],
     [Start(SubSeq(Validated, 1, 11), PerChangeReviewed, Room(1, 1, 1, 0)) EXCEPT !.ledger = {Receipt(j1, 9)}],
     [Start(Validated, Append(PerChangeReviewed, Asked(8, 11, 12, j2, 2, c2)), Room(2, 1, 0, 1))
         EXCEPT !.ledger = {Receipt(j1, 9)}],
     [Start(Validated \o <<Snapshot(12), Waived>>, FinalReviewed, Room(5, 1, 0, 0)) EXCEPT
         !.ledger = {Receipt(j1, 9), Receipt(j2, 11)}]}
===============================================================================
