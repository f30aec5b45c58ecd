----------------------------- MODULE MCHostLaunch -----------------------------
(***************************************************************************)
(* Small instances of HostLaunch: a unit u1 built on u2, which is built on *)
(* u3; two controllers with a ledger namespace each; a plan and the one    *)
(* that replaces it.  Each run is picked up where one question is open: at *)
(* a fresh lease, before a retry, after a rewind or a correction, with a   *)
(* waiver bound, with launches to reconcile.                               *)
(***************************************************************************)
EXTENDS HostLaunch, PlanRules, TLC

CONSTANTS u1, u2, u3, c1, x, b1

MCCriteriaOf == c1 :> {x}
MCUnits == {u1, u2, u3}
Deps == u1 :> {u2} @@ u2 :> {u3} @@ u3 :> {}
MCPlans ==
    [p1 |-> [policy |-> "q1", deps |-> Deps, route |-> "ra", perms |-> {"write"},
             wall |-> 5, attempts |-> 2, cost |-> 4],
     p2 |-> [policy |-> "q1", deps |-> Deps, route |-> "ra", perms |-> {"write"},
             wall |-> 6, attempts |-> 3, cost |-> 3]]

\* The contract, and the documents that these two plans are.
MCContract ==
    [id |-> c1, criteria |-> {x}, policy |-> "q1", routes |-> {"ra", "rb"}, envelope |-> {"write"},
     wall |-> 6, attempts |-> 3, cost |-> 4]
Document(p) ==
    [contract |-> c1, policy |-> p.policy,
     units |-> [u \in MCUnits |->
        [deps |-> p.deps[u], advances |-> {x}, routes |-> {p.route}, perms |-> p.perms,
         wall |-> p.wall, attempts |-> p.attempts, cost |-> p.cost]]]

\* They are plans hma accepts under that contract.
ASSUME PlansAccepted ==
    \A p \in DOMAIN MCPlans :
        /\ ValidatePlan(Document(MCPlans[p]))
        /\ ValidatePlanAgainstContract(Document(MCPlans[p]), MCContract)

\* The search finds a cycle exactly where units cannot be ranked after those
\* they depend on.
ASSUME CyclesFound ==
    \A deps \in [MCUnits -> SUBSET MCUnits] :
        FindsCycle(deps) <=>
            ~\E rank \in [MCUnits -> 1..3] :
                \A u \in MCUnits : \A d \in deps[u] : rank[d] < rank[u]

MCPreflights ==
    {[role |-> "implementation", route |-> "ra", perms |-> {"write"}, status |-> s] :
        s \in {"AVAILABLE", "UNAVAILABLE"}}
    \cup {[role |-> "implementation", route |-> "rb", perms |-> {"write"}, status |-> "AVAILABLE"]}

MCEnvelopes ==
    [e1 |-> [ctl |-> "k1", ns |-> "n1", route |-> "ra", attempts |-> 1, time |-> 2,
             cap |-> 2, cost |-> 2],
     e2 |-> [ctl |-> "k2", ns |-> "n2", route |-> "ra", attempts |-> 1, time |-> 2,
             cap |-> 1, cost |-> 1]]

Request(env, idx, id, sig) == [env |-> env, idx |-> idx, id |-> id, sig |-> sig]
MCRequests ==
    {Request("e1", 1, "d1", None), Request("e1", 2, "d2", "f"), Request("e2", 1, "d1", None),
     Request("e2", 2, "d3", "f")}
MCStrays ==
    {[ns |-> "n1", dir |-> "d9", run |-> "d9", mode |-> "implement", route |-> "ra"],
     [ns |-> "n2", dir |-> "d8", run |-> "d8", mode |-> "review", route |-> "rr"]}
MCJournals == {[env |-> "e1", attempts |-> {"d1"}], [env |-> "e2", attempts |-> {"d9"}]}

Artifact == [kind |-> "artifact", target |-> x]
-----------------------------------------------------------------------------
(* Chains.                                                                 *)

Ask(unit, from, to, plan) ==
    [unit |-> unit, from |-> from, to |-> to, outcome |-> None, contract |-> c1, plan |-> plan]

MCMoves ==
    {Ask(u1, "IMPLEMENTATION_AUTHORIZATION", "IMPLEMENTATION_REVIEW", "p1"),
     Ask(u1, "IMPLEMENTATION_REVIEW", "VERIFICATION", "p1"),
     Ask(u3, "IMPLEMENTATION_AUTHORIZATION", "ROUTE_SELECTION", "p1"),
     Ask(u1, "IMPLEMENTATION_AUTHORIZATION", "ROUTE_SELECTION", "p1"),
     Ask(u1, "ROUTE_SELECTION", "IMPLEMENTATION_AUTHORIZATION", "p2"),
     [Ask(None, "IMPLEMENTATION_AUTHORIZATION", None, "p1") EXCEPT !.outcome = "ABORTED"]}

\* The n-th record, an approved move at time t.
Approved(n, ask, t) ==
    AppliedRecord(<<>>, ask @@ [class |-> FALSE, nonce |-> n, base |-> b1, head |-> None,
                                wt |-> None, needs |-> {}, at |-> t, waivers |-> {}])
    @@ [rec |-> t]
Criterion == [Blank EXCEPT !.kind = "criterion", !.criteria = x :> "PENDING"] @@ [rec |-> 0]

\* To ROUTE_SELECTION under contract c1.
Planned ==
    <<Approved(1, [Ask(None, "GROUNDING", "ACCEPTANCE_CRITERIA", None) EXCEPT !.contract = None], 0),
      Criterion,
      Approved(3, Ask(None, "ACCEPTANCE_CRITERIA", "PLANNING", None), 0),
      Approved(4, Ask(None, "PLANNING", "ROUTE_SELECTION", None), 0)>>

Road == <<"ROUTE_SELECTION", "IMPLEMENTATION_AUTHORIZATION", "IMPLEMENTATION_REVIEW",
          "VERIFICATION", "INDEPENDENT_VALIDATION">>

\* A unit's way down the road, from record n on.
Goes(unit, n, plan) ==
    [i \in 1..4 |-> Approved(n + i - 1, Ask(unit, Road[i], Road[i + 1], plan), 0)]

Leased == Append(Planned, Approved(5, Ask(u1, Road[1], Road[2], "p1"), 1))

\* Routed anew under plan p2.
Released ==
    Leased \o <<Approved(6, Ask(u1, Road[2], Road[1], "p1"), 2),
                Approved(7, Ask(u1, Road[1], Road[2], "p2"), 2)>>

\* Corrected after validation, once by itself and once after u3 went back.
Corrected ==
    Planned \o Goes(u1, 5, "p1")
    \o <<Approved(9, Ask(u1, "INDEPENDENT_VALIDATION", Road[2], "p1"), 1)>>
CorrectedOnSand ==
    Planned \o Goes(u1, 5, "p1")
    \o <<Approved(9, Ask(u3, "INDEPENDENT_VALIDATION", Road[1], "p1"), 0)>>
    \o Goes(u3, 10, "p1")
    \o <<Approved(14, Ask(u1, "INDEPENDENT_VALIDATION", Road[2], "p1"), 1)>>

\* The route approval binds a waiver.
Granted ==
    [Blank EXCEPT !.kind = "waiver_operation",
        !.resolution = [op |-> "GRANT", scope |-> Artifact, disp |-> None, unit |-> None,
                        nonce |-> 5]] @@ [rec |-> 0]
Bound ==
    Planned \o <<Granted, [Approved(6, Ask(u1, Road[1], Road[2], "p1"), 1)
                              EXCEPT !.approval.waivers = {5}]>>
-----------------------------------------------------------------------------
(* Host chains.                                                            *)

H(kind, at, t) == [kind |-> kind, unit |-> u1, core |-> at, at |-> t]
Looked(at) ==
    H("preflight", at, 1)
    @@ [role |-> "implementation", route |-> "ra", perms |-> {"write"}, status |-> "AVAILABLE",
        approval |-> at, expires |-> 5]
Admitted_(env, gen) ==
    H("loop_admission", gen, 1)
    @@ [ctl |-> MCEnvelopes[env].ctl, env |-> env, ns |-> MCEnvelopes[env].ns, gen |-> gen]
Charged(req, a, gen, t, until) ==
    H("reservation", gen, t)
    @@ [ctl |-> MCEnvelopes[req.env].ctl, idx |-> req.idx, id |-> req.id, sig |-> req.sig,
        req |-> req, admission |-> a, route |-> "ra", cost |-> MCEnvelopes[req.env].cost,
        from |-> t, until |-> until, gen |-> gen]
Revoked == H("policy_revocation", 5, 1) @@ [policy |-> "q1", observed |-> 1]
ReviewAsked(at) ==
    H("dispatch", at, 2) @@ [id |-> "d8", ns |-> "n2", route |-> "rr", until |-> 4]
Bare(at) == <<H("repository", at, 0), Looked(at)>>

\* An attempt charged in the lease, its route not looked at since.
Ran == <<H("repository", 5, 0), [Looked(5) EXCEPT !.expires = 3], Admitted_("e1", 5),
         Charged(Request("e1", 1, "d1", None), 3, 5, 2, 6)>>

\* Time and launches still to come, and nothing else; then more.
Room(l, t) ==
    [core |-> 0, launches |-> l, time |-> t, preflight |-> 0, loop_admission |-> 0,
     reservation |-> 0, loop_evidence |-> 0, policy_revocation |-> 0,
     launch_reconciliation |-> 0]
Start(c, h, t, r) ==
    [core |-> c, host |-> h, ledger |-> {}, clock |-> t,
     stored |-> {c[h[i].gen].approval.plan : i \in Kind(h, "loop_admission")}, room |-> r]

MCStarts ==
    {\* A lease to be used for the first time, looked at again.
     Start(Leased, Bare(5), 1,
           [Room(0, 2) EXCEPT !.loop_admission = 1, !.reservation = 1, !.preflight = 1]),
     \* Admitted: charges, launches and moves meanwhile.
     Start(Leased, Bare(5) \o <<Admitted_("e1", 5), Admitted_("e2", 5)>>, 2,
           [Room(1, 1) EXCEPT !.reservation = 2]),
     Start(Leased, Bare(5) \o <<Admitted_("e1", 5)>>, 3,
           [Room(0, 3) EXCEPT !.reservation = 1, !.core = 1]),
     \* One attempt charged under the lease before this one; policies change.
     Start(Released, <<H("repository", 5, 0), Looked(5), Admitted_("e1", 5),
                       Charged(Request("e1", 2, "d2", None), 3, 5, 2, 6), Looked(7)>>, 2,
           [Room(0, 0) EXCEPT !.loop_admission = 1, !.reservation = 2]),
     Start(Released, Bare(5) \o <<Admitted_("e1", 5), Revoked, Looked(7), Admitted_("e2", 7)>>, 2,
           [Room(0, 1) EXCEPT !.policy_revocation = 1, !.reservation = 1,
                              !.launch_reconciliation = 1]),
     \* Corrections, and a bound waiver.
     Start(Corrected, Bare(5) \o <<Admitted_("e1", 9)>>, 2, [Room(0, 1) EXCEPT !.reservation = 1]),
     Start(CorrectedOnSand, Bare(5) \o <<Admitted_("e1", 14)>>, 2,
           [Room(0, 0) EXCEPT !.reservation = 1]),
     Start(Bound, Bare(6) \o <<Admitted_("e1", 6)>>, 2,
           [Room(0, 0) EXCEPT !.reservation = 1, !.core = 2]),
     \* Launches to reconcile before the unit moves on.
     Start(Leased, Ran, 3,
           [Room(1, 0) EXCEPT !.launch_reconciliation = 2, !.core = 2]),
     Start(Leased, Append(Ran, ReviewAsked(5)), 3,
           [Room(2, 0) EXCEPT !.launch_reconciliation = 1, !.core = 1]),
     Start(Append(Leased, Approved(6, Ask(u1, Road[2], Road[3], "p1"), 2)),
           Ran, 3,
           [Room(1, 0) EXCEPT !.launch_reconciliation = 1, !.loop_evidence = 1, !.core = 2])}
===============================================================================
