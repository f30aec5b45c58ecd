------------------------------- MODULE Launches -------------------------------
(***************************************************************************)
(* Reconciling what agent-dispatch launched with what the host chain says  *)
(* was to be launched (src/internal/host/reconcile.go, and the gate of     *)
(* src/cmd/hma/reconcile.go that relies on it).                            *)
(*                                                                         *)
(* The host records that matter here, each with the unit, the index of the *)
(* core record it was written after (core) and the time (at):              *)
(*   loop_admission        a controller run ctl under an envelope env, in  *)
(*                         ledger namespace ns and lease generation gen    *)
(*   reservation           dispatch id of its attempt idx, by admission    *)
(*   dispatch              a review launch: dispatch id in namespace ns    *)
(*   loop_evidence         the controller's journal: the attempts it made  *)
(*   policy_revocation     policy was seen replaced (observed: when)       *)
(*   launch_reconciliation what was found, in which inventory and policy   *)
(* A route stands for the worker, model and effort it names, for a review  *)
(* for packet and target too; an envelope for its digest, live root and    *)
(* clone baseline; a generation is the core index of its issuer.           *)
(*                                                                         *)
(* The ledger is the set of agent-dispatch runs: the directory dir in      *)
(* namespace ns, and once it has a receipt the id run, mode, route and the *)
(* whole second (at) the receipt says it started.                          *)
(***************************************************************************)
EXTENDS Lease

Kind(h, k) == {i \in DOMAIN h : h[i].kind = k}

Namespaces(h) ==
    {h[i].ns : i \in Kind(h, "loop_admission") \cup Kind(h, "dispatch") \cup Kind(h, "loop_evidence")}

\* The ledger as a reconciliation sees it: each run of a declared namespace.
Inventory(h, ledger) == {l \in ledger : l.ns \in Namespaces(h)}

-----------------------------------------------------------------------------
(* Revoked policies.                                                       *)

Observes(r, policy) ==
    \/ r.kind = "policy_revocation" /\ r.policy = policy
    \/ r.kind = "launch_reconciliation" /\ policy \in r.revoked

\* The recorded revocations of policy that apply to the lease issued at i.
PolicyRevocations(h, policy, i) ==
    {h[j].observed : j \in {k \in DOMAIN h : Observes(h[k], policy) /\ h[k].core >= i}}

\* The earliest of them, or end.
PolicyRevokedAt(h, policy, i, end) == Min({end} \cup PolicyRevocations(h, policy, i))

\* The latest lease generation of any unit.
latestGeneration(c) == SelectLastInSeq(c, LAMBDA r : IssuesLease(r, r.unit))

PolicyRevocationNeeded(c, h, policy) ==
    PolicyRevocations(h, policy, latestGeneration(c)) = {}

-----------------------------------------------------------------------------
(* Reconcile.                                                              *)

Authorities(h, id) == {i \in Kind(h, "reservation") \cup Kind(h, "dispatch") : h[i].id = id}

NamespaceOf(h, m) == IF h[m].kind = "reservation" THEN h[h[m].admission].ns ELSE h[m].ns

generation(c, h, m) ==
    IF h[m].kind = "reservation" THEN h[m].gen
    ELSE currentIssuer(SubSeq(c, 1, h[m].core), h[m].unit)

ValidFrom(h, m) == IF h[m].kind = "reservation" THEN h[m].from ELSE h[m].at

\* Authority m ends with its lease, or once the core chain takes it back.
RevokedEnd(c, h, m) ==
    LET g == generation(c, h, m)
        plan == c[g].approval.plan
        review == h[m].kind = "dispatch"
        wall == c[g].approval.at + Plans[plan].wall
    IN  RevokedAt(c, plan, h[m].unit, g,
                  IF review THEN Min({h[m].until, wall}) ELSE h[m].until, review)

\* When authority m ends under the policy presented to the reconciliation.
ValidUntil(c, h, m) ==
    LET g == generation(c, h, m)
    IN  PolicyRevokedAt(h, Plans[c[g].approval.plan].policy, g, RevokedEnd(c, h, m))

\* The presented policy is the plan's, or its replacement is dated.
PolicyProven(c, h, m, presented) ==
    LET g == generation(c, h, m)
        policy == Plans[c[g].approval.plan].policy
    IN  presented # None /\ (presented = policy \/ PolicyRevocations(h, policy, g) # {})

\* Record m is what authorizes launch l.
Authorizes(c, h, m, l, presented) ==
    /\ l.ns = NamespaceOf(h, m)
    /\ l.mode = "review" <=> h[m].kind = "dispatch"
    /\ l.route = h[m].route
    /\ generation(c, h, m) # 0
    /\ PolicyProven(c, h, m, presented)
    /\ ValidFrom(h, m) <= l.at /\ l.at < ValidUntil(c, h, m)

\* A run without a readable receipt is refused; runs older than the HMA run
\* are not its business.  (No two runs of a namespace share a directory.)
Refused(c, h, l, presented) ==
    \/ ~l.receipt
    \/ /\ l.at >= c[1].rec
       /\ ~(l.run = l.dir /\ \E m \in DOMAIN h :
               Authorities(h, l.run) = {m} /\ Authorizes(c, h, m, l, presented))

\* Journal j is of exactly one admission, of the same association.
Admitted(h, j) ==
    \E a \in DOMAIN h :
        /\ {x \in Kind(h, "loop_admission") : h[x].ctl = h[j].ctl} = {a}
        /\ h[a].env = h[j].env /\ h[a].ns = h[j].ns /\ h[a].unit = h[j].unit

Reserved(h, j, id) ==
    \E m \in Kind(h, "reservation") :
        h[m].id = id /\ h[m].ctl = h[j].ctl /\ h[m].unit = h[j].unit

\* The journals without an admission, and their attempts without reservation.
reconcileJournals(h) ==
    LET journals == Kind(h, "loop_evidence")
    IN  {h[j].ctl : j \in {x \in journals : ~Admitted(h, x)}}
        \cup UNION {{id \in h[j].attempts : ~Reserved(h, j, id)} : j \in journals}

\* The runs, attempts and journals reconciliation refuses.
Unauthorized(c, h, ledger, presented) ==
    {l.dir : l \in {x \in Inventory(h, ledger) : Refused(c, h, x, presented)}}
    \cup reconcileJournals(h)

UnauthorizedFinding(id) == <<"UNAUTHORIZED_DISPATCH", id>>
HasUnauthorizedDispatch(c) ==
    \E id \in DOMAIN Findings(c) :
        id[1] = "UNAUTHORIZED_DISPATCH" /\ Findings(c)[id].disp = "BLOCK"

-----------------------------------------------------------------------------
(* requireReconciledLaunches.                                              *)

\* Mutant: what was launched meanwhile does not matter.
ReconciledOnce(c, h, ledger, presented) ==
    LET i == Max({0} \cup Kind(h, "launch_reconciliation")) IN
    /\ ~HasUnauthorizedDispatch(c)
    /\ Namespaces(h) # {} =>
          /\ i # 0 /\ h[i].unauthorized = {} /\ h[i].core = Len(c)
          /\ presented = h[i].policy

ReconciliationRelevant(r) ==
    r.kind \in {"loop_admission", "reservation", "loop_evidence", "policy_revocation", "dispatch"}

\* The latest reconciliation was clean, nothing it depends on was recorded
\* since, and core head, ledger and policy are as it found them.
LaunchesReconciled(c, h, ledger, presented) ==
    LET i == Max({0} \cup Kind(h, "launch_reconciliation")) IN
    /\ ~HasUnauthorizedDispatch(c)
    /\ Namespaces(h) # {} =>
          /\ i # 0
          /\ \A j \in (i + 1)..Len(h) : ~ReconciliationRelevant(h[j])
          /\ h[i].unauthorized = {} /\ h[i].core = Len(c)
          /\ Inventory(h, ledger) = h[i].inventory
          /\ presented # None /\ presented = h[i].policy
===============================================================================
