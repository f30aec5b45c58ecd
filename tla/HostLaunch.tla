------------------------------ MODULE HostLaunch ------------------------------
(***************************************************************************)
(* Who may launch workers on a unit: hma host attempt (the hook a          *)
(* verify-loop controller calls before each attempt), the controllers and  *)
(* whoever else runs agent-dispatch, the journals that are imported, hma   *)
(* host reconcile, and the transitions that need launches reconciled.      *)
(*                                                                         *)
(* Every command decides and writes under the host and core run locks and  *)
(* is one step, but for the hook: it waits for the next whole second with  *)
(* both locks held, commits the charge, and then looks at clock and ledger *)
(* once more before it answers.  call is the hook's charge meanwhile.      *)
(* Routes and reviews are HostReview's; a transition's other gates can     *)
(* only refuse more than is refused here.                                  *)
(***************************************************************************)
EXTENDS Launches

CONSTANTS
    Unit,       \* the unit under work
    Contract,   \* the contract the run is bound to
    Policies,   \* route policies a command may be given
    Preflights, \* routes that may be looked at: route, perms, status
    Envelopes,  \* controllers' envelopes: ctl, ns, route, attempts, time, cap, cost
    Requests,   \* attempts: env, idx, id and the last failure signature sig
    Strays,     \* runs somebody else may start: ns, dir, run, mode, route
    Journals,   \* journals: env, and the ids of the attempts
    Moves,      \* what humans may approve
    Waivable,   \* a scope humans waive
    Base,       \* the base revision
    TTL,        \* how long a preflight is good for
    Starts      \* states a run is picked up at, with the room left

VARIABLES
    core, host, ledger,  \* the two chains and agent-dispatch's ledger
    stored,    \* the accepted plans kept with the run
    clock,     \* the time, in half seconds
    call,      \* None, or the hook's charge, request and phase
    room,      \* bound: core records, host records of each kind, launches and
               \* time still to come
    answers,   \* history: what the hook answered
    observed,  \* history: which policies were seen replaced, at which core head
    gates      \* history: the gated transitions

vars == <<core, host, ledger, stored, clock, call, room, answers, observed, gates>>

Init ==
    \E s \in Starts :
        /\ core = s.core /\ host = s.host /\ ledger = s.ledger
        /\ stored = s.stored /\ clock = s.clock /\ room = s.room
        /\ call = None
        /\ answers = {} /\ observed = {} /\ gates = {}

\* A command that is given both locks appends rs and hs.
Write(rs, hs) ==
    /\ call = None
    /\ core # <<>>
    /\ Len(rs) <= room.core /\ \A i \in DOMAIN hs : room[hs[i].kind] > 0
    /\ core' = core \o rs
    /\ host' = host \o hs
    /\ room' = [k \in DOMAIN room |->
                   IF k = "core" THEN room.core - Len(rs)
                   ELSE IF hs # <<>> /\ hs[1].kind = k THEN room[k] - 1 ELSE room[k]]

Stamp(r) == r ++ [rec |-> clock]

\* Mutant: a record names the core record it will be followed by.
EnvelopeAhead(kind, at) == [kind |-> kind, unit |-> Unit, core |-> Len(core) + 1, at |-> at]

Envelope(kind, at) == [kind |-> kind, unit |-> Unit, core |-> Len(core), at |-> at]

-----------------------------------------------------------------------------
(* hma host attempt.                                                       *)

ctl(req) == Envelopes[req.env].ctl
ns(req) == Envelopes[req.env].ns

dispatchUsed(req) == \E l \in ledger : l.ns = ns(req) /\ l.dir = req.id

\* Mutant: a charge is known by all of its key only.
FreshKey(req) ==
    ~\E i \in Kind(host, "reservation") :
        host[i].ctl = ctl(req) /\ host[i].idx = req.idx /\ host[i].id = req.id

\* No attempt, and no dispatch id, is charged or run already.
Fresh(req) ==
    /\ \A i \in Kind(host, "reservation") :
          /\ host[i].id # req.id
          /\ ~(host[i].ctl = ctl(req) /\ host[i].idx = req.idx)
    /\ \A i \in Kind(host, "dispatch") : host[i].id # req.id
    /\ ~dispatchUsed(req)

\* The unit's latest implementation preflight.
Preflown == Max({0} \cup {i \in Kind(host, "preflight") : host[i].unit = Unit})

\* attemptRouteGrant: it found the route the request and envelope name.
RouteGranted(req) ==
    /\ Preflown # 0
    /\ host[Preflown].status = "AVAILABLE" /\ clock < host[Preflown].expires
    /\ host[Preflown].route = Envelopes[req.env].route

CostOf(h, S) == MapThenSumSet(LAMBDA i : h[i].cost, S)
CountersOf(h, S) == [attempts |-> Cardinality(S), cost |-> CostOf(h, S)]

\* Mutant: a new generation starts with a full budget.
GenerationCounters(h, gen) ==
    CountersOf(h, {i \in Kind(h, "reservation") : h[i].unit = Unit /\ h[i].gen = gen})

\* The unit's consumption, across generations and controllers.
unitCounters(h, gen) == CountersOf(h, {i \in Kind(h, "reservation") : h[i].unit = Unit})

Uncharged == [attempts |-> 0, cost |-> 0]
Issuer == currentIssuer(core, Unit)
LeaseUnder(plan, counters) == LeaseHolds(core, Unit, plan, host[Preflown], counters, clock)
LeaseEnd(plan) == core[Issuer].approval.at + Plans[plan].wall

\* recordPolicyChange: the record, if the policy is not the plan's and that is
\* not on record for the latest generation.
PolicyChange(plan, policy) ==
    LET q == Plans[plan].policy IN
    IF q # policy /\ PolicyRevocationNeeded(core, host, q)
    THEN <<Envelope("policy_revocation", clock) ++ [policy |-> q, observed |-> clock]>>
    ELSE <<>>

Observed(qs) == observed \cup {[policy |-> q, core |-> Len(core)] : q \in qs}
Seen(plan, policy) == {Plans[plan].policy} \ {policy}

\* What a call that may launch has passed, the policy apart.
Admissible(req, plan) ==
    /\ call = None
    /\ RunRepository(host)
    /\ Fresh(req)
    /\ RouteGranted(req)
    /\ Issuer # 0
    /\ LeaseUnder(plan, unitCounters(host, Issuer))

\* The policy it is given is not the plan's: refused, and put on record.
PolicyRefused ==
    /\ \E req \in Requests, plan \in DOMAIN Plans, policy \in Policies :
          /\ Admissible(req, plan)
          /\ policy # Plans[plan].policy
          /\ Write(<<>>, PolicyChange(plan, policy))
          /\ observed' = Observed(Seen(plan, policy))
    /\ UNCHANGED <<ledger, stored, clock, call, answers, gates>>

PolicyStands(plan, policy) ==
    /\ policy = Plans[plan].policy
    /\ PolicyRevocations(host, policy, Issuer) = {}

\* A call that keeps its plan and is then refused, or dies.
Retain ==
    /\ \E req \in Requests, plan \in DOMAIN Plans, policy \in Policies :
          /\ Admissible(req, plan)
          /\ PolicyStands(plan, policy)
          /\ stored' = stored \cup {plan}
    /\ UNCHANGED <<core, host, ledger, clock, call, room, answers, observed, gates>>

Admission(req) ==
    Max({0} \cup {i \in Kind(host, "loop_admission") : host[i].ctl = ctl(req)})

\* The controller run's first call admits it; it charges nothing.
Admit ==
    /\ \E req \in Requests, plan \in DOMAIN Plans, policy \in Policies :
          /\ Admissible(req, plan)
          /\ PolicyStands(plan, policy)
          /\ stored' = stored \cup {plan}
          /\ Admission(req) = 0
          /\ LET e == Envelopes[req.env]
                 spent == unitCounters(host, Issuer)
             IN  /\ e.attempts >= 1 /\ e.attempts <= Plans[plan].attempts - spent.attempts
                 /\ e.time > 0 /\ e.time <= LeaseEnd(plan) - clock
                 /\ e.cap <= Plans[plan].cost - spent.cost
          /\ Write(<<>>, <<Envelope("loop_admission", clock)
                           ++ [ctl |-> ctl(req), env |-> req.env, ns |-> ns(req),
                               gen |-> Issuer]>>)
    /\ UNCHANGED <<ledger, clock, call, answers, observed, gates>>

\* Mutant: authority starts with the charge.
FromNow(t) == t

\* Receipts hold whole seconds: authority starts with the next one.
WholeSecond(t) == t + (t % 2)

\* A call decides to charge the attempt, and waits for the whole second.
Charge ==
    /\ \E req \in Requests, plan \in DOMAIN Plans, policy \in Policies :
          /\ Admissible(req, plan)
          /\ PolicyStands(plan, policy)
          /\ stored' = stored \cup {plan}
          /\ Admission(req) # 0
          /\ host[Admission(req)].env = req.env
          /\ host[Admission(req)].gen = Issuer
          /\ req.sig # None =>
                \A i \in Kind(host, "reservation") : host[i].sig # req.sig
          /\ unitCounters(host, Issuer).cost + Envelopes[req.env].cost <= Plans[plan].cost
          /\ WholeSecond(clock) < LeaseEnd(plan)
          /\ WholeSecond(clock) < host[Preflown].expires
          /\ room.reservation > 0
          /\ call' =
                [phase |-> "waiting", req |-> req, plan |-> plan, policy |-> policy,
                 until |-> Min({LeaseEnd(plan), host[Preflown].expires}),
                 charge |->
                    Envelope("reservation", WholeSecond(clock))
                    ++ [ctl |-> ctl(req), idx |-> req.idx, id |-> req.id, sig |-> req.sig,
                        req |-> req, admission |-> Admission(req),
                        route |-> host[Preflown].route, cost |-> Envelopes[req.env].cost,
                        from |-> WholeSecond(clock), until |-> LeaseEnd(plan),
                        gen |-> Issuer]]
    /\ UNCHANGED <<core, host, ledger, clock, room, answers, observed, gates>>

\* From then on the attempt is charged, whatever becomes of it.
Commit ==
    /\ call # None /\ call.phase = "waiting"
    /\ clock >= call.charge.from
    /\ host' = Append(host, call.charge)
    /\ room' = [room EXCEPT !.reservation = @ - 1]
    /\ call' = [call EXCEPT !.phase = "charged"]
    /\ UNCHANGED <<core, ledger, stored, clock, answers, observed, gates>>

Answered(req, plan, policy, i, eligible, h) ==
    [req |-> req, plan |-> plan, policy |-> policy, record |-> i, at |-> clock,
     eligible |-> eligible, core |-> Len(core), host |-> h, seen |-> observed]

StillEligible(k) == clock < k.until /\ ~dispatchUsed(k.req)

Answer ==
    /\ call # None /\ call.phase = "charged"
    /\ answers' = answers \cup
          {Answered(call.req, call.plan, call.policy, Len(host), StillEligible(call), Len(host))}
    /\ call' = None
    /\ UNCHANGED <<core, host, ledger, stored, clock, room, observed, gates>>

\* The hook dies.
Die ==
    /\ call # None
    /\ call' = None
    /\ UNCHANGED <<core, host, ledger, stored, clock, room, answers, observed, gates>>

ReplayEligible(i, req, plan, policy) ==
    /\ RouteGranted(req)
    /\ Issuer # 0
    /\ LeaseUnder(plan, Uncharged)
    /\ policy = Plans[plan].policy
    /\ clock < host[i].until
    /\ Issuer = host[i].gen
    /\ PolicyRevocations(host, policy, host[i].gen) = {}
    /\ ~dispatchUsed(req)

\* The controller asks again about an attempt already charged.
Replay ==
    /\ call = None
    /\ RunRepository(host)
    /\ \E i \in Kind(host, "reservation"), plan \in DOMAIN Plans, policy \in Policies :
          LET req == host[i].req IN
          /\ Write(<<>>, PolicyChange(plan, policy))
          /\ answers' = answers \cup
                (IF ReplayEligible(i, req, plan, policy)
                 THEN {Answered(req, plan, policy, i, TRUE, Len(host))} ELSE {})
          /\ observed' = Observed(Seen(plan, policy))
    /\ UNCHANGED <<ledger, stored, clock, call, gates>>

-----------------------------------------------------------------------------
(* hma host preflight, of the implementer's route.                         *)

Preflight ==
    /\ approvedCoreRoute(core, Unit) # 0 /\ ~Terminal(core)
    /\ \E p \in Preflights :
          Write(<<>>, <<Envelope("preflight", clock) ++ p
                        ++ [approval |-> approvedCoreRoute(core, Unit),
                            expires |-> clock + TTL]>>)
    /\ UNCHANGED <<ledger, stored, clock, call, answers, observed, gates>>

-----------------------------------------------------------------------------
(* hma host reconcile.                                                     *)

\* The current findings and an unowned BLOCK for each new entry, if any.
UnauthorizedRecord(bad) ==
    LET prior == Findings(core)
        new == {UnauthorizedFinding(id) : id \in bad} \ DOMAIN prior
        all == [id \in DOMAIN prior \cup new |->
                   IF id \in new THEN [disp |-> "BLOCK", unit |-> None] ELSE prior[id]]
    IN  IF new = {} THEN <<>>
        ELSE <<Stamp([Blank EXCEPT !.stage = CurrentStage(core), !.findings = all,
                                   !.sealed = all])>>

Replaced(policy) ==
    IF policy = None THEN {} ELSE {Plans[p].policy : p \in stored} \ {policy}

ReconciliationRecord(bad, policy, at) ==
    [Envelope("launch_reconciliation", clock) EXCEPT !.core = at]
    ++ [policy |-> policy, unauthorized |-> bad, inventory |-> Inventory(host, ledger),
        revoked |-> {q \in Replaced(policy) : PolicyRevocationNeeded(core, host, q)},
        observed |-> clock]

\* The finding lands first: an error or a crash may leave it without the host
\* record.
Reconcile ==
    /\ \E policy \in Policies \cup {None} :
          LET bad == Unauthorized(core, host, ledger, policy)
              found == UnauthorizedRecord(bad)
          IN  \/ /\ Write(found, <<ReconciliationRecord(bad, policy, Len(core) + Len(found))>>)
                 /\ observed' = Observed(Replaced(policy))
              \/ found # <<>> /\ Write(found, <<>>) /\ UNCHANGED observed
    /\ UNCHANGED <<ledger, stored, clock, call, answers, gates>>

-----------------------------------------------------------------------------
(* hma host loop-evidence: HMA runs the loop's check, then binds the       *)
(* journal to what it captured; the second record may be missing.          *)

LoopEvidence ==
    /\ ~Terminal(core) /\ approvedCoreRoute(core, Unit) # 0
    /\ RunRepository(host)
    /\ \E j \in Journals :
          LET captured == Stamp([Blank EXCEPT !.kind = "evidence", !.unit = Unit,
                                              !.stage = CurrentStage(core)])
              journal == [Envelope("loop_evidence", clock) EXCEPT !.core = @ + 1]
                         ++ [ctl |-> Envelopes[j.env].ctl, env |-> j.env,
                             ns |-> Envelopes[j.env].ns, attempts |-> j.attempts]
          IN  /\ \A i \in Kind(host, "dispatch") : host[i].id \notin j.attempts
              /\ \/ Write(<<captured>>, <<journal>>)
                 \/ Write(<<captured>>, <<>>)
    /\ UNCHANGED <<ledger, stored, clock, call, answers, observed, gates>>

-----------------------------------------------------------------------------
(* hma transition and resolve.                                             *)

\* What a human approved at a time, binding some of the live waivers.
Approve(k, at, waivers) ==
    k ++ [class |-> FALSE, nonce |-> Len(core) + 1, base |-> Base, head |-> None,
          wt |-> None, needs |-> {}, at |-> at, waivers |-> waivers]

Gated(a) == ImplementationEdge(a) \/ ReviewEdge(a)

Transition ==
    /\ \E k \in Moves, at \in {clock - 1, clock}, ws \in {{}, LiveGrants(core)},
          policy \in Policies :
          LET a == Approve(k, at, ws) IN
          /\ Write(<<Stamp(AppliedRecord(core, a))>>, <<>>)
          /\ HostAdmits(core, a)
          /\ Gated(a) => LaunchesReconciled(core, host, ledger, policy)
          /\ AdmitsTransition(core, a, Len(core) + 1, None)
          /\ \E doc \in {Contract, None} : AdmitsContract(core, a, doc)
          /\ gates' = gates \cup
                (IF Gated(a)
                 THEN {[at |-> Len(core) + 1, host |-> Len(host), ledger |-> ledger,
                        policy |-> policy]}
                 ELSE {})
    /\ UNCHANGED <<ledger, stored, clock, call, answers, observed>>

Resolve ==
    /\ \E op \in {"GRANT", "WITHDRAW"} :
          LET r == [op |-> op, scope |-> Waivable, disp |-> None, unit |-> None,
                    nonce |-> Len(core) + 1]
          IN  /\ AdmitsResolution(core, r)
              /\ Write(<<Stamp([Blank EXCEPT !.kind = "waiver_operation", !.resolution = r])>>, <<>>)
    /\ UNCHANGED <<ledger, stored, clock, call, answers, observed, gates>>

-----------------------------------------------------------------------------
(* agent-dispatch: a run's directory appears, and later its receipt.       *)

Second(t) == t - (t % 2)

Launched(req) ==
    [ns |-> ns(req), dir |-> req.id, run |-> req.id, mode |-> "implement",
     route |-> Envelopes[req.env].route]

\* A controller launches an attempt, told to or not; or somebody else does.
Launch ==
    /\ room.launches > 0
    /\ room' = [room EXCEPT !.launches = @ - 1]
    /\ \E l \in {Launched(req) : req \in Requests} \cup Strays :
          /\ \A k \in ledger : <<k.ns, k.dir>> # <<l.ns, l.dir>>
          /\ ledger' = ledger \cup {l ++ [at |-> Second(clock), receipt |-> FALSE]}
    /\ UNCHANGED <<core, host, stored, clock, call, answers, observed, gates>>

Receipt ==
    /\ \E l \in ledger :
          /\ ~l.receipt
          /\ ledger' = (ledger \ {l}) \cup {[l EXCEPT !.receipt = TRUE]}
    /\ UNCHANGED <<core, host, stored, clock, call, room, answers, observed, gates>>

Tick ==
    /\ room.time > 0
    /\ room' = [room EXCEPT !.time = @ - 1]
    /\ clock' = clock + 1
    /\ UNCHANGED <<core, host, ledger, stored, call, answers, observed, gates>>

-----------------------------------------------------------------------------
Next ==
    \/ PolicyRefused \/ Retain \/ Admit \/ Charge \/ Commit \/ Answer \/ Die \/ Replay
    \/ Preflight \/ Reconcile \/ LoopEvidence \/ Transition \/ Resolve
    \/ Launch \/ Receipt \/ Tick

Spec == Init /\ [][Next]_vars
-----------------------------------------------------------------------------
(* Properties.                                                             *)

Reservations == Kind(host, "reservation")
Grants == {a \in answers : a.eligible}

PlanOf(i) == core[host[i].gen].approval.plan

\* Host records name what is there already: core and host records, an
\* admission of the same controller and generation, a lease of the unit.
TypeOK ==
    /\ clock \in Nat
    /\ stored \subseteq DOMAIN Plans
    /\ \A l \in ledger : l.at <= clock /\ l.receipt \in BOOLEAN
    /\ \A i \in DOMAIN host : host[i].core \in 1..Len(core)
    /\ \A i \in Reservations :
          LET r == host[i] IN
          /\ r.admission < i /\ host[r.admission].kind = "loop_admission"
          /\ host[r.admission].ctl = r.ctl /\ host[r.admission].gen = r.gen
          /\ r.gen <= r.core /\ IssuesLease(core[r.gen], r.unit)

AttemptsKeptIn(c, h) ==
    \A i \in Kind(h, "reservation") :
        Cardinality({j \in Kind(h, "reservation") : j <= i})
            <= Plans[c[h[i].gen].approval.plan].attempts

\* A unit's attempts stay within what the plan of the lease allows each time
\* one is charged, over all the generations and controllers there were.
AttemptsKept == AttemptsKeptIn(core, host)

CostsKeptIn(c, h) ==
    \A i \in Kind(h, "reservation") :
        CostOf(h, {j \in Kind(h, "reservation") : j <= i})
            <= Plans[c[h[i].gen].approval.plan].cost

\* Its attempts and its cost do: retries, replays and crashes included.
BudgetKept == AttemptsKept /\ CostsKeptIn(core, host)

ChargedOnceIn(h) ==
    \A i, j \in Kind(h, "reservation") : i # j =>
        /\ h[i].id # h[j].id
        /\ <<h[i].ctl, h[i].idx>> # <<h[j].ctl, h[j].idx>>
        /\ h[i].sig = None \/ h[i].sig # h[j].sig

\* No attempt, dispatch id or failure is charged twice, whoever asks and
\* however often: a controller that is not answered asks again.
ChargedOnce == ChargedOnceIn(host)

\* A launch at the moment HMA said to launch is one reconciliation authorizes:
\* what DeriveLease let through, the records' windows and RevokedAt contain.
GrantHonoured ==
    \A g \in Grants :
        LET c == SubSeq(core, 1, g.core)
            l == Launched(g.req) ++ [at |-> Second(g.at), receipt |-> TRUE]
        IN  ~Refused(c, SubSeq(host, 1, g.host), l, g.policy)

\* When HMA says to launch, nothing the unit's route approval rests on was
\* decided anew since: no waiver it bound was operated on, no unit the unit
\* was built on, however indirectly, went back, nor did the run.
GrantStands ==
    \A g \in Grants :
        LET c == SubSeq(core, 1, g.core)
            gen == host[g.record].gen
            route == routeApprovalFor(c, gen, Unit)
        IN  /\ route # 0 /\ c[route].approval.plan = PlanOf(g.record)
            /\ c[route].approval.waivers \cup c[gen].approval.waivers \subseteq LiveGrants(c)
            /\ \A j \in (route + 1)..Len(c) : ApprovedMove(c[j]) =>
                  /\ ~Reopens(c[j])
                  /\ c[j].unit \in dependencyClosure[PlanOf(g.record)][Unit] => ~Reworks(c[j])

\* Nor was the plan's policy: once a command saw it replaced under a lease, HMA
\* never says to launch under that lease again, though the policy be restored.
PolicyChangeFinal ==
    \A g \in Grants : \A o \in g.seen :
        LET gen == host[g.record].gen
        IN  o.policy = Plans[PlanOf(g.record)].policy => o.core < gen

\* HMA says to launch only on what a human or a policy still stands behind, and
\* what reconciliation will find to have been authorized.
GrantJustified == GrantHonoured /\ GrantStands /\ PolicyChangeFinal

\* A unit leaves authorization or review only if what its controllers and
\* anyone else launched up to then, on the records and policy of that moment,
\* was authorized, and nothing was ever found that was not.
GateReconciled ==
    \A g \in gates :
        LET c == SubSeq(core, 1, g.at - 1)
            h == SubSeq(host, 1, g.host)
        IN  /\ Unauthorized(c, h, g.ledger, g.policy) = {}
            /\ \A j \in DOMAIN c : c[j].findings = NoMap
-----------------------------------------------------------------------------
(* What a run is picked up with: records as the commands write them.       *)

\* An approved move is no resolution; a finding is not overridden, and is an
\* unauthorized launch's.
CoreRecordInOrder(r) ==
    /\ r.rec \in Nat
    /\ r.approval # None => r.approval.at \in Nat
    /\ ApprovedMove(r) => r.resolution = None
    /\ r.resolution # None => r.resolution.op # "OVERRIDE"
    /\ SetsFindings(r) =>
          \E id \in DOMAIN r.findings :
              id[1] = "UNAUTHORIZED_DISPATCH" /\ r.findings[id].disp = "BLOCK"

\* The reservation at i charges its request under a lease of the unit, admitted
\* before, for the time from a whole second on until the lease ends.
ReservationInOrder(c, h, i, t) ==
    LET r == h[i]
        plan == c[r.gen].approval.plan
        a == h[r.admission]
    IN  /\ r.unit = Unit
        /\ r.gen \in DOMAIN c /\ r.gen <= r.core
        /\ IssuesLease(c[r.gen], Unit) /\ plan \in DOMAIN Plans
        /\ r.admission \in 1..(i - 1) /\ a.kind = "loop_admission"
        /\ a.ctl = r.ctl /\ a.gen = r.gen /\ a.env = r.req.env
        /\ r.id = r.req.id /\ r.route = Envelopes[r.req.env].route
        /\ r.from \in Nat /\ r.from % 2 = 0 /\ r.from <= t
        /\ r.until = c[r.gen].approval.at + Plans[plan].wall

\* A review's packet is good for some time, under a lease of a known plan.
ReviewInOrder(c, h, i) ==
    LET g == generation(c, h, i) IN
    /\ h[i].until \in Nat
    /\ g # 0 => c[g].approval.plan \in DOMAIN Plans

\* A clean reconciliation found nothing unauthorized in its inventory, on the
\* chains up to it.
ReconciliationInOrder(c, h, i) ==
    h[i].unauthorized = {} =>
        LET g == SubSeq(h, 1, i) IN
        /\ Unauthorized(SubSeq(c, 1, h[i].core), g, h[i].inventory, h[i].policy) = {}
        /\ Inventory(g, h[i].inventory) = h[i].inventory

\* The host record at i of a run at time t.
HostRecordInOrder(c, h, i, t) ==
    /\ h[i].core \in 1..Len(c)
    /\ h[i].kind = "preflight" => h[i].expires \in Nat
    /\ h[i].kind \in {"policy_revocation", "launch_reconciliation"} =>
          h[i].observed \in Nat /\ h[i].observed <= t
    /\ h[i].kind = "loop_admission" => h[i].ns = Envelopes[h[i].env].ns
    /\ h[i].kind = "reservation" => ReservationInOrder(c, h, i, t)
    /\ h[i].kind = "dispatch" => ReviewInOrder(c, h, i)
    /\ h[i].kind = "launch_reconciliation" => ReconciliationInOrder(c, h, i)

LedgerInOrder(L, t) ==
    \A l \in L :
        /\ {"at", "receipt"} \subseteq DOMAIN l
        /\ l.at \in Nat /\ l.at <= t /\ l.receipt \in BOOLEAN

\* No attempt has the dispatch id of a review.
IdsApart(h) ==
    \A i \in Kind(h, "reservation"), j \in Kind(h, "dispatch") : h[i].id # h[j].id

\* Plans are of units that do not depend on themselves (ValidatePlan), and what
\* is looked at, approved or started does not bring its own times along.
ASSUME PlansAssumption ==
    /\ Unit \in Units /\ None \notin Units /\ None \notin Policies
    /\ \A p \in DOMAIN Plans :
          /\ Plans[p].attempts \in Nat /\ Plans[p].wall \in Nat
          /\ Unit \notin dependencyClosure[p][Unit]
    /\ \A req \in Requests : Envelopes[req.env].cost \in Nat
    /\ TTL \in Nat
    /\ \A p \in Preflights : "expires" \notin DOMAIN p
    /\ \A k \in Moves : "at" \notin DOMAIN k
    /\ \A l \in Strays : DOMAIN l \cap {"at", "receipt"} = {}

\* A run is picked up with records in order, what was charged so far included.
ASSUME StartsAssumption ==
    \A s \in Starts :
        /\ Numbered(s.core) /\ Numbered(s.host)
        /\ s.clock \in Nat \ {0} /\ s.stored \subseteq DOMAIN Plans
        /\ ChargedOnceIn(s.host)
        /\ AttemptsKeptIn(s.core, s.host) /\ CostsKeptIn(s.core, s.host)
        /\ \A i \in Kind(s.host, "reservation") : s.host[i].cost \in Nat
        /\ \A i \in DOMAIN s.core : CoreRecordInOrder(s.core[i])
        /\ \A i \in DOMAIN s.host : HostRecordInOrder(s.core, s.host, i, s.clock)
        /\ LedgerInOrder(s.ledger, s.clock) /\ IdsApart(s.host)
===============================================================================
