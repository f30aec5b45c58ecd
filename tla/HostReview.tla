------------------------------ MODULE HostReview ------------------------------
(***************************************************************************)
(* How a unit's work is implemented, reviewed and credited: the hma host   *)
(* commands that write the host chain, agent-dispatch launching reviewers, *)
(* and the transitions and imports that rely on what the host chain says.  *)
(*                                                                         *)
(* Every command but one decides and writes under the host run lock, most  *)
(* under the core run lock as well, and is one step; a transition is one   *)
(* step because its approval is for a position of the core chain (what     *)
(* writers that do not take the host lock do to it is RunChain's).         *)
(* review-packet reads both chains and the repository before it takes the  *)
(* locks: draft is the dispatch it will record.  The launch gates are      *)
(* HostLaunch's.                                                           *)
(***************************************************************************)
EXTENDS HostRecords

CONSTANTS
    Unit,        \* the unit under work
    Contracts,   \* acceptance contract documents
    Approvals,   \* what humans approve, apart from nonce, head and content
    Decisions,   \* implementation decisions: mode and seat
    Offers,      \* reviews asked for: seat, reason, risk, disputed, final
    Runs,        \* agent-dispatch run ids a host gives review launches
    Launches,    \* reviewers: the seat they run in and what they report
    Established, \* the findings HMA itself measures, by target
    Targets,     \* heads and uncommitted contents of the repository
    Base,        \* the base revision
    Starts,      \* states a run is picked up at, with the room left
    Horizon      \* bound: the last time commands run at

VARIABLES
    core,    \* the core chain
    host,    \* the host chain
    ledger,  \* the receipts of agent-dispatch, a set
    target,  \* the repository as it is
    draft,   \* the dispatch review-packet is about to record, or None
    clock,   \* the time
    room,    \* bound: the records, packets, launches, and shifts of the
             \* repository or the time still to come
    gates    \* history: where and on what each gated decision was recorded

vars == <<core, host, ledger, target, draft, clock, room, gates>>

Init ==
    \E s \in Starts :
        /\ core = s.core /\ host = s.host /\ ledger = s.ledger
        /\ target = s.target /\ room = s.room /\ gates = s.gates
        /\ draft = None
        /\ clock = 1

-----------------------------------------------------------------------------
(* Writing the chains.                                                     *)

\* A command appends rs to the core chain and hs to the host chain.
Write(rs, hs) ==
    /\ Len(rs) <= room.core /\ Len(hs) <= room.host
    /\ core' = core \o rs
    /\ host' = host \o hs
    /\ room' = [room EXCEPT !.core = @ - Len(rs), !.host = @ - Len(hs)]

\* appendHostRecord: both locks, an open run, and a record of its head.
AppendHost(r) ==
    /\ core # <<>> /\ ~Terminal(core)
    /\ Write(<<>>, <<r>>)
    /\ UNCHANGED <<ledger, target, clock, gates>>

\* Mutant: a record names the core record it will be followed by.
EnvelopeAhead(kind) == [kind |-> kind, unit |-> Unit, core |-> Len(core) + 1, at |-> clock]

Envelope(kind) == [kind |-> kind, unit |-> Unit, core |-> Len(core), at |-> clock]
Route(seat) == [seat |-> seat, approval |-> approvedCoreRoute(core, Unit)]
HasRoute == approvedCoreRoute(core, Unit) # 0

-----------------------------------------------------------------------------
(* hma host bind-repository, decision, preflight, dispatch and review.     *)

BindRepository ==
    /\ ~RunRepository(host)
    /\ \E i \in DOMAIN core : ApprovedMove(core[i])
    /\ AppendHost(Envelope("repository"))
    /\ UNCHANGED draft

Decide ==
    /\ HasRoute
    /\ \E o \in Decisions, s \in {0, latestDecision(host, Unit)} :
          LET d == Envelope("decision") ++ Route(o.seat) ++ [mode |-> o.mode, supersedes |-> s]
          IN  EvaluateDecision(host, d) /\ AppendHost(d)
    /\ UNCHANGED draft

Seats == {o.seat : o \in Decisions \cup Offers}

Preflight ==
    /\ HasRoute
    /\ \E seat \in Seats, role \in {"implementation", "review"},
          status \in {"AVAILABLE", "UNAVAILABLE"} :
          LET p == Envelope("preflight") ++ Route(seat)
                   ++ [role |-> role, status |-> status, expires |-> clock + TTL]
          IN  EvaluatePreflight(host, p, clock) /\ AppendHost(p)
    /\ UNCHANGED draft

\* A host-written dispatch, of the implementation or of a review without a
\* packet, which a run bound to a contract does not take.
DispatchImplementation ==
    /\ HasRoute
    /\ \E i \in Of(host, "preflight", Unit) :
          LET d == Envelope("dispatch") ++ Route(host[i].seat)
                   ++ [role |-> "implementation", preflight |-> i]
          IN  EvaluateDispatch(host, d, clock) /\ AppendHost(d)
    /\ UNCHANGED draft

ReviewDispatch(i, o, t) ==
    Envelope("dispatch") ++ Route(o.seat)
    ++ [role |-> "review", preflight |-> i, target |-> t,
        implementation |-> RequireImplementation(host, Unit),
        risk |-> o.risk, disputed |-> o.disputed, final |-> o.final, packet |-> None]

DispatchReview ==
    /\ BoundContractDigest(core) = None
    /\ HasRoute
    /\ \E i \in Of(host, "preflight", Unit), o \in Offers, t \in Targets :
          LET d == ReviewDispatch(i, o, t)
          IN  EvaluateDispatch(host, d, clock) /\ AppendHost(d)
    /\ UNCHANGED draft

\* The review of dispatch i with the given provenance.
ReviewOf(i, verdict, receipt, isolation) ==
    Envelope("review")
    ++ [dispatch |-> i, implementation |-> host[i].implementation,
        target |-> host[i].target, verdict |-> verdict,
        receipt |-> receipt, isolation |-> isolation]

\* A review a host wrote down itself.
RecordReview ==
    /\ HasRoute
    /\ \E i \in Of(host, "dispatch", Unit), verdict \in {"APPROVE", "BLOCK"} :
          /\ Reviews(host[i])
          /\ LET v == ReviewOf(i, verdict, None, None)
             IN  EvaluateReview(host, v) /\ AppendHost(v)
    /\ UNCHANGED draft

-----------------------------------------------------------------------------
(* hma host review-packet.                                                 *)

\* What the classifier says of the review o of the live target.
Classified(o) ==
    ClassifyCheckpoint(CheckpointInput(host, core, Unit, target, CurrentStage(core),
                                       o.risk, o.disputed))

Packet(o, run) ==
    LET k == BoundContractDigest(core)
        plain == [run |-> run, reason |-> o.reason, until |-> clock + TTL,
                  contract |-> None, triggers |-> {}, family |-> FALSE]
    IN  IF k = None THEN plain
        ELSE [covers |-> CurrentCovers(core, Unit)]
             ++ [plain EXCEPT !.contract = k, !.triggers = Classified(o).triggers,
                              !.family = Classified(o).family]

\* Without locks: the packet is built from the chains and the repository, and
\* its file created.
PacketRead ==
    /\ draft = None
    /\ room.packets > 0
    /\ room' = [room EXCEPT !.packets = @ - 1]
    /\ requireApprovedRepository(host, core, Unit, Base)
    /\ \E i \in Of(host, "preflight", Unit), o \in Offers, run \in Runs :
          /\ host[i].seat = o.seat
          /\ BoundContractDigest(core) # None => o.reason >= Classified(o).level
          /\ draft' = [ReviewDispatch(i, o, target) EXCEPT !.packet = Packet(o, run)]
                      ++ [required |-> IF BoundContractDigest(core) = None THEN 0
                                       ELSE Classified(o).required]
    /\ UNCHANGED <<core, host, ledger, target, clock, gates>>

\* Mutant: the core chain may have moved since it was read.
CommitsAnyway(d) ==
    /\ d.risk >= d.required
    /\ d.approval = approvedCoreRoute(core, Unit)
    /\ requireApprovedRepository(host, core, Unit, Base)
    /\ EvaluateDispatch(host, d, d.at)

PacketCommits(d) ==
    /\ Len(core) = d.core
    /\ d.risk >= d.required
    /\ d.approval = approvedCoreRoute(core, Unit)
    /\ requireApprovedRepository(host, core, Unit, Base)
    /\ EvaluateDispatch(host, d, d.at)

\* Under both locks.
PacketCommit ==
    /\ draft # None
    /\ PacketCommits(draft)
    /\ AppendHost([draft EXCEPT !.core = Len(core)])
    /\ draft' = None

\* The command is refused or dies; its packet has no dispatch.
PacketDrop ==
    /\ draft # None
    /\ draft' = None
    /\ UNCHANGED <<core, host, ledger, target, clock, room, gates>>

-----------------------------------------------------------------------------
(* agent-dispatch, and the imports of what it recorded.                    *)

\* A reviewer is launched on the repository as it is, by whoever, in any seat,
\* and reports on any packet there is.
LaunchReviewer ==
    /\ room.launches > 0
    /\ room' = [room EXCEPT !.launches = @ - 1]
    /\ \E run \in Runs, o \in Launches,
          i \in {j \in Of(host, "dispatch", Unit) : HasPacket(host[j])} :
          /\ run \notin {l.run : l \in ledger}
          /\ ledger' = ledger \cup
                {[run |-> run, mode |-> "review", worker |-> o.seat.worker,
                  model |-> o.seat.model, target |-> target, started |-> clock,
                  report |-> o.report ++ [packet |-> i]]}
    /\ UNCHANGED <<core, host, target, draft, clock, gates>>

ReviewImport ==
    /\ HasRoute
    /\ \E i \in Of(host, "dispatch", Unit), l \in ledger :
          /\ HasPacket(host[i])
          /\ host[i].core = Len(core)
          /\ host[i].target = target
          /\ requireApprovedRepository(host, core, Unit, Base)
          /\ EvaluateReviewImport(host, i, l, l.report)
          /\ LET v == ReviewOf(i, MapReportVerdict(l.report), l.run, l.report.isolation)
             IN  EvaluateReview(host, v) /\ AppendHost(v)
    /\ UNCHANGED draft

ReportOf(v) == (CHOOSE l \in ledger : l.run = v.receipt).report

\* Mutant: the report is all there is.
ImportedReport(rep, t) == rep.findings

\* The findings of a report, and those HMA establishes at the target.
Imported(rep, t) ==
    [n \in DOMAIN rep.findings \cup DOMAIN Established[t] |->
        IF n \in DOMAIN Established[t] THEN Established[t][n] ELSE rep.findings[n]]

SnapshotOf(v, i) ==
    LET fs == SnapshotFindings(Findings(core), Unit, Imported(ReportOf(v), v.target), v.verdict)
    IN  [Blank EXCEPT !.unit = Unit, !.snapshot = TRUE, !.findings = fs, !.sealed = fs]
        ++ [source |-> i]

FindingsImport ==
    /\ ~Terminal(core)
    /\ \E i \in Of(host, "review", Unit) :
          /\ RequireLatestImportedReview(host, i)
          /\ host[i].core = Len(core)
          /\ host[i].target = target
          /\ requireApprovedRepository(host, core, Unit, Base)
          /\ FindingsDistinct(Findings(core), Unit, Imported(ReportOf(host[i]), target))
          /\ Write(<<SnapshotOf(host[i], i)>>, <<>>)
    /\ UNCHANGED <<ledger, target, draft, clock, gates>>

-----------------------------------------------------------------------------
(* hma host credit: HMA runs the checks of the criteria the unit advances, *)
(* on the reviewed target.                                                 *)

\* The core records land one by one before the host record: an error or a
\* crash after any of them leaves those.
Credit ==
    /\ ~Terminal(core)
    /\ \E i \in Of(host, "review", Unit) :
          /\ Creditable(host, core, i, target, Base)
          /\ LET ids == currentPlanUnit(core, Unit).criteria
             IN  \E exits \in [ids -> {0, 1}] :
                 LET results == [id \in ids |->
                                    criterionDisposition(exits[id], ReportOf(host[i]).status)]
                     whole == CreditRecords(core, Unit, results)
                     credit == [Envelope("credit") EXCEPT !.core = Len(core) + Len(whole)]
                               ++ [review |-> i, target |-> target, results |-> results,
                                   contract |-> BoundContractDigest(core),
                                   issuer |-> currentIssuer(core, Unit),
                                   record |-> Len(core) + Len(whole)]
                 IN  \/ Write(whole, <<credit>>)
                     \/ \E n \in 1..Len(whole) : Write(SubSeq(whole, 1, n), <<>>)
    /\ UNCHANGED <<ledger, target, draft, clock, gates>>

-----------------------------------------------------------------------------
(* hma transition, and the core records other commands write.              *)

\* The challenges of a run, numbered by the position they are answered at.
Approve(k) ==
    [unit |-> k.unit, from |-> k.from, to |-> k.to, outcome |-> k.outcome,
     class |-> FALSE, nonce |-> Len(core) + 1, base |-> Base,
     head |-> IF ApprovalBindsHeadDiff(k.from) THEN target.head ELSE None,
     wt |-> None, needs |-> {}, contract |-> k.contract]

Gated(a) == ReviewEdge(a) \/ CheckpointEdge(a) \/ ClaimsSuccess(a)

HostGate(a) ==
    /\ HostAdmits(core, a)
    /\ ImplementationEdge(a) => ImplementationGate(host, core, a.unit)
    /\ ReviewEdge(a) => ReviewGate(host, core, a, target)
    /\ CheckpointEdge(a) /\ BoundContractDigest(core) # None =>
          CheckpointGate(host, core, a, target)
    /\ ClaimsSuccess(a) => requireIndependentCredit(host, core, target)

Transition ==
    /\ \E k \in Approvals :
          LET a == Approve(k) IN
          /\ HostGate(a)
          /\ AdmitsTransition(core, a, Len(core) + 1, target.wt)
          /\ \E doc \in Contracts \cup {None} : AdmitsContract(core, a, doc)
          /\ Write(<<AppliedRecord(core, a)>>, <<>>)
          /\ gates' = gates \cup
                (IF Gated(a)
                 THEN {[at |-> Len(core) + 1, host |-> Len(host), target |-> target]}
                 ELSE {})
    /\ UNCHANGED <<ledger, target, draft, clock>>

\* Evidence a pilot, CI or a loop captured stands for the records of the
\* commands RunChain models.
OtherEvidence ==
    /\ ~Terminal(core)
    /\ Write(<<EvidenceRecord(core, Unit)>>, <<>>)
    /\ UNCHANGED <<ledger, target, draft, clock, gates>>

ChangeTarget ==
    /\ room.shifts > 0
    /\ room' = [room EXCEPT !.shifts = @ - 1]
    /\ target' \in Targets \ {target}
    /\ UNCHANGED <<core, host, ledger, draft, clock, gates>>

Tick ==
    /\ clock < Horizon /\ room.shifts > 0
    /\ room' = [room EXCEPT !.shifts = @ - 1]
    /\ clock' = clock + 1
    /\ UNCHANGED <<core, host, ledger, target, draft, gates>>

Next ==
    \/ BindRepository \/ Decide \/ Preflight
    \/ DispatchImplementation \/ DispatchReview \/ RecordReview
    \/ PacketRead \/ PacketCommit \/ PacketDrop
    \/ LaunchReviewer \/ ReviewImport \/ FindingsImport
    \/ Credit \/ Transition \/ OtherEvidence
    \/ ChangeTarget \/ Tick

Spec == Init /\ [][Next]_vars

-----------------------------------------------------------------------------
(* Properties.                                                             *)

HostRecordTyped(r) ==
    /\ r.kind \in {"repository", "decision", "preflight", "dispatch", "review", "credit"}
    /\ r.at \in 1..Horizon

HostRecordsTyped ==
    \A i \in DOMAIN host :
        /\ HostRecordTyped(host[i])
        /\ host[i].core \in 1..Len(core)
        /\ host[i].kind = "review" =>
              /\ host[i].dispatch \in 1..(i - 1) /\ Reviews(host[host[i].dispatch])
              /\ host[i].receipt # None =>
                    Cardinality({l \in ledger : l.run = host[i].receipt}) = 1
        /\ host[i].kind = "credit" => host[i].review \in 1..(i - 1)

\* Types, and that records name earlier ones; a review's receipt is one.
TypeOK ==
    /\ HostRecordsTyped
    /\ target \in Targets
    /\ clock \in 1..Horizon
    /\ draft # None =>
          Reviews(draft) /\ draft.packet.run \in Runs /\ draft.core <= Len(core)
    /\ \A g \in gates : g.at \in DOMAIN core /\ g.host <= Len(host)

Decided(g) == core[g.at].approval
CoreAt(g) == Before(core, g.at)
HostAt(g) == SubSeq(host, 1, g.host)
Approving(h) == {i \in Of(h, "review", Unit) : h[i].verdict = "APPROVE"}
Contributes(r) == Implements(r) \/ (r.kind = "decision" /\ r.mode = "DIRECT")

\* A unit leaves implementation review on the word of a reviewer who shares no
\* worker, model or work context with anyone who implemented it before, and no
\* family either where the review was asked for at high risk or as final: an
\* implementation superseded since still counts.
ReviewExitIndependent ==
    \A g \in gates : ReviewEdge(Decided(g)) =>
        LET h == HostAt(g) IN
        \E i \in Approving(h) :
            LET s == h[h[i].dispatch].seat IN
            \A j \in DOMAIN h : Contributes(h[j]) =>
                /\ h[j].seat.worker # s.worker
                /\ h[j].seat.model # s.model
                /\ h[j].seat.context # s.context
                /\ h[h[i].dispatch].risk >= High => h[j].seat.family # s.family

\* The approving review a unit leaves implementation review on is of what the
\* repository then holds; nothing was implemented, dispatched for review or
\* recorded in the core chain since, but its own findings; and where HMA made
\* the packet, the reviewer was launched on that content while it was valid.
ReviewExitFresh ==
    \A g \in gates : ReviewEdge(Decided(g)) =>
        LET h == HostAt(g) IN
        \E i \in Approving(h) :
            LET d == h[i].dispatch IN
            /\ h[i].target = g.target
            /\ \A j \in (d + 1)..g.host : ~Implements(h[j]) /\ h[j].kind # "decision"
            /\ HasPacket(h[d]) => \A j \in (d + 1)..g.host : ~Reviews(h[j])
            /\ \A j \in (h[i].core + 1)..(g.at - 1) : core[j].snapshot /\ core[j].source = i
            /\ HasPacket(h[d]) =>
                  /\ h[d].core = h[i].core /\ h[i].core < g.at - 1
                  /\ \E l \in ledger :
                        /\ l.run = h[i].receipt /\ l.target = g.target
                        /\ h[d].at <= l.started /\ l.started < h[d].packet.until

\* What HMA itself measured on the content a unit leaves packet review with
\* does not block: no reviewer's report can leave it out.
ReviewExitMeasured ==
    \A g \in gates : ReviewEdge(Decided(g)) /\ packetMode(HostAt(g)) =>
        \A n \in DOMAIN Established[g.target] : Established[g.target][n] # "BLOCK"

\* One launch answers one review dispatch: no two reviews rest on the same
\* receipt, and none on a report bound to another packet.
OneReviewPerLaunch ==
    \A i, j \in Of(host, "review", Unit) :
        host[i].receipt # None =>
            /\ i # j => host[i].receipt # host[j].receipt
            /\ ReportOf(host[i]).packet = host[i].dispatch

\* Each review stands for one launch, on the content the unit leaves with, and
\* no review leaves out what HMA saw itself.
ReviewExitAnswered == ReviewExitFresh /\ OneReviewPerLaunch /\ ReviewExitMeasured

\* Dispatch d's packet says at least what the classifier makes of chains h, c.
Suffices(d, h, c) ==
    LET p == d.packet
        now == ClassifyCheckpoint(CheckpointInput(h, c, Unit, d.target, CurrentStage(c),
                                                  d.risk, d.disputed))
    IN  /\ p.contract = BoundContractDigest(c)
        /\ p.covers = CurrentCovers(c, Unit)
        /\ now.triggers \subseteq p.triggers
        /\ now.level <= p.reason
        /\ now.required <= d.risk
        /\ now.family => p.family

PacketsSuffice(h, c) ==
    \A i \in DOMAIN h : HasPacket(h[i]) /\ h[i].packet.contract # None =>
        Suffices(h[i], SubSeq(h, 1, i - 1), SubSeq(c, 1, h[i].core))

\* A packet of a run bound to a contract, built before the locks were taken,
\* still says at least what the classifier makes of the chains its dispatch
\* was recorded after: level, triggers, risk, separation and contract.
PacketSufficient == PacketsSuffice(host, core)

\* A unit of a contracted run whose change touches an interface, an effect or
\* a control, or cannot be classified, goes to release only after an isolated
\* reviewer approved exactly that content, at the risk it calls for, for the
\* contract in force, dispatched since the unit entered validation.
CheckpointExit ==
    \A g \in gates :
        LET h == HostAt(g)
            c == CoreAt(g)
            touched == (UNION ClassesAt[g.target]) \ {"ordinary"}
        IN  /\ CheckpointEdge(Decided(g)) /\ BoundContractDigest(c) # None
            /\ touched # {} \/ {} \in ClassesAt[g.target]
            => \E i \in Approving(h) :
                  LET d == h[h[i].dispatch] IN
                  /\ h[i].isolation = "isolated" /\ h[i].target = g.target
                  /\ d.packet # None /\ d.packet.contract = BoundContractDigest(c)
                  /\ d.risk >= RiskOf[BoundContractDigest(c)]
                  /\ touched # {} => d.risk >= High
                  /\ CurrentStage(SubSeq(c, 1, d.core)) = "INDEPENDENT_VALIDATION"
                  /\ \A j \in (d.core + 1)..Len(c) : ~ApprovedMove(c[j])

\* A run that ends claiming success has every passed criterion from HMA's own
\* check, on the content it ends with, under the contract then in force, by an
\* isolated final audit dispatched in the unit's last lease: what a credit
\* that failed half way left in the core chain does not count.
ClosureCredited ==
    \A g \in gates : ClaimsSuccess(Decided(g)) =>
        LET h == HostAt(g)
            c == CoreAt(g)
        IN  \A id \in {x \in DOMAIN Criteria(c) : Criteria(c)[x] = "PASSED"} :
              \E i \in Credits(h) :
                 LET v == h[h[i].review]
                     d == h[v.dispatch]
                 IN  /\ h[i].results[id] = "PASSED" /\ h[i].target = g.target
                     /\ c[h[i].record].criteria = Criteria(c)
                     /\ v.verdict = "APPROVE" /\ v.isolation = "isolated"
                     /\ d.packet.reason = 3 /\ d.packet.contract = BoundContractDigest(c)
                     /\ \A j \in (d.core + 1)..Len(c) : ~IssuesLease(c[j], Unit)
                     /\ \A j \in (h[i].record + 1)..Len(c) : c[j].kind # "criterion"

-----------------------------------------------------------------------------
(* What a run is picked up with.                                           *)

\* An implementation that was delegated follows the decision then in force.
FollowsDecision(h, i) ==
    Implements(h[i]) =>
        \E d \in 1..(i - 1) :
            /\ h[d].kind = "decision" /\ h[d].mode = "DELEGATE" /\ sameRoute(h[d], h[i])
            /\ \A k \in (d + 1)..(i - 1) : h[k].kind # "decision"

\* A reviewer is chosen apart from everyone who implemented so far, and by
\* packet once any was.
ReviewerChosen(h, i) ==
    Reviews(h[i]) =>
        /\ h[i].implementation \in 1..(i - 1)
        /\ \A j \in 1..(i - 1) :
              Contributes(h[j]) => Independent(h[i].seat, h[j].seat, Strong(h[i]))
        /\ h[i].packet = None => \A j \in 1..(i - 1) : ~HasPacket(h[j])

\* A review is of what its dispatch was for.
AnswersDispatch(h, i) ==
    h[i].kind = "review" =>
        LET d == h[i].dispatch IN
        /\ d \in 1..(i - 1) /\ Reviews(h[d])
        /\ h[i].implementation = h[d].implementation /\ h[i].target = h[d].target
        /\ h[i].receipt # None <=> h[d].packet # None

\* An imported review is the only one of its dispatch, at the core head the
\* packet was made for, of a launch for that packet.
AnswersLaunch(h, i, receipts) ==
    h[i].kind = "review" /\ h[i].receipt # None =>
        LET d == h[i].dispatch IN
        /\ h[i].core = h[d].core
        /\ \A j \in 1..(i - 1) : h[j].kind = "review" => h[j].dispatch # d
        /\ \E l \in receipts :
              /\ l.run = h[i].receipt /\ l.report.packet = d /\ l.target = h[i].target
              /\ h[d].at <= l.started /\ l.started < h[d].packet.until

\* A host record follows those before it.
RecordInOrder(h, i, receipts) ==
    /\ h[i].unit = Unit
    /\ Reviews(h[i]) => h[i].risk \in Nat
    /\ FollowsDecision(h, i) /\ ReviewerChosen(h, i)
    /\ AnswersDispatch(h, i) /\ AnswersLaunch(h, i, receipts)

HostInOrder(h, receipts) == \A i \in DOMAIN h : RecordInOrder(h, i, receipts)

OneLaunchPerRun(receipts) == \A l, m \in receipts : l.run = m.run => l = m

\* The snapshot of an approving review holds what HMA established itself.
HoldsEstablished(r, h) ==
    r.snapshot =>
        /\ r.kind = "finding" /\ r.source \in DOMAIN h
        /\ LET v == h[r.source] IN
           v.verdict = "APPROVE" => \A n \in DOMAIN Established[v.target] :
              /\ FindingID(Unit, n) \in DOMAIN r.findings
              /\ r.findings[FindingID(Unit, n)]
                    = [disp |-> Established[v.target][n], unit |-> Unit]

\* A core record accepts a contract there is, and its criteria are a list.
CoreRecordInOrder(r, h) ==
    /\ HoldsEstablished(r, h)
    /\ IsFiniteSet(DOMAIN r.criteria)
    /\ AcceptsContract(r) => r.approval.contract \in Contracts \cup {None}

CoreInOrder(c, h) == \A k \in DOMAIN c : CoreRecordInOrder(c[k], h)

\* Record k of c sets criteria that are not taken away again, or repeats those
\* there are.
KeepsCriteria(c, k) ==
    /\ c[k].criteria = NoMap <=> DOMAIN c[k].criteria = {}
    /\ c[k].kind = "criterion" /\ c[k].criteria = NoMap =>
          \A j \in 1..(k - 1) : c[j].criteria = NoMap
    /\ c[k].kind # "criterion" /\ c[k].criteria # NoMap =>
          \E j \in 1..(k - 1) :
              /\ c[j].kind = "criterion" /\ c[j].criteria = c[k].criteria
              /\ \A m \in (j + 1)..(k - 1) : c[m].kind # "criterion"

\* A credit is of an isolated approving review dispatched in the lease then
\* current, for the criteria of its plan, which its core record then gave
\* after those of any earlier credit.
CreditFollows(h, i, c) ==
    h[i].kind = "credit" =>
        LET v == h[h[i].review]
            then == SubSeq(c, 1, h[i].record)
        IN  /\ h[i].review \in 1..(i - 1) /\ v.kind = "review"
            /\ v.verdict = "APPROVE" /\ v.isolation = "isolated"
            /\ h[i].record = h[i].core /\ h[i].record \in 1..Len(c)
            /\ c[h[i].record].kind = "criterion"
            /\ h[i].issuer # 0 /\ h[i].issuer = currentIssuer(then, Unit)
            /\ h[i].issuer = currentIssuer(SubSeq(c, 1, h[v.dispatch].core), Unit)
            /\ DOMAIN h[i].results = currentPlanUnit(then, Unit).criteria
            /\ \A j \in 1..(i - 1) : h[j].kind = "credit" => h[j].record < h[i].record

CreditsInOrder(h, c) ==
    /\ \A k \in DOMAIN c : KeepsCriteria(c, k)
    /\ \A i \in DOMAIN h : CreditFollows(h, i, c)

ASSUME ReviewAssumption ==
    /\ \A t \in Targets :
          t = [head |-> t.head, wt |-> t.wt] /\ ClassesAt[t] \subseteq SUBSET PolicyClasses
    /\ RiskOf \in [Contracts -> Nat]
    /\ \A o \in Offers : o.risk \in Nat /\ o.reason \in Nat
    /\ Horizon \in Nat \ {0}
    /\ \A s \in Starts :
          /\ Numbered(s.core) /\ Numbered(s.host) /\ s.target \in Targets /\ s.gates = {}
          /\ HostInOrder(s.host, s.ledger) /\ OneLaunchPerRun(s.ledger)
          /\ CoreInOrder(s.core, s.host) /\ PacketsSuffice(s.host, s.core)
          /\ CreditsInOrder(s.host, s.core)
          /\ \A i \in DOMAIN s.host :
                HostRecordTyped(s.host[i]) /\ s.host[i].core \in 1..Len(s.core)
===============================================================================
