-------------------------------- MODULE Lease --------------------------------
(***************************************************************************)
(* The authority to launch workers: the lease a unit's issuing approval    *)
(* grants (DeriveLease), and the time at which later records take it back  *)
(* (RevokedAt).  The code derives the two from the core chain separately,  *)
(* the first before it grants a launch, the second when it reconciles the  *)
(* launches there were.                                                    *)
(*                                                                         *)
(* Times are in half seconds.  A core record carries the time it was       *)
(* recorded (rec), its approval the time it was given (at), the plan it    *)
(* accepts and the live waiver grants it binds, by their core index.       *)
(***************************************************************************)
EXTENDS ChainGates

CONSTANTS
    Units,  \* the units of the run
    Plans   \* the accepted plans: policy, the units each unit depends on
            \* (deps), and of the unit under work its implementer route,
            \* permissions (perms), wall time (wall), attempts and cost ceiling

EarlierGates == {"GROUNDING", "ACCEPTANCE_CRITERIA", "PLANNING", "ROUTE_SELECTION"}

\* Every unit a unit transitively depends on in a plan: the least set with its
\* dependencies and theirs.
dependencyClosure ==
    [p \in DOMAIN Plans |->
        LET closed(D) == \A e \in D : Plans[p].deps[e] \subseteq D IN
        [u \in Units |->
            {d \in Units : \A D \in SUBSET Units :
                Plans[p].deps[u] \subseteq D /\ closed(D) => d \in D}]]

-----------------------------------------------------------------------------
(* DeriveLease.                                                            *)

WaiverOperation(r) == r.resolution # None /\ r.resolution.op # "OVERRIDE"

\* The grants no later operation replaced or ended.
LiveGrants(c) ==
    {i \in DOMAIN c :
        /\ WaiverOperation(c[i]) /\ c[i].resolution.op = "GRANT"
        /\ \A j \in (i + 1)..Len(c) :
              WaiverOperation(c[j]) => c[j].resolution.scope # c[i].resolution.scope}

\* A waiver the approval at i bound was not live there, or was operated on
\* since.
issuerWaiversChanged(c, i) ==
    \E w \in c[i].approval.waivers :
        \/ w \notin LiveGrants(Before(c, i))
        \/ \E j \in (i + 1)..Len(c) :
              WaiverOperation(c[j]) /\ c[j].resolution.scope = c[w].resolution.scope

\* The latest route approval of the unit up to i.
routeApprovalFor(c, i, unit) ==
    SelectLastInSeq(SubSeq(c, 1, i), LAMBDA r :
        /\ ApprovedMove(r) /\ r.unit = unit
        /\ Edge(r.approval, "ROUTE_SELECTION", "IMPLEMENTATION_AUTHORIZATION"))

Reopens(r) == r.approval.to \in {"GROUNDING", "ACCEPTANCE_CRITERIA"}

\* The unit goes back to an earlier gate, or corrects its implementation.
Reworks(r) ==
    \/ r.approval.to \in EarlierGates
    \/ Edge(r.approval, "INDEPENDENT_VALIDATION", "IMPLEMENTATION_AUTHORIZATION")

\* A move after the route approval that voids the lease issued at i.
Voids(c, j, i, unit, deps) ==
    LET r == c[j]
        own == r.unit \in {unit, None}
    IN  /\ ApprovedMove(r)
        /\ ~(j <= i /\ own /\ r.approval.to \notin EarlierGates)
        /\ \/ Reopens(r)
           \/ own /\ r.approval.to # "IMPLEMENTATION_AUTHORIZATION"
           \/ r.unit \in deps /\ Reworks(r)

\* Mutant: a correction starts anew, whatever became of its route approval.
AuthoritySinceIssuer(c, i, unit) == i

\* Where the records start that may void the lease: a correction rests on the
\* unit's route approval.
AuthorityStart(c, i, unit) ==
    LET r == routeApprovalFor(c, i, unit) IN IF r # 0 THEN r ELSE i

\* The selected route is the plan's, approved by the unit's route approval,
\* which still stands and accepted the same plan.
RouteHolds(c, i, unit, plan, grant) ==
    LET r == routeApprovalFor(c, i, unit) IN
    /\ r # 0
    /\ grant.route = Plans[plan].route
    /\ grant.approval = r
    /\ grant.perms # {} /\ grant.perms \subseteq Plans[plan].perms
    /\ r # i => ~issuerWaiversChanged(c, r) /\ c[r].approval.plan = plan

\* DeriveLease's checks but the last, which compares policies: the unit's
\* latest lease, under the presented plan and selected route, is active now.
LeaseHolds(c, unit, plan, grant, counters, now) ==
    LET i == currentIssuer(c, unit)
        a == c[i].approval
        p == Plans[plan]
    IN  /\ i # 0
        /\ a.plan = plan
        /\ a.contract # None /\ a.contract = BoundContractDigest(c)
        /\ ~Terminal(c)
        /\ DOMAIN Criteria(c) = CriteriaOf[a.contract]
        /\ ~issuerWaiversChanged(c, i)
        /\ \A j \in (AuthorityStart(c, i, unit) + 1)..Len(c) :
              ~Voids(c, j, i, unit, dependencyClosure[plan][unit])
        /\ RouteHolds(c, i, unit, plan, grant)
        /\ a.at <= now /\ now < a.at + p.wall
        /\ counters.attempts < p.attempts /\ counters.cost < p.cost

-----------------------------------------------------------------------------
(* RevokedAt.                                                              *)

\* The earlier of the times it was approved and recorded.
eventTime(r) ==
    IF r.approval # None /\ r.approval.at < r.rec THEN r.approval.at ELSE r.rec

\* Whether a record ends the launches of the unit's implementation, or of its
\* review.
Revokes(r, unit, deps, review) ==
    \/ r.kind = "outcome"
    \/ /\ ApprovedMove(r)
       /\ LET to == r.approval.to IN
          \/ Reopens(r)
          \/ /\ r.unit \in {unit, None}
             /\ IF review THEN to \in EarlierGates \cup {"IMPLEMENTATION_AUTHORIZATION"}
                ELSE to # "IMPLEMENTATION_AUTHORIZATION"
          \/ r.unit \in deps /\ Reworks(r)

\* The end of authority given until end at record i, as the records after it
\* leave it.
RevokedAt(c, plan, unit, i, end, review) ==
    Min({end} \cup {eventTime(c[j]) : j \in {k \in (i + 1)..Len(c) :
            Revokes(c[k], unit, dependencyClosure[plan][unit], review)}})
===============================================================================
