\* A unit is implemented, reviewed, validated and credited.
SPECIFICATION Spec
CONSTANTS
    None = None
    u1 = u1
    c1 = c1
    c2 = c2
    x = x
    y = y
    h1 = h1
    h2 = h2
    b1 = b1
    j1 = j1
    j2 = j2
    Unit = u1
    Base = b1
    Contracts = {c1, c2}
    HmaNames = {"kernel"}
    Runs = {j1, j2}
    TTL = 1
    Horizon = 2
    CriteriaOf <- MCCriteriaOf
    RiskOf <- MCRiskOf
    PlanUnit <- MCPlanUnit
    ClassesAt <- MCClassesAt
    Established <- MCEstablished
    Targets <- MCTargets
    Approvals <- MCApprovals
    Decisions <- MCDecisions
    Offers <- MCOffers
    Launches <- MCLaunches
    Starts <- MCStarts
INVARIANTS TypeOK ReviewExitIndependent ReviewExitAnswered PacketSufficient CheckpointExit ClosureCredited
CHECK_DEADLOCK FALSE
