\* A unit is driven to PARTIAL while agents fail and invocations die.
SPECIFICATION Spec
CONSTANTS
    None = None
    u1 = u1
    c1 = c1
    x = x
    y = y
    Unit = u1
    Contract = c1
    Base = "base"
    Implementer <- ming
    Reviewer <- phil
    HmaNames = {}
    TTL = 1
    PacketTTL = 1
    Faults = {"crash", "orphan", "worker", "scope", "preflight", "wait", "review", "reviewer", "verdict", "check", "credit", "facts"}
    MaxFaults = 2
    CriteriaOf <- MCCriteriaOf
    RiskOf <- MCRiskOf
    PlanUnit <- MCPlanUnit
    ClassesAt <- MCClassesAt
INVARIANTS TypeOK NothingRedone EndsReviewed
PROPERTIES ReachesPartial DeadEndsStay
CHECK_DEADLOCK FALSE
