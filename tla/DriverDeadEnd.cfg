\* A reviewer dies once.
SPECIFICATION Spec
CONSTANTS
    None = None
    u1 = u1
    c1 = c1
    x = x
    y = y
    Unit = u1
    Contract = c1
    Base = "base"
    Implementer <- ming
    Reviewer <- phil
    HmaNames = {}
    TTL = 1
    PacketTTL = 1
    Faults = {"reviewer"}
    MaxFaults = 1
    CriteriaOf <- MCCriteriaOf
    RiskOf <- MCRiskOf
    PlanUnit <- MCPlanUnit
    ClassesAt <- MCClassesAt
PROPERTY RerunRecovers
CHECK_DEADLOCK FALSE
