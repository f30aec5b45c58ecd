\* Attempts are admitted, charged, launched, replayed and reconciled.
SPECIFICATION Spec
CONSTANTS
    None = None
    u1 = u1
    u2 = u2
    u3 = u3
    c1 = c1
    x = x
    b1 = b1
    Unit = u1
    Base = b1
    Contract = c1
    HmaNames = {}
    Policies = {"q1", "q2"}
    TTL = 3
    Waivable <- Artifact
    Units <- MCUnits
    CriteriaOf <- MCCriteriaOf
    Plans <- MCPlans
    Preflights <- MCPreflights
    Envelopes <- MCEnvelopes
    Requests <- MCRequests
    Strays <- MCStrays
    Journals <- MCJournals
    Moves <- MCMoves
    Starts <- MCStarts
INVARIANTS TypeOK BudgetKept ChargedOnce GrantJustified GateReconciled
CHECK_DEADLOCK FALSE
