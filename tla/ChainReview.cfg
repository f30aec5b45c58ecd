\* Contracts are carried and accepted anew; reviews, waivers, failures and stops
\* race units leaving review.
SPECIFICATION Spec
CONSTANTS
    Procs = {p1, p2}
    None = None
    u1 = u1
    u2 = u2
    h1 = h1
    h2 = h2
    b1 = b1
    d1 = d1
    c1 = c1
    c2 = c2
    c3 = c3
    x = x
    y = y
    binary = binary
    n1 = n1
    n2 = n2
    n3 = n3
    Units = {u1, u2}
    Bases = {b1}
    Digests = {d1}
    Contracts = {c1, c2, c3}
    CriteriaOf <- MCCriteriaOf
    Commands = {"transition", "resolve", "findings-import", "reconcile", "credit", "loop", "baseline"}
    Heads = {h1}
    Dirty = {}
    Nonces = {n1, n2, n3}
    Growth <- GovernedGrowth
    Seeds <- GovernedSeeds
    Packets <- GovernedPackets
    Operations <- ReviewOperations
    Reports <- ReviewReports
    HmaNames = {"HMA-launch"}
SYMMETRY Symmetric
INVARIANTS ContractCarried EndJustified WaiversAlternate ReviewExitResolved FindingsKept
