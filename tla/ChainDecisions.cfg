\* Two processes race decisions that move, end or only mark the run, and capture
\* evidence while the repository and the chain move.
SPECIFICATION Spec
CONSTANTS
    Procs = {p1, p2}
    None = None
    u1 = u1
    u2 = u2
    h1 = h1
    h2 = h2
    b1 = b1
    d1 = d1
    c1 = c1
    c2 = c2
    c3 = c3
    x = x
    y = y
    binary = binary
    n1 = n1
    n2 = n2
    n3 = n3
    Units = {u1, u2}
    Bases = {b1}
    Digests = {d1}
    Contracts = {c1, c2, c3}
    CriteriaOf <- MCCriteriaOf
    Commands = {"transition", "pilot", "ci", "resolve"}
    Heads = {h1, h2}
    Dirty = {w1}
    Nonces = {n1, n2}
    Growth <- DecisionGrowth
    Seeds <- DecisionSeeds
    Packets <- DecisionPackets
    Operations <- ControlOperations
    Reports <- Nothing
    HmaNames = {}
SYMMETRY Symmetric
CONSTRAINT OwnScenario
INVARIANTS TypeOK NoncesSpentOnce LegalHistory EvidenceBound
PROPERTY ImplementsRunControl
