\* An override of a finding that reconciliation recorded anew.
SPECIFICATION Spec
CONSTANTS
    Procs = {p1, p2}
    None = None
    u1 = u1
    u2 = u2
    h1 = h1
    h2 = h2
    b1 = b1
    d1 = d1
    c1 = c1
    c2 = c2
    c3 = c3
    x = x
    y = y
    binary = binary
    n1 = n1
    n2 = n2
    n3 = n3
    Units = {u1, u2}
    Bases = {b1}
    Digests = {d1}
    Contracts = {c1, c2, c3}
    CriteriaOf <- MCCriteriaOf
    Commands = {"resolve", "findings-import", "reconcile"}
    Heads = {h1}
    Dirty = {}
    Nonces = {n1, n2}
    Growth <- AliasGrowth
    Seeds <- AliasSeeds
    Packets <- Nothing
    Operations <- ReviewOperations
    Reports <- ReviewReports
    HmaNames = {"HMA-launch", "HMA-write"}
SYMMETRY Symmetric
INVARIANT ChainVerifies
