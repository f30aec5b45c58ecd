\* The first append creates the store directory.
SPECIFICATION Spec
CONSTANTS
    Procs = {p1, p2}
    Vals = {a, b}
    None = None
    MaxLen = 2
    DirInit = "absent"
SYMMETRY Symmetric
INVARIANT Durable
