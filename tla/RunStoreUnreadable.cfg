\* As RunStore.cfg, without the condition on the order of directory changes.
SPECIFICATION Spec
CONSTANTS
    Procs = {p1, p2}
    Vals = {a, b}
    None = None
    MaxLen = 2
    DirInit = "durable"
SYMMETRY Symmetric
INVARIANT Readable
