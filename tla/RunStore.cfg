\* Both kinds of file system: directory changes kept in order, or not.
SPECIFICATION FairSpec
CONSTANTS
    Procs = {p1, p2}
    Vals = {a, b}
    None = None
    MaxLen = 2
    DirInit = "durable"
INVARIANTS TypeOK ReadableInOrder Durable
PROPERTIES CallsReturn ImplementsRunLog
