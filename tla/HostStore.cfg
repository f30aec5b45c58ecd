\* Two commands over one run: both stores, both locks, crashes anywhere.
SPECIFICATION FairSpec
CONSTANTS
    Procs = {p1, p2}
    Vals = {a}
    None = None
    MaxLen = 2
    MaxCore = 1
INVARIANTS TypeOK CrashSafe HostNamesCore
PROPERTIES CommandsReturn ImplementsRunLog
