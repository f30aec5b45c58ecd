\* Others change HEAD, the index and files while a repository is captured.
SPECIFICATION Spec
CONSTANTS
    Order <- Order3
    Commits = {"c1", "c2"}
    Tree <- Tree3
    Base = "c0"
    Ignore = ".gitignore"
    Hides <- HidesF
    Contents <- Contents3
    Starts <- Starts3
    Edits = 3
    None = None
    Unread = Unread
INVARIANTS TypeOK PacketIsSnapshot CheckSawReviewed QuietRefused
CHECK_DEADLOCK FALSE
