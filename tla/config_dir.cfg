SPECIFICATION Spec
CONSTANTS
    Clients = {c1, c2}
    Terminals = {c1, c2}
    Pids = {1, 2, 3, 4}
    Known <- MCKnown
    Fallback = 1
    Taken = {}
    Wanted = {0}
    Prefs = {"unset"}
    MaxOps = 3
    Ids = {"azure", "ollama"}
    Catalog <- MCCatalog
    Secrets = {"k1"}
    Urls = {"own"}
    Templates = {"template"}
    Environment <- MCEnvironment
    Requests = {"r1", "r2"}
SYMMETRY TwoTerminals
INVARIANTS
    ServersFindable
    EntriesKept
    CheckedMeansAccepted
    PageTellsTruth
CHECK_DEADLOCK FALSE
