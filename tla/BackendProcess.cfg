SPECIFICATION FairSpec
CONSTANTS
    Procs = {p1, p2}
    Shells = {s1, s2}
    Nobody = Nobody
    Old = Old
    New = New
    None = None
    Partial = Partial
    Retries = 1
INVARIANTS TypeOK SavedIsInstalled NeverLost HolderListens
PROPERTIES Serves
