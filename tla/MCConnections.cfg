SPECIFICATION MCSpec
CONSTANTS
    c1 = c1
    c2 = c2
    h1 = h1
    h2 = h2
    Conns = {c1, c2}
    Probes = {c2}
    Engine <- MCEngine
    Via <- MCVia
    Hosts = {h1, h2}
    Keys = {k1, k2}
    Commands = {u1}
    Nil = Nil
    MaxKeyChanges = 1
    Loaders = {l1, l2}
    Rows <- TableRows
    PageSize = 1
    MaxPage = 2
    MaxLoads = 2
    MaxVersion = 1
    MaxCursors = 2
    None = None
    Callers = {w1, w2}
    Ids = {i1, i2, i3, i4, i5}
    Secrets = {s1, s2}
    Redacted = Redacted
    MaxCommands = 2
    Tasks = {t1, t2}
INVARIANTS
    ConnectionsKept
    PagesTrue
PROPERTIES
    FilesKept
    EndsReached
CHECK_DEADLOCK FALSE
