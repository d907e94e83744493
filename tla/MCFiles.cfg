SPECIFICATION MediaSpec
CONSTANTS
    f1 = f1
    f2 = f2
    m1 = m1
    u1 = u1
    u3 = u3
    u2 = u2
    s1 = s1
    s2 = s2
    o1 = o1
    h1 = h1
    h2 = h2
    e1 = e1
    w1 = w1
    x1 = x1
    x2 = x2
    n1 = n1
    n2 = n2
    n3 = n3
    n4 = n4
    v1 = v1
    v3 = v3
    None = None
    Files = {f1, f2, m1, n1, n2, n3, n4, v1, v3}
    Fresh = {n1, n2, n3, n4, v1, v3}
    Kind <- Kinds
    VttSize = 1
    MaxHops = 1
    Videos = {m1, n3}
    Sibling <- Subtitled
    Remuxes = {x1, x2}
    MinHls = 1
    Overlap = FALSE
    Uploads = {u1, u2, u3}
    Saves = {s1, s2}
    Overwrites = {o1}
    HardDeletes = {h1, h2}
    Empties = {e1}
    Sweeps = {w1}
    Workloads <- PassingWorkloads
    Targets <- Names
    Sizes = {1, 2, 4}
    History <- History2
    Quota = 7
    SaveAttempts = 2
    MaxFailures = 1
INVARIANTS
    BooksMatch
    AckedSaveKept
    CurrentIsNewest
    ObjectsMatch
    DerivedCurrent
PROPERTIES
    QueueServed
CHECK_DEADLOCK FALSE
