SPECIFICATION ReachSpec
CONSTANTS
    d1 = d1
    d2 = d2
    d3 = d3
    f1 = f1
    a = a
    b = b
    Suffixed = Suffixed
    Root = Root
    None = None
    Folders = {d1, d2, d3}
    Files = {f1}
    Names = {a, b}
    Habits <- SafeHabits
    InFlight = 1
    MaxDepth = 3
    Guests = {u}
    u = u
    Team = Team
    Abroad = Abroad
    Permissions = {"view", "edit"}
    SharedRows = 2
    MaxGrants = 1
    l1 = l1
    g1 = g1
    g2 = g2
    p1 = p1
    p2 = p2
    NoCap = NoCap
    NoFile = NoFile
    Links = {l1}
    Loads = {g1, g2}
    Drops = {p1, p2}
    Caps = {1, NoCap}
    MaxUploads = 1
    Quota = 3
    DropSize = 2
    v1 = v1
    v2 = v2
    v3 = v3
    f2 = f2
    Viewers = {v1, v2, v3}
    UserOf <- ThreeUsers
    Watched = {f1, f2}
    MaxPending = 1
    OneAtATime = FALSE
SYMMETRY RowSymmetry
INVARIANTS
    OneOfAName
    TreeSound
    DeletableIsSafe
    LevelFollowsTree
    LimitsKept
    BooksExact
    TrashUnshares
    ViewersShown
CHECK_DEADLOCK FALSE
