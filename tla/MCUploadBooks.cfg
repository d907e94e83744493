SPECIFICATION KeptSpec
CONSTANTS
    s1 = s1
    s2 = s2
    p1 = p1
    p2 = p2
    c1 = c1
    c2 = c2
    OldFile = OldFile
    None = None
    Sessions = {s1, s2}
    Replacers = {s1}
    Puts = {p1, p2}
    Completes = {c1, c2}
    Deletes = {}
    PartNumbers = {1, 2}
    Sizes = {1}
    Declared = {0, 2}
    Slack = 1
    Quota = 3
    OldBytes = 2
    PartAttempts = 2
    MaxInterrupts = 0
    e1 = e1
    e2 = e2
    x1 = x1
    x2 = x2
    Editors = {e1, e2}
    Edits = {x1, x2}
    Rank <- Ranks
    By <- Typists
    NoText = NoText
    Calm = TRUE
    MaxDrops = 1
    MaxRefusals = 1
    MaxSaving = 2
SYMMETRY RequestSymmetry
INVARIANTS
    ExactBooks
    QuotaHolds
    FileStored
    NoEditLost
CHECK_DEADLOCK FALSE
