SPECIFICATION KeptSpec
CONSTANTS
    s1 = s1
    s2 = s2
    p1 = p1
    p2 = p2
    c1 = c1
    c2 = c2
    d1 = d1
    OldFile = OldFile
    None = None
    Sessions = {s1}
    Replacers = {s1}
    Puts = {p1}
    Completes = {c1}
    Deletes = {d1}
    PartNumbers = {1, 2}
    Sizes = {1, 2}
    Declared = {0, 2}
    Slack = 1
    Quota = 3
    OldBytes = 1
    PartAttempts = 2
    MaxInterrupts = 1
    e1 = e1
    e2 = e2
    x1 = x1
    x2 = x2
    Editors = {e1, e2}
    Edits = {x1, x2}
    Rank <- Ranks
    By <- Typists
    NoText = NoText
    Calm = FALSE
    MaxDrops = 1
    MaxRefusals = 1
    MaxSaving = 2
SYMMETRY RequestSymmetry
INVARIANTS
    UneditedKept
CHECK_DEADLOCK FALSE
