SPECIFICATION Spec
CONSTANTS
    s1 = s1
    s2 = s2
    p1 = p1
    c1 = c1
    d1 = d1
    OldFile = OldFile
    None = None
    Sessions = {s1}
    Replacers = {}
    Puts = {p1}
    Completes = {c1}
    Deletes = {d1}
    PartNumbers = {1}
    Sizes = {1}
    Declared = {1}
    Slack = 0
    Quota = 2
    OldBytes = 1
    PartAttempts = 2
    MaxInterrupts = 0
SYMMETRY RequestSymmetry
INVARIANTS
    AbortSparesClaimed
CHECK_DEADLOCK FALSE
