SPECIFICATION Spec
CONSTANTS
    s1 = s1
    s2 = s2
    p1 = p1
    p2 = p2
    c1 = c1
    c2 = c2
    d1 = d1
    OldFile = OldFile
    None = None
    Sessions = {s1}
    Replacers = {s1}
    Puts = {p1, p2}
    Completes = {c1, c2}
    Deletes = {d1}
    PartNumbers = {1, 2}
    Sizes = {1, 2}
    Declared = {0, 2}
    Slack = 1
    Quota = 3
    OldBytes = 1
    PartAttempts = 2
    MaxInterrupts = 1
SYMMETRY RequestSymmetry
INVARIANTS
    NeverUndercharged
    OneFilePerSession
    SessionOwner
    NoAckLost
    RecordedBound
CHECK_DEADLOCK FALSE
