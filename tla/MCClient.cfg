SPECIFICATION WaySpec
CONSTANTS
    i1 = i1
    i2 = i2
    e1 = e1
    p1 = p1
    p2 = p2
    Nothing = Nothing
    Items = {i1, i2}
    Entries = {e1}
    Pages = {p1, p2}
    Total = 2
    Lossy = {"info", "init", "part", "complete"}
    MaxFaults = 3
    QueueFaults = 1
INVARIANTS
    UploadedOnce
    AsksWhole
PROPERTIES
    QueueDrains
CHECK_DEADLOCK FALSE
