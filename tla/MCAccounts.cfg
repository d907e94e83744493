SPECIFICATION Spec
CONSTANTS
    me = me
    adm = adm
    r1 = r1
    r2 = r2
    t1 = t1
    t2 = t2
    s1 = s1
    s2 = s2
    k1 = k1
    c1 = c1
    c2 = c2
    None = None
    Users = {me, adm}
    Me = me
    First = adm
    Requests = {r1, r2}
    Tokens = {t1, t2}
    Sessions = {s1, s2}
    Keys = {k1}
    Batches <- OneBatch
    MaxKeys = 1
    Attempts = 2
    MaxChanges = 2
    Changes = {"demote", "password", "delete"}
SYMMETRY RowSymmetry
INVARIANTS
    OlderWaysClosed
    SpentOnce
CHECK_DEADLOCK FALSE
