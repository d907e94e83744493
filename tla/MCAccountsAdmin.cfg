SPECIFICATION Spec
CONSTANTS
    me = me
    adm = adm
    r1 = r1
    r2 = r2
    t1 = t1
    t2 = t2
    s1 = s1
    s2 = s2
    k1 = k1
    c1 = c1
    c2 = c2
    None = None
    Users = {me, adm}
    Me = me
    First = adm
    Requests = {r1}
    Tokens = {t1}
    Sessions = {s1}
    Keys = {k1}
    Batches <- OneBatch
    MaxKeys = 1
    Attempts = 2
    MaxChanges = 0
    Changes = {"promote", "demote", "ban", "unban"}
INVARIANT SomeoneAdministers
CHECK_DEADLOCK FALSE
