SPECIFICATION FairSpec
CONSTANTS
    Requests = {r1, r2}
    Amounts = {0, 1, 3}
    Quotas = {2, 4}
    RefundAttempts = 3
    MaxCharged = 1
INVARIANTS
    UsedBound
PROPERTIES
    LedgerSpec
    Answered
