SPECIFICATION Spec
CONSTANTS
    None = None
    r1 = r1  r2 = r2  r3 = r3  n1 = n1  n2 = n2  c1 = c1  c2 = c2  u1 = u1  u2 = u2
    Requests = {r1, r2}
    NonceOf <- MCNonceOf
    GrantOf <- MCGrantOf
    Unrecordable = {}
    Unencryptable = {r2}
    MaxLog = 2
    MaxPendingOperations = 2
    Credentials = {c1, c2}
    InitiallyHeld = {c1}
    ExpiresAt <- OneExpires
    StatusUri <- TwoLists
    TrustLists <- ChangingTrust
    StatusLists <- MCStatusLists
    WuaUntil = 3
    Flows = {"Presentation", "Issuance"}
    MaxClock = 3
    MaxSessions = 2
INVARIANTS
    DisclosedOnCurrentEvidence
    OneCallbackPerPhase
