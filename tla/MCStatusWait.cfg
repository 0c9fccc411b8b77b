SPECIFICATION Spec
CONSTANTS
    None = None
    r1 = r1  r2 = r2  r3 = r3  n1 = n1  n2 = n2  c1 = c1  c2 = c2  u1 = u1  u2 = u2
    Requests = {r1}
    NonceOf <- MCNonceOf
    GrantOf <- MCGrantOf
    Unrecordable = {}
    Unencryptable = {}
    MaxLog = 1
    MaxPendingOperations = 8
    Credentials = {c1, c2}
    InitiallyHeld = {c1, c2}
    ExpiresAt <- NoneExpires
    StatusUri <- TwoLists
    TrustLists <- StableTrust
    StatusLists <- ValidLists
    WuaUntil = 4
    Flows = {"Presentation"}
    MaxClock = 3
    MaxSessions = 1
INVARIANT
    StatusWaitIsInFlight
