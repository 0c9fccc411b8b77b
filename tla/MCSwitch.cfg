SPECIFICATION FairSpec
CONSTANTS
    None = None
    r1 = r1  r2 = r2  r3 = r3  n1 = n1  n2 = n2  c1 = c1  c2 = c2  u1 = u1  u2 = u2
    Requests = {r1, r2}
    NonceOf <- DistinctNonces
    GrantOf <- PreAuthorizedGrantOf
    Unrecordable = {r2}
    Unencryptable = {}
    MaxLog = 1
    MaxPendingOperations = 8
    Credentials = {c1}
    InitiallyHeld = {c1}
    ExpiresAt <- NoneExpires
    StatusUri <- NoLists
    TrustLists <- StableTrust
    StatusLists <- ValidLists
    WuaUntil = 3
    Flows = {"Presentation", "Payment", "Issuance", "Qes", "WalletTransfer", "Proximity", "DcApi"}
    MaxClock = 2
    MaxSessions = 2
INVARIANTS
    AuditNeverFaults
    NothingUnapproved
    OneFlowAtATime
    LogIsHistory
PROPERTIES
    NoncesSpentOnce
    FlowsEnd
