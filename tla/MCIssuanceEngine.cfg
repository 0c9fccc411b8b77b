SPECIFICATION Spec
CONSTANTS
    None = None
    PidVct = PidVct
    PidDoctype = PidDoctype
    I = I
    S1 = S1
    S2 = S2
    IdSdJwt = IdSdJwt
    IdMdoc = IdMdoc
    Scope = Scope
    OtherVct = OtherVct
    Documents <- MCDocuments
    Begun <- MCBegun
    Earlier <- MCEarlier
    C1 = C1
    C2 = C2
    MaxRandom = 16
    MaxNonces <- MCMaxNonces
    MaxPops = 4
    CNonces = {C1, C2}
    Transactions = {t1, t2}
    Lifetimes <- MCLifetimes
    MaxNow = 5
    MaxAuthNow = 1
    MaxCorrections = 1
INVARIANTS SelectionIsUnique RetriesRepeatNothing CredentialMatchesPlan
PROPERTIES BudgetSuffices TerminalLatch ExpiredTokenNeverSent AnswersAreFinite
CHECK_DEADLOCK FALSE
