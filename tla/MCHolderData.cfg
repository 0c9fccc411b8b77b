CONSTANTS
    Scenes <- MCScenes
    Catalogue <- MCCatalogue
    TextBytes <- MCTextBytes
    PidTypes = {"pid", "pid-mdoc"}
    EvidenceTypes = {"proof"}
    HybridTypes = {"pid-mdoc"}
    MalformedKeys = {"short"}
    AnyPolicy = "any"
    MAX_SUPPLIED_CERTIFICATES = 4
    MAX_TRUST_ANCHORS = 4
    MAX_ISSUER_CANDIDATES = 3
    MAX_PATH_BUILD_STEPS = 12
    MAX_NESTING_DEPTH = 4
    MAX_EMBEDDED_DIGESTS = 8
    IAT_CLOCK_SKEW_SECONDS = 2
    MAX_CREDENTIAL_QUERIES = 3
    MAX_CLAIMS_PER_QUERY = 3
    MAX_SETS = 2
    MAX_OPTIONS = 3
    MAX_PATH_DEPTH = 3
    MAX_STATUS_AGE_SECONDS = 20
    DEFAULT_CACHE_TTL_SECONDS = 5
    CLOCK_SKEW_SECONDS = 2
    MAX_PRESENTATIONS_PER_DCQL_QUERY = 2
    MAX_STATUS_LISTS_PER_PRESENTATION = 2
    MAX_CACHED_STATUS_LISTS = 2
    MAX_CREDENTIALS = 3
    MAX_RAW_CREDENTIAL_BYTES = 4
    MAX_CERTIFICATES_PER_PATH = 4
    MAX_CREDENTIAL_EVIDENCE_BYTES = 12
    MAX_REPLAY_VALUES = 2
    MAX_STRUCTURAL_NODES = 200
    MAX_ENTRIES = 3
    MAX_COUNTERPARTY_BYTES = 4
    MAX_CLAIM_PATHS_PER_ENTRY = 2
    MAX_CLAIM_PATH_BYTES = 3
    MAX_PAYMENT_PAYEE_BYTES = 4
    MAX_ENTRY_BYTES = 14
    MAX_AGGREGATE_BYTES = 30
    ACCOUNTED_ENTRY_FIXED_BYTES = 5
    LENGTH_BYTES = 1
    NonCanonicalTexts = {5}
    Currencies = {3}
    MaxGeneration = 2

SPECIFICATION Spec
CHECK_DEADLOCK FALSE

INVARIANTS
    CurrentMeansTrusted
    PathIsUnambiguous
    ConsentShowsWhatIsSent
    DisclosesExactlyTheRequest
    PlanIsSmallest
    ExpiryIsExact
    AdmittedCanRecord
    
    ExportRestores
    ExportAvailable
PROPERTIES
    ConsentOnFreshStatus
    DurableNeverForgets
