CONSTANTS
    c1 = c1  c2 = c2  c0 = c0
    None = None
    Credentials = {c1, c2, c0}
    Document <- MCDocument
    DocumentsOf <- MCDocumentsOf
    ListOf <- MCListOf
    AlteredList <- MCAlteredList
    ListUrls = {"list", "other"}
    Lengths = {2, 3}
    RegistryKeys <- MCRegistryKeys
    Policies <- MCPolicies
    Drifts <- MCDrifts
    FIFTEEN_MINUTES_MS = 0
    ONE_HOUR_MS = 1
    TWENTY_FOUR_HOURS_MS = 2
    REQUEST_TIMEOUT_MS = 0
    CLOCK_SKEW_MS = 0
    MAX_LIST_VALIDITY_MS = 2
    First = {c0, c1}
    Revocable = {c1, c2}
    Start = 2
    MaxNow = 4
SPECIFICATION Spec
INVARIANTS OfflineInv ActiveIsRecent PolicyIsFresh
PROPERTIES CheckEnds
