CONSTANTS
    k1 = k1  k2 = k2  a1 = a1  a2 = a2
    None = None
    Profiles <- MCProfiles
    Keys = {"key1", "key2"}
    ClockSkew = 0
    MaxListValidity = 2
    MinListEntries = 1
    Attempts = {a1, a2}
    OperationOf <- MCOperationOf
    SenderOf <- MCSenderOf
    Instances = {k1, k2}
    First = k1
    ReceiverDid = "did:bank"
    Document <- MCDocument
    SignerOf <- MCSignerOf
    Retained <- MCRetained
    ListUrls = {"list1", "list2"}
    ListOf <- MCListOf
    Lengths = {1}
    AlteredOf <- MCAlteredOf
    AlteredList <- MCAlteredList
    HttpStatus = {200, 202, 409, 403}
    ReceiverCodes = {"bank.closed"}
    ReceiptIds <- MCReceiptIds
    RefusalCodes = {"aria.idempotency_conflict", "bank.closed"}
    Renewals <- MCRenewals
    Revocable = {k1}
    MaxNow = 1
    MaxLists = 1
SPECIFICATION Spec
SYMMETRY MCSymmetry
INVARIANTS ReceiptsInv SignedIsAccepted HistoryAgrees FindingsTrue VerifiedIsIssued
CHECK_DEADLOCK FALSE
