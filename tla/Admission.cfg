CONSTANTS
    k1 = k1  k2 = k2  f1 = f1  x1 = x1
    None = None
    Credentials = {k1, k2}
    ValidFrom <- MCValidFrom
    ValidUntil <- MCValidUntil
    Fetches = {f1}
    Attempts = {x1}
    Inputs <- MCInputs
    Level <- MCLevel
    Scopes <- MCScopes
    HitlRequired <- MCHitlRequired
    Delegated <- MCDelegated
    ListValidities = {2, 4}
    MaxListValidity = 3
    StatusMaxAge = 2
    OnlineMaxAge = 1
    Skew = 1
    Timeout = 1
    MaxNow = 6
SPECIFICATION Spec
INVARIANTS AdmissionInv
PROPERTIES GrantedByEveryRule WithdrawalTakesEffect RefusalIsTrue LapsesForGood
CHECK_DEADLOCK FALSE
