CONSTANTS
    Tries = 2
    Settlements = {"accepted", "completed", "rejected"}
    None = None
SPECIFICATION Spec
INVARIANTS EffectOnce ClientAgrees
PROPERTIES ImplementsReference ClaimsEnd ClientEnds
CHECK_DEADLOCK FALSE
