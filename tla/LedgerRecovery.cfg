CONSTANTS
    a1 = a1  a2 = a2  a3 = a3  w1 = w1  w2 = w2  s1 = s1  f1 = f1  f2 = f2
    None = None
    Attempts = {a1, a2, a3}
    Workers = {w1}
    Supervisors = {s1}
    Lapsing = {a2}
    Settlements = {"accepted", "rejected"}
    Fingerprints = {f1, f2}
    Fingerprint <- MCFingerprint
SPECIFICATION Spec
SYMMETRY WorkerSymmetry
INVARIANTS LedgerInv AnswersAgree
PROPERTIES FinalIsFinal
CHECK_DEADLOCK FALSE
