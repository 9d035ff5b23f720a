CONSTANTS
    c1 = c1  c2 = c2  r1 = r1  r2 = r2  d1 = d1  d2 = d2  d3 = d3
    None = None
    Tokens = {c1, c2}
    Receivers = {r1, r2}
    Deliveries = {d1, d2}
    Requests <- MCRequests
    TTL = 2
    MaxLive = 1
    MaxWindow = 2
    Skew = 1
    MaxNow = 5
SPECIFICATION Spec
SYMMETRY Symmetry
INVARIANTS PresentationInv OncePerChallenge
PROPERTIES VerifiedNow OnlyGenuineConsumes RefusedAtLimit
CHECK_DEADLOCK FALSE
