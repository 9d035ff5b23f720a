CONSTANTS
    x1 = x1  x2 = x2  c1 = c1  c2 = c2  r1 = r1  r2 = r2
    None = None
    Uuids = {"op1", "op2"}
    Levels = {"L1", "L2"}
    Holders <- MCHolders
    Second = 2
    MaxWindow = 1
    Skew = 1
    Clients = {x1, x2}
    AgentOf <- MCAgentOf
    PinOf <- MCPinOf
    Inputs <- MCInputs
    Tokens = {c1, c2}
    IssuerOf <- MCIssuerOf
    Origin <- MCOrigin
    Operations <- MCOperations
    Altered <- MCAltered
    MaxAge = 2
    TTL = 3
    Drifts <- MCDrifts
    Standings = {1}
    MaxNow = 5
    Asked <- MCAsked
SPECIFICATION Spec
INVARIANTS SigningInv SignedIsAccepted
PROPERTIES VerifiedIsCurrent LeavesUsable
CHECK_DEADLOCK FALSE
