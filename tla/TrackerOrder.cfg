CONSTANTS
    a1 = a1  a2 = a2  b1 = b1  op1 = op1  op2 = op2  k1 = k1  k2 = k2  o1 = o1  o2 = o2
    None = None
    Operation = op1
    OperationOf <- MCOperationOf
    ReceiverOf <- MCReceiverOf
    Attempts = {a1, a2, b1}
    Signed <- Receipts
    Observers = {o1, o2}
    Histories <- MCHistories
SPECIFICATION FairSpec
INVARIANTS EvidenceIsBound StateIsTheEvidence
PROPERTIES NeverMovesBack DeliveredIsKept
