CONSTANTS
    a1 = a1  a2 = a2  b1 = b1  op1 = op1  op2 = op2  k1 = k1  k2 = k2  o1 = o1  o2 = o2
    None = None
    Operation = op1
    OperationOf <- MCOperationOf
    ReceiverOf <- MCReceiverOf
    Attempts = {a1}
    Signed <- SharedId
    Observers = {o1}
    Histories <- MCHistories
SPECIFICATION Spec
INVARIANTS EquivocationIsTold
