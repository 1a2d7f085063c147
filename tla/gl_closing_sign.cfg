CONSTANTS
    r1 = r1
    r2 = r2
    w1 = w1
    w2 = w2
    ReceiptIds = {r1}
    Gross <- OneGross
    Net <- OneNet
    Workers = {w1}
    LastMonth = 2
    Lead = 0
    Ops = {"create", "pay", "uiClose"}
SPECIFICATION Spec
INVARIANT ClosedIncomeIsZero
