CONSTANTS
    r1 = r1
    r2 = r2
    w1 = w1
    w2 = w2
    ReceiptIds = {r1}
    Gross <- OneGross
    Net <- OneNet
    Workers = {w1, w2}
    LastMonth = 1
    Lead = 0
    Ops = {"create", "pay", "revert", "void", "uiClose", "close", "reopen", "bootstrap", "crash"}
SPECIFICATION Spec
SYMMETRY Worker2
INVARIANTS
    TypeOK
    BooksBalance
    CashMovesOnce
    ReversalsUndoOneBatch
PROPERTY ImplementsLifecycle
