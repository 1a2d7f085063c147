CONSTANTS
    b1 = b1
    b2 = b2
    b3 = b3
    jan = jan
    quarter = quarter
    x1 = x1
    x2 = x2
    x3 = x3
    None = None
    Batches = {b1, b2, b3}
    Windows = {jan, quarter}
    BatchesIn <- MCBatchesIn
    Runs = {x1, x2, x3}
SPECIFICATION FairSpec
INVARIANTS
    TypeOK
    RecordsAgree
    PickedIsFree
PROPERTIES
    EveryBatchHandedOver
    ImplementsHandover
CHECK_DEADLOCK FALSE
