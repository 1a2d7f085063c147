CONSTANTS
    u1 = u1
    admin = admin
    wA = wA
    wB = wB
    t1 = t1
    t2 = t2
    c1 = c1
    c2 = c2
    c3 = c3
    c4 = c4
    k1 = k1
    k2 = k2
    n1 = n1
    n2 = n2
    None = None
    Users = {u1, admin}
    Admins = {admin}
    Workers = {wA, wB}
    Keys <- MCKeys
    MaxRequests = 4
    Threads = {t1, t2}
    Comments = {c1, c2, c3, c4}
    Voters = {u1}
    MaxSolutions = 2
    Tickets = {k1, k2}
    Notes = {n1, n2}
    Priorities = {"normal", "urgent"}
SYMMETRY Symmetry
SPECIFICATION MCSpec
INVARIANTS
    TypeOK
    SolutionsBounded
    SolutionMeansSolved
    DeletionLabel
    ClosedAtMatchesStatus
    AuthorsSeeTheirNotes
PROPERTIES
    DeletionIsFinal
    DeletedThreadsAreFrozen
CHECK_DEADLOCK FALSE
