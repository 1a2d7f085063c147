CONSTANTS
    w1 = w1
    w2 = w2
    e1 = e1
    e2 = e2
    e3 = e3
    k1 = k1
    k2 = k2
    s1 = s1
    s2 = s2
    None = None
    Writers = {w1, w2}
    Events = {e1, e2, e3}
    KeyIds = {k1, k2}
    Secrets = {s1, s2}
    Configs <- MCConfigs
    Ids <- MCIds
    MaxEdits = 1
SYMMETRY Symmetry
SPECIFICATION Spec
INVARIANTS
    TypeOK
    VerdictIsSound
    VerdictBlamesForks
    SerialCallsChain
    LinksPointBack
PROPERTIES
    RotationKeepsVerdict
CHECK_DEADLOCK FALSE
