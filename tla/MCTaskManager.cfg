CONSTANTS
    k1 = k1
    k2 = k2
    k3 = k3
    i1 = i1
    i2 = i2
    Null = Null
    Tasks <- MCTasks
    TaskIds <- MCTaskIds
    IdOf <- MCIdOf
    HttpThreads = {h1, h2}
    CbThreads = {t1, t2}
SPECIFICATION TMSpec
INVARIANTS
    TMInv
PROPERTIES
    NoOverwrite
    EndsOnce
    ImplementsRegistry
SYMMETRY ThreadSymmetry
