CONSTANTS
    k1 = k1
    k2 = k2
    i1 = i1
    Null = Null
    Tasks <- MCTasks
    TaskIds <- MCTaskIds
    IdOf <- MCIdOf
    HttpThreads = {h1}
    CbThreads = {t1}
    Lossy = TRUE
    Periodic = TRUE
SPECIFICATION FairSpec
PROPERTIES
    ViewConverges
