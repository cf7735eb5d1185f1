CONSTANTS
    k1 = k1
    k2 = k2
    i1 = i1
    Null = Null
    Tasks <- MCTasks
    TaskIds <- MCTaskIds
    IdOf <- MCIdOf
    HttpThreads = {h1, h2}
    CbThreads = {}
    FileTasks = {k1}
    DirTasks = {k1}
    MaxNext = 1
SPECIFICATION FairSpec
INVARIANTS
    ServedWhenReady
    NothingLeft
    FailedIsQuiet
PROPERTIES
    ShutdownEnds
CHECK_DEADLOCK FALSE
