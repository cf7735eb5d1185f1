CONSTANTS
    dir = dir
    stream = stream
    i1 = i1
    i2 = i2
    Null = Null
    Tasks <- MCTasks
    TaskIds <- MCTaskIds
    IdOf <- OwnIds
    HttpThreads = {h1}
    CbThreads = {t1, t2}
    FileTasks = {dir}
    DirTasks = {dir}
    MaxFiles = 2
    RerunMayFail = FALSE
    EarlyEnd = TRUE
SPECIFICATION FairSpec
PROPERTIES
    FileTaskEnds
CHECK_DEADLOCK FALSE
