CONSTANTS
    dir = dir
    stream = stream
    i1 = i1
    i2 = i2
    Null = Null
    Tasks <- MCTasks
    TaskIds <- OneId
    IdOf <- SharedId
    HttpThreads = {h1, h2}
    CbThreads = {t1, t2}
    FileTasks = {dir}
    DirTasks = {dir}
    MaxFiles = 2
    RerunMayFail = FALSE
    EarlyEnd = FALSE
SPECIFICATION Spec
INVARIANTS
    DeleteFindsTask
SYMMETRY ThreadSymmetry
CHECK_DEADLOCK FALSE
