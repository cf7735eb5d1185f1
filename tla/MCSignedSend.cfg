CONSTANTS
    Retries = 10
    RSASizes <- MCRSASizes
    TextSizes <- MCTextSizes
SPECIFICATION FairSendSpec
INVARIANTS
    RetryInv
    BufferHolds
PROPERTIES
    SendReturns
    ImplementsCall
CHECK_DEADLOCK FALSE
