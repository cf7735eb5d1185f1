CONSTANTS
    NoDocument = NoDocument
    NoText = NoText
    Other = Other
    None = None
    Documents <- MCDocuments
    BadBody = BadBody
    NoReturn = NoReturn
    Chars <- MCChars
    Paths <- MCPaths
    Bodies <- MCBodies
    Bad = Bad
    Absent = Absent
    Whole = Whole
    Empty = ""
    Text <- MCText
    StreamUrls <- MCStreamUrls
    Length <- MCLength
    LastSlash <- MCLastSlash
    SizeWidth = 4
    Creates <- MCCreates
    Listings <- MCListings
SPECIFICATION MCSpec
INVARIANTS
    CompleteIsReady
    SignedIsPosted
    OnlyAddressedTask
    AcceptedIsDescribed
    ObjectGivenAsSent
    SessionTellsTask
PROPERTIES
    AnswerTellsEffect
    ImplementsFilesRun
CHECK_DEADLOCK FALSE
