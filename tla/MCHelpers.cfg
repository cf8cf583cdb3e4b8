SPECIFICATION Spec
CONSTANTS
    Tags = {"div"}
    Words = {"/u"}
    Keys = {"k"}
    Urls = {"/u", "x:u"}
    Local = {"/u"}
    Root = "root"
    MaxNodes = 3
    MaxList = 2
    MaxName = 5
    MaxPath = 7
    Hour = 5
    MaxInt = 127
    MaxHours = 120
CHECK_DEADLOCK FALSE
INVARIANTS
    ListsLeaveNoTrace
    RootReachesAll
    OnlyEmptyDisappears
    AcceptsExactlyInside
    StoredPathTaken
    NameAndExtensionKept
    TtlHonoured
