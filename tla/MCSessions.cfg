SPECIFICATION Spec
CONSTANTS
    b1 = b1
    NoSession = NoSession
    NoCookie = NoCookie
    NoCopy = NoCopy
    Logins = {l1}
    Visits = {v1, v2}
    Logouts = {o1}
    Browsers = {b1}
    BrowserOf <- OneBrowser
    Users = {ann}
    Kinds = {"sqlite", "memory"}
    Ttl = 1
    MaxClock = 2
    Faults = {"fail", "crash", "setback"}
    MaxFaults = 2
SYMMETRY Interchangeable
CHECK_DEADLOCK FALSE
INVARIANTS
    TypeOK
    RefusalIsFinal
    RefusedForReason
    AcceptedForReason
