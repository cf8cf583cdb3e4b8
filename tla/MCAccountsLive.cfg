SPECIFICATION LiveSpec
CONSTANTS
    server = server
    cli = cli
    NoId = NoId
    NoUser = NoUser
    NoOne = NoOne
    NoToken = NoToken
    r1 = r1
    l1 = l1
    p1 = p1
    a1 = a1
    ann = ann
    t1 = t1
    Requests = {r1, l1, p1}
    Registrations = {r1}
    Logins = {l1}
    RoleChanges = {}
    PanelPosts = {p1}
    AdminCreates = {}
    LegacyIds = {a1}
    LegacyForms = {"mixed"}
    Names = {ann}
    Tokens = {t1}
    InitialModes = {"invite_only"}
    Procs = {server, cli}
    ProcOf <- ServerAndCli
    Faults = {"fail"}
    MaxFaults = 1
PROPERTIES
    RequestsEnd
