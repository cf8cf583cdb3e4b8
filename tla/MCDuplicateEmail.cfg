SPECIFICATION Spec
CONSTANTS
    server = server
    cli = cli
    NoId = NoId
    NoUser = NoUser
    NoOne = NoOne
    NoToken = NoToken
    r1 = r1
    a1 = a1
    ann = ann
    t1 = t1
    Requests = {r1}
    Registrations = {r1}
    Logins = {}
    RoleChanges = {}
    PanelPosts = {}
    AdminCreates = {}
    LegacyIds = {a1}
    LegacyForms = {"mixed"}
    Names = {ann}
    Tokens = {t1}
    InitialModes = {"open"}
    Procs = {server, cli}
    ProcOf <- ServerAndCli
    Faults = {}
    MaxFaults = 0
INVARIANTS
    NoDuplicateEmail
