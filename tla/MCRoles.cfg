SPECIFICATION Spec
CONSTANTS
    server = server
    cli = cli
    NoId = NoId
    NoUser = NoUser
    NoOne = NoOne
    NoToken = NoToken
    r1 = r1
    l1 = l1
    d1 = d1
    a1 = a1
    a2 = a2
    ann = ann
    bob = bob
    t1 = t1
    Requests = {r1, l1, d1}
    Registrations = {r1}
    Logins = {l1}
    RoleChanges = {d1}
    PanelPosts = {}
    AdminCreates = {}
    LegacyIds = {a1, a2}
    LegacyForms = {"mixed"}
    Names = {ann, bob}
    Tokens = {t1}
    InitialModes = {"open"}
    Procs = {server, cli}
    ProcOf <- ServerAndCli
    Faults = {"fail"}
    MaxFaults = 1
SYMMETRY Interchangeable
PROPERTIES
    RolesOnlyByUpdateRole
    AdminRemains
    SessionForOwner
