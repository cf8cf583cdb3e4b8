SPECIFICATION Spec
CONSTANTS
    server = server
    cli = cli
    NoId = NoId
    NoUser = NoUser
    NoOne = NoOne
    NoToken = NoToken
    d1 = d1
    d2 = d2
    a1 = a1
    a2 = a2
    ann = ann
    bob = bob
    t1 = t1
    Requests = {d1, d2}
    Registrations = {}
    Logins = {}
    RoleChanges = {d1, d2}
    PanelPosts = {}
    AdminCreates = {}
    LegacyIds = {a1, a2}
    LegacyForms = {"lower"}
    Names = {ann, bob}
    Tokens = {t1}
    InitialModes = {"invite_only"}
    Procs = {server, cli}
    ProcOf <- ServerAndCli
    Faults = {}
    MaxFaults = 0
PROPERTIES
    AdminRemains
