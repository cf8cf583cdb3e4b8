SPECIFICATION Spec
CONSTANTS
    server = server
    cli = cli
    NoId = NoId
    NoUser = NoUser
    NoOne = NoOne
    NoToken = NoToken
    l1 = l1
    k1 = k1
    a1 = a1
    ann = ann
    t1 = t1
    Requests = {l1, k1}
    Registrations = {}
    Logins = {l1}
    RoleChanges = {}
    PanelPosts = {}
    AdminCreates = {k1}
    LegacyIds = {a1}
    LegacyForms = {"mixed"}
    Names = {ann}
    Tokens = {t1}
    InitialModes = {"invite_only"}
    Procs = {server, cli}
    ProcOf <- ServerAndCli
    Faults = {}
    MaxFaults = 0
INVARIANTS
    PromotionSticks
