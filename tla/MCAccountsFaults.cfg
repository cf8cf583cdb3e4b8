SPECIFICATION Spec
CONSTANTS
    server = server
    cli = cli
    NoId = NoId
    NoUser = NoUser
    NoOne = NoOne
    NoToken = NoToken
    r1 = r1
    r2 = r2
    k1 = k1
    a1 = a1
    ann = ann
    bob = bob
    t1 = t1
    Requests = {r1, r2, k1}
    Registrations = {r1, r2}
    Logins = {}
    RoleChanges = {}
    PanelPosts = {}
    AdminCreates = {k1}
    LegacyIds = {a1}
    LegacyForms = {"mixed"}
    Names = {ann, bob}
    Tokens = {t1}
    InitialModes = {"invite_only"}
    Procs = {server, cli}
    ProcOf <- ServerAndCli
    Faults = {"fail", "crash"}
    MaxFaults = 2
SYMMETRY Interchangeable
INVARIANTS
    IndexNeverLies
    InviteNeverWasted
