SPECIFICATION OneStartSpec
CONSTANTS
    server = server
    cli = cli
    NoId = NoId
    NoUser = NoUser
    NoOne = NoOne
    NoToken = NoToken
    r1 = r1
    r2 = r2
    l1 = l1
    d1 = d1
    a1 = a1
    ann = ann
    bob = bob
    cat = cat
    t1 = t1
    Requests = {r1, r2, l1, d1}
    Registrations = {r1, r2}
    Logins = {l1}
    RoleChanges = {d1}
    PanelPosts = {}
    AdminCreates = {}
    LegacyIds = {a1}
    LegacyForms = {"lower"}
    Names = {ann, bob, cat}
    Tokens = {t1}
    InitialModes = {"open", "invite_only"}
    Procs = {server, cli}
    ProcOf <- ServerAndCli
    Faults = {}
    MaxFaults = 0
SYMMETRY Interchangeable
INVARIANTS
    TypeOK
    IndexAgrees
    InviteBacked
    LookupFinds
PROPERTIES
    ImplementsMemoryStore
