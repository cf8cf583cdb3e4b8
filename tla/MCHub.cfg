SPECIFICATION Spec
CONSTANTS
    c1 = c1
    c2 = c2
    c3 = c3
    home = home
    lobby = lobby
    alice = alice
    bob = bob
    NoId = NoId
    Clients = {c1, c2, c3}
    RoomNames = {home, lobby}
    Ids = {NoId, alice, bob}
    RoomOf <- RoomOf3
    IdOf <- IdOf3
    Addresses <- ToTwo
    SendCap = 1
    MaxMsgs = 3
SYMMETRY Tabs
INVARIANTS
    TypeOK
    NoSendOnClosed
    NothingLostInside
    NeighboursAgree
    CleanEndDeliversAll
PROPERTIES
    ImplementsRoomFeed
    EmptyRoomOnlyByEviction
    AfterCloseOnlyDrain
