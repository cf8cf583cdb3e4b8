SPECIFICATION LiveSpec
CONSTANTS
    c1 = c1
    c2 = c2
    c3 = c3
    home = home
    lobby = lobby
    alice = alice
    bob = bob
    NoId = NoId
    Clients = {c1, c2}
    RoomNames = {home}
    Ids = {NoId, alice, bob}
    RoomOf <- RoomOf2
    IdOf <- IdOf2
    Addresses <- ToAlice
    SendCap = 1
    MaxMsgs = 3
PROPERTIES
    SendersServed
    PumpsEndTogether
    EvictedEventuallyGone
