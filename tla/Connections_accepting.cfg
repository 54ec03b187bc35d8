CONSTANTS
    Peers = {p1, p2}
    NoPeer = NoPeer
    MaxMessages = 2
    MaxPosted = 1
SPECIFICATION FairSpec
INVARIANTS
    CallbacksFindTheirSession
    FoundByItsId
    SentToAddressees
PROPERTIES
    KeepsAccepting
CHECK_DEADLOCK FALSE
