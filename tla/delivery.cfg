SPECIFICATION FairSpec
CONSTANTS
    Apps = {0, 1, 2}
    Hosts <- MCHosts
    Stores <- MCStores
    Certs <- MCCerts
    Automatic = "automatic"
    NoStore = "no store"
    Bits = 3
    MinPrefix = 1
    Scenarios <- AllScenarios
INVARIANTS
    PlacementIsSound
    AcceptedAddressIsUsable
    CompletedIsDelivered
    NoRepeatedWork
PROPERTIES
    ReadyIsAccepted
    RetriesDeliver
CHECK_DEADLOCK FALSE
