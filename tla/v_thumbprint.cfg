SPECIFICATION FairSpec
CONSTANTS
    Apps = {0, 1, 2}
    Hosts <- MCHosts
    Stores <- MCStores
    Certs <- MCCerts
    Automatic = "automatic"
    NoStore = "no store"
    Bits = 3
    MinPrefix = 1
    Scenarios <- OnWindows
PROPERTY
    CertificatesAreRecognised
CHECK_DEADLOCK FALSE
