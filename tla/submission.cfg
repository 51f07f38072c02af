SPECIFICATION Spec
CONSTANTS
    r0 = r0
    r1 = r1
    r2 = r2
    r3 = r3
    r4 = r4
    r5 = r5
    k0 = k0
    k1 = k1
    u1 = u1
    u2 = u2
    NoKey = NoKey
    NoIpv4 = NoIpv4
    Requests = {r0, r1, r2, r3, r4, r5}
    Legacy = {r0}
    Key <- MCKey
    VmName <- MCVmName
    Ipv4 <- MCIpv4
    User <- MCUser
    Body <- MCBody
INVARIANT ReservationsAreExclusive
INVARIANT KeyCreatesOneJob
INVARIANT ReplaysAreFaithful
CHECK_DEADLOCK FALSE
