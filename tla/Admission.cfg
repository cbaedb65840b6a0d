SPECIFICATION AdmSpec
CONSTANTS
    c1 = c1
    c2 = c2
    g1 = g1
    g2 = g2
    g3 = g3
    g4 = g4
    ip1 = ip1
    ip2 = ip2
    ip3 = ip3
    Contents <- MCContents
    Bad = Bad
    Absent = Absent
    Defaults = Defaults
    MaxWrites = 3
    MaxRestarts = 1
    Conns <- MCConns
    Ips <- MCIps
    IpOf <- MCIpOf
    BannedBy <- MCBannedBy
    MaxTotal = 2
    MaxPerIp = 1
INVARIANTS
    StampedIsCurrent
    NeverFailsOpen
    SlotsAreSessions
PROPERTIES
    CatchesUp
    BanTakesEffect
