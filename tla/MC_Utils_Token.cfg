SPECIFICATION Spec
CONSTANTS
    x1 = x1
    x2 = x2
    x3 = x3
    x4 = x4
    p1 = p1
    p2 = p2
    TokenBytes = {0, 97, 255}
    MaxToken = 3
    ListBytes = {97, 44}
    MaxList = 4
    Addrs <- MCAddrs
    AddrInfo <- MCAddrInfo
    MaxBoot = 3
    MaxStarts = 1
INVARIANT FormatTokenEncodesBasic
