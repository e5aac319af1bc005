SPECIFICATION Spec
CONSTANTS
    a = a
    b = b
    c = c
    Nodes <- MCNodes
    DealIDs = {1, 2}
    Retrieves <- EachOther
INVARIANT ChannelUsesOwnDealStore
\* Runs end once every deal id is used and every channel configured.
CHECK_DEADLOCK FALSE
