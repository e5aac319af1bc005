CONSTANTS
    a = a
    b = b
    c = c
    q1 = q1
    q2 = q2
    d1 = d1
    d2 = d2
    d3 = d3
    Nodes <- MCNodes
    CIDs <- MCCIDs
    Dispatches <- MCDispatchesCore
    Owner <- MCOwner
    Payload <- MCPayload
    RegionsOf <- MCRegionsOf
    Conns <- MCConnsCore
    InitIndex <- MCInitIndex
    MaxReceiverCount = 1
    MaxStoreId = 4
    CallerMayClose = TRUE
    RemoveTargets <- MCRemove

SPECIFICATION Spec
INVARIANT TypeOK
INVARIANT InvitedPullsAccepted
\* Runs end once every dispatch has returned and every transfer has ended,
\* or with a publication blocked on a closed Response.
CHECK_DEADLOCK FALSE
