CONSTANTS
    a = a
    b = b
    c = c
    q1 = q1
    q2 = q2
    d1 = d1
    d2 = d2
    d3 = d3
    Nodes <- MCNodes
    CIDs <- MCCIDs
    Dispatches <- MCDispatches
    Owner <- MCOwner
    Payload <- MCPayload
    RegionsOf <- MCRegionsOf
    Conns <- MCConns
    InitIndex <- MCInitIndex
    MaxReceiverCount = 1
    MaxStoreId = 4
    CallerMayClose = TRUE
    RemoveTargets <- MCNoRemove

SPECIFICATION Spec
PROPERTY EventsDelivered
CHECK_DEADLOCK FALSE
