SPECIFICATION Spec
CONSTANTS
    Addrs = {}
    Asks <- NoAsks
    Latencies = {1}
    MaxAddrs = 0
    MaxPrices = {1}
    PieceSizes = {1}
    RFs = {0}
    Heights = {0, 1, 2}
    DurationSecs = {0, 29, 30, 95}
    StartEpochs <- MCStartEpochs
    Periods = {3, 4}
    PeriodStarts <- MCPeriodStarts
INVARIANT DealEndsOnProvingBoundary
