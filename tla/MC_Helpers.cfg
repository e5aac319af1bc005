SPECIFICATION Spec
CONSTANTS
    x1 = x1
    x2 = x2
    x3 = x3
    x4 = x4
    p1 = p1
    p2 = p2
    m1 = m1
    m2 = m2
    m3 = m3
INVARIANT ListMinersCorrect
INVARIANT ListValueRoundTrip
INVARIANT BootstrapConnectsEachPeer
INVARIANT IdentityStable
INVARIANT LoadMinersKeepsFastest
\* Each behaviour is one call, which ends once the call has returned.
CHECK_DEADLOCK FALSE
