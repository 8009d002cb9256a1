\* The gate on one host and on two; three updates one after the other.
SPECIFICATION NodesSpec
CONSTANTS
    p1 = p1
    p2 = p2
    h1 = h1
    h2 = h2
    NoProc = NoProc
    GateProcs = {p1, p2}
    GateHosts = {h1, h2}
    Deployments <- MCDeployments
    MaxGateEpoch = 3
    MaxOwnerEpoch = 3
    SupportsRelease = FALSE
    Jobs = {u1, u2, u3}
    NoJob = NoJob
    UpdateFaults = 2
INVARIANTS GateInv UpdateInv ActsOnPersistedMode
\* The bounded jobs of the updates run out.
CHECK_DEADLOCK FALSE
