SPECIFICATION DelFairSpec
CONSTANTS
    c1 = c1  c2 = c2  c3 = c3  c4 = c4  p1 = p1  n1 = n1  d1 = d1  d2 = d2
    Dels = {d1, d2}
    Conns = {c1, c2, c3, c4}
    Purchases = {p1}
    DelWorkers = {w1, w2}
    DelNodes = {n1}
    ConnNode <- MCNode
    ConnPurchase <- MCPurchase
    ConnOrder <- MCOrder
    PppConns = {c3}
    XrayConns = {c2}
    SelfHealing = {}
    Plans <- MCPlans
    NoPurchase = NoPurchase  NoDelWorker = NoDelWorker  NoDel = NoDel  NoConn = NoConn
INVARIANTS DeletionInv
PROPERTIES RemovedUnderMarker WholeScopeOrNothing DeletionSettles
CHECK_DEADLOCK FALSE
