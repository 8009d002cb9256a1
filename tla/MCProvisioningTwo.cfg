CONSTANTS
    a = a
    b = b
    c = c
    n1 = n1
    w1 = w1
    w2 = w2
    e1 = e1
    e2 = e2
    k = k
    NoKey = NoKey
    NoWorker = NoWorker
    NoOp = NoOp
    NoStep = NoStep
    NoEndpoint = NoEndpoint
    Wallet = "customer_wallet"
    Payers <- MCPayers
    Ops = {"op", "other", "dear"}
    Steps = {a, b, c}
    Nodes = {n1}
    Workers = {w1, w2}
    OpOf <- TwoOpOf
    NodeOf <- TwoNodeOf
    Order <- TwoOrder
    PppSteps = {c}
    Converging = {a}
    Conflicting = {b}
    Price <- TwoPrice
    Credit <- TwoCredit
    OneTimeKey <- TwoKeys
    Endpoints = {e1}
    Events = {"expire", "disable", "cutover", "rollback", "operator"}
SYMMETRY Symmetry
SPECIFICATION Spec
INVARIANTS OneTimeClaim
PROPERTIES SaleSpec
CHECK_DEADLOCK FALSE
