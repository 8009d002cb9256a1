CONSTANTS
    a = a
    b = b
    c = c
    n1 = n1
    w1 = w1
    w2 = w2
    e1 = e1
    e2 = e2
    k = k
    NoKey = NoKey
    NoWorker = NoWorker
    NoOp = NoOp
    NoStep = NoStep
    NoEndpoint = NoEndpoint
    Wallet = "customer_wallet"
    Payers <- MCPayers
    Ops = {"op"}
    Steps = {a}
    Nodes = {n1}
    Workers = {w1, w2}
    OpOf <- SoloOpOf
    NodeOf <- SoloNodeOf
    Order <- SoloOrder
    PppSteps = {}
    Converging = {a}
    Conflicting = {a}
    Price <- OnePrice
    Credit <- OneCredit
    OneTimeKey <- OneKey
    Endpoints = {e1, e2}
    Events = {"expire", "deadline", "kill", "crash", "down", "move", "operator"}
SPECIFICATION QuietSpec
PROPERTIES
    EndsWhenQuiet
CHECK_DEADLOCK FALSE
