CONSTANTS
    a = a
    b = b
    c = c
    n1 = n1
    w1 = w1
    w2 = w2
    e1 = e1
    e2 = e2
    k = k
    NoKey = NoKey
    NoWorker = NoWorker
    NoOp = NoOp
    NoStep = NoStep
    NoEndpoint = NoEndpoint
    Wallet = "customer_wallet"
    Payers <- MCPayers
    Ops = {"op"}
    Steps = {a, b}
    Nodes = {n1}
    Workers = {w1, w2}
    OpOf <- OneOpOf
    NodeOf <- OneSameNode
    Order <- OneOrder
    PppSteps = {}
    Converging = {a}
    Conflicting = {b}
    Price <- OnePrice
    Credit <- OneCredit
    OneTimeKey <- OneKey
    Endpoints = {e1}
    Events = {"expire", "deadline", "kill", "conflict", "crash", "down", "disable", "drain", "operator"}
SYMMETRY Symmetry
SPECIFICATION Spec
INVARIANTS SaleInv MoneySettles RefundedIsGone
CHECK_DEADLOCK FALSE
