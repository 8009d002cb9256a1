SPECIFICATION ReceiptsFairSpec
CONSTANTS
    Parts = {"sale"}
    s1 = s1 s2 = s2 a1 = a1 a2 = a2
    Services = {s1, s2}
    VoidWorkers = {v1, v2}
    VoidPlans <- MCVoidPlans
    MaxAttempts = 2
    Attempts = {a1, a2}
    ApPlans <- MCApPlans
    SalePlans <- MCSaleAsked
    NoVoidWorker = NoVoidWorker OtherOperation = OtherOperation
    NoExecToken = NoExecToken
INVARIANTS SomeoneIsAsked
CHECK_DEADLOCK FALSE
