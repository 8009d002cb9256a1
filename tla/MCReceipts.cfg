SPECIFICATION ReceiptsFairSpec
CONSTANTS
    Parts = {"void", "topup", "sale"}
    s1 = s1 s2 = s2 a1 = a1 a2 = a2
    Services = {s1, s2}
    VoidWorkers = {v1, v2}
    VoidPlans <- MCVoidPlans
    MaxAttempts = 2
    Attempts = {a1, a2}
    ApPlans <- MCApPlans
    SalePlans <- MCSalePlans
    NoVoidWorker = NoVoidWorker OtherOperation = OtherOperation
    NoExecToken = NoExecToken
INVARIANTS VoidInv TopupInv SaleApprovalInv
PROPERTIES BlocksWhatWasConfirmed VoidSettles CreditedByTheRules ClaimReleased OnlyUnderTheBinding SaleSettles
CHECK_DEADLOCK FALSE
