CONSTANTS
    Parts = {"quota", "renewal", "licence"}
    QConns = {1, 2}
    QPlans <- MCQPlans
    Pays = {1, 2, 3}
    HPlans <- MCHPlans
    LConns = {1, 2}
    LKeys = {1, 2}
    NoKey = 0
    LastDay = 3
    LPlans <- MCLPlans
SPECIFICATION ServiceSpec
INVARIANTS ServiceInv
PROPERTIES TermsLiveOut LicenceSteps ServiceSettles
CHECK_DEADLOCK FALSE
