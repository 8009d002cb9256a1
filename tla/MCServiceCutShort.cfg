CONSTANTS
    Parts = {"renewal"}
    QConns = {1, 2}
    QPlans <- MCQPlans
    Pays = {1, 2, 3}
    HPlans <- MCRace
    LConns = {1, 2}
    LKeys = {1, 2}
    NoKey = 0
    LastDay = 3
    LPlans <- MCLPlans
SPECIFICATION ServiceSpec
PROPERTIES
    TermsLiveOut
CHECK_DEADLOCK FALSE
